----------------------------- MODULE DemoBackend ----------------------------
(***************************************************************************)
(* The demo backends (cmd/backend/main.go) and the dashboard's button that *)
(* toggles their health (handleToggleBackend in ui/dashboard.go).  up[b]   *)
(* is the flag healthy of backend b.  The button's request may be given up *)
(* after 5 seconds; its handler at the backend runs on all the same.       *)
(***************************************************************************)
EXTENDS HealthChecker

CONSTANTS Togglers   \* toggles that may run at the same time

VARIABLES
  toggler,    \* toggler[c]: the backend c toggles and the flag it loaded
  expected    \* expected[b]: what the flag may be once nobody toggles b
              \* any more (history)

demoVars == <<up, toggler, expected>>

Idle == [at |-> NumBackends, current |-> FALSE]

DemoInit ==
  /\ up = [b \in Backends |-> TRUE]
  /\ toggler = [c \in Togglers |-> Idle]
  /\ expected = [b \in Backends |-> {TRUE}]

Toggling(b) == {c \in Togglers : toggler[c].at = b}

(* handleToggleHealth: the load, ...                                       *)
LoadToggle(c, b) ==
  /\ b \in Faulty /\ toggler[c] = Idle
  /\ toggler' = [toggler EXCEPT ![c] = [at |-> b, current |-> up[b]]]
  /\ expected' = [expected EXCEPT ![b] = IF Toggling(b) = {} THEN {~up[b]} ELSE BOOLEAN]
  /\ UNCHANGED up

(* Mutant: the button always makes a backend unhealthy.                    *)
StoreToggle_Off(c) ==
  LET b == toggler[c].at IN
  /\ toggler[c] # Idle
  /\ up' = [up EXCEPT ![b] = FALSE]
  /\ toggler' = [toggler EXCEPT ![c] = Idle]
  /\ UNCHANGED expected

(* ... and the store of the opposite.                                      *)
StoreToggle(c) ==
  LET b == toggler[c].at IN
  /\ toggler[c] # Idle
  /\ up' = [up EXCEPT ![b] = ~toggler[c].current]
  /\ toggler' = [toggler EXCEPT ![c] = Idle]
  /\ UNCHANGED expected

DemoStep ==
  \E c \in Togglers : StoreToggle(c) \/ \E b \in Backends : LoadToggle(c, b)

DemoTypeOK ==
  /\ up \in [Backends -> BOOLEAN]
  /\ toggler \in [Togglers -> [at : Backends, current : BOOLEAN] \cup {Idle}]
  /\ expected \in [Backends -> SUBSET BOOLEAN]

(* Every press of the button counts: once nobody is toggling a backend any *)
(* more its flag is the opposite of what it was before the last press,     *)
(* unless two presses overlapped, in which case one may be lost (the load  *)
(* and the store of handleToggleHealth are two steps).                     *)
TogglesCount ==
  \A b \in Backends : Toggling(b) = {} => up[b] \in expected[b]
=============================================================================
