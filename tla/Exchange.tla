------------------------------ MODULE Exchange -----------------------------
(***************************************************************************)
(* What the balancer promises of a request, seen from outside: how often   *)
(* it may reach a server, when it may be tried again, and that it is not   *)
(* closed without an answer, though the connection may be cut.  Module     *)
(* Server is shown to implement this.                                      *)
(***************************************************************************)
EXTENDS Naturals

CONSTANTS
  Requests,
  MaxRetries   \* further attempts for a request that may be repeated

VARIABLE deal  \* deal[r]: the state of request r

Fresh == [phase |-> "none", retryable |-> FALSE, tries |-> 0, answer |-> "none"]

(* A request that may change something is sent to a server at most once.   *)
Limit(d) == IF d.retryable THEN MaxRetries + 1 ELSE 1

Init == deal = [r \in Requests |-> Fresh]

Open(r) ==
  /\ deal[r] = Fresh
  /\ \E retryable \in BOOLEAN :
       deal' = [deal EXCEPT ![r].phase = "open", ![r].retryable = retryable]

(* Send r to a server: never after a final answer, and after another one   *)
(* only if r may be repeated.                                              *)
Try(r) ==
  /\ deal[r].phase = "open"
  /\ deal[r].answer # "final"
  /\ deal[r].answer = "given" => deal[r].retryable
  /\ deal[r].tries < Limit(deal[r])
  /\ deal' = [deal EXCEPT ![r].tries = @ + 1]

(* An answer is given; it is final only if a server may have given it.     *)
Answer(r) ==
  /\ deal[r].phase = "open"
  /\ deal[r].answer # "final"
  /\ \E answer \in {"given", "final"} :
       /\ answer = "final" => deal[r].tries > 0
       /\ deal' = [deal EXCEPT ![r].answer = answer]

Close(r) ==
  /\ deal[r].phase = "open"
  /\ deal[r].answer # "none"
  /\ deal' = [deal EXCEPT ![r].phase = "closed"]

(* There is no server to send r to, at first or any more.                  *)
Refuse(r) ==
  /\ deal[r].phase = "open"
  /\ deal[r].answer # "final"
  /\ deal' = [deal EXCEPT ![r].phase = "closed", ![r].answer = "given"]

(* An answer that was begun breaks off, and as much of it as was not sent  *)
(* yet is lost, the status perhaps too.                                    *)
Cut(r) ==
  /\ deal[r].phase = "open"
  /\ deal[r].answer # "none" /\ deal[r].tries > 0
  /\ deal' = [deal EXCEPT ![r].phase = "cut"]

Forget(r) ==
  /\ deal[r].phase \in {"closed", "cut"}
  /\ deal' = [deal EXCEPT ![r] = Fresh]

Next == \E r \in Requests :
          Open(r) \/ Try(r) \/ Answer(r) \/ Close(r) \/ Refuse(r) \/ Cut(r) \/ Forget(r)

Spec == Init /\ [][Next]_deal
=============================================================================
