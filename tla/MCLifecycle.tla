---------------------------- MODULE MCLifecycle ----------------------------
(* Model values and environments for the runs of module Lifecycle.         *)
EXTENDS Lifecycle

CONSTANTS r1, p1, p2

OneRequest == {r1}
TwoPairs == {p1, p2}

Plain ==
  [key \in DOMAIN Defaults \cup {"LB_BACKENDS", "LB_WEIGHTS"} |-> Unset]

(* Started as in start.sh; with nothing set; with a URL that does not      *)
(* parse; with everything a little wrong; with certificates; with those of *)
(* the operator.                                                           *)
SixEnvironments ==
  LET listed == [Plain EXCEPT !.LB_BACKENDS = <<"url">>,
                              !.LB_METRICS_ENABLED = FALSE] IN
  {[listed EXCEPT !.LB_METRICS_ENABLED = Unset],
   Plain,
   [listed EXCEPT !.LB_BACKENDS = <<"url", "broken">>],
   [listed EXCEPT !.LB_BACKENDS = <<"url", "blank">>, !.LB_WEIGHTS = <<Garbled, 3, 0>>,
                  !.LB_STRATEGY = "fastest", !.LB_HEALTH_INTERVAL = 0,
                  !.LB_HEALTH_TIMEOUT = -1, !.LB_TLS_ENABLED = Garbled],
   [listed EXCEPT !.LB_TLS_ENABLED = TRUE],
   [listed EXCEPT !.LB_TLS_ENABLED = TRUE, !.LB_TLS_AUTO_GEN = FALSE]}

OneFlag == {Unset}
=============================================================================
