--------------------------- MODULE MCLeastMetric ---------------------------
(* Values of the metric for the runs of module LeastMetric.                *)
EXTENDS LeastMetric

ThreeValues == {0, 1, 2}
=============================================================================
