------------------------- MODULE MCMetricsPipeline -------------------------
(***************************************************************************)
(* Instances of MetricsPipeline for TLC.                                   *)
(***************************************************************************)
EXTENDS MetricsPipeline

CONSTANT p1

=============================================================================
