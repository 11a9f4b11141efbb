--------------------------- MODULE MCPerfManager ---------------------------
(***************************************************************************)
(* Instances of PerfManager for TLC.                                       *)
(***************************************************************************)
EXTENDS PerfManager

CONSTANTS a, v1, v2

=============================================================================
