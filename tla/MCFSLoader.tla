----------------------------- MODULE MCFSLoader -----------------------------
(***************************************************************************)
(* Instances of FSLoader for TLC.                                          *)
(***************************************************************************)
EXTENDS FSLoader

CONSTANTS a, b, f1, f2, w1, w2

Cfg(k, version, valid) == [key |-> k, version |-> version, valid |-> valid]

MCTypeOf == [k \in Keys \cup {None} |-> IF k = None THEN "" ELSE "HostStatsCollectionConfig"]

(* One file changes its configuration's version, breaks it in two ways and *)
(* repairs it; another comes and goes.                                     *)
MCContents ==
  [f \in Files |-> IF f = f1 THEN {Cfg(a, 1, TRUE), Cfg(a, 2, TRUE), Cfg(a, 3, FALSE), Garbage}
                   ELSE {Cfg(b, 1, TRUE)}]

Unset == [types |-> {}, status |-> {}]

AllStatuses == [types |-> {"HostStatsCollectionConfig"}, status |-> {TRUE, FALSE}]

MCFilter == [w \in {w1, w2} |-> IF w = w1 THEN Unset ELSE AllStatuses]

=============================================================================
