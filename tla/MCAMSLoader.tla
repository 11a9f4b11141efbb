---------------------------- MODULE MCAMSLoader ----------------------------
(***************************************************************************)
(* Instances of AMSLoader for TLC.                                         *)
(***************************************************************************)
EXTENDS AMSLoader

CONSTANTS a, b, w1, w2

Obj(k, version, valid, ttl) == [key |-> k, version |-> version, valid |-> valid, ttl |-> ttl]

MCTypeOf == [k \in Keys |-> "HostStatsCollectionConfig"]

(* Two configurations with TTLs.  A higher version of one moves its        *)
(* deadline past that of the other; the other comes in versions that are   *)
(* invalid, no number, and without a TTL.                                  *)
MCResponses ==
  {<<Obj(a, 1, TRUE, 1), Obj(b, 1, TRUE, 2)>>, <<Obj(b, 2, FALSE, 0), Obj(a, 2, TRUE, 3)>>,
   <<Obj(b, BadVersion, TRUE, 0), Obj(b, 2, TRUE, 0)>>}

MCObjects == UNION {Range(r) : r \in MCResponses}

Unset == [types |-> {}, status |-> {}]

AllStatuses == [types |-> {"HostStatsCollectionConfig"}, status |-> {TRUE, FALSE}]

MCFilter == [w \in {w1, w2} |-> IF w = w1 THEN Unset ELSE AllStatuses]

=============================================================================
