------------------------ MODULE MCRelationshipGraph ------------------------
(***************************************************************************)
(* Instances of RelationshipGraph for TLC.                                 *)
(***************************************************************************)
EXTENDS RelationshipGraph

CONSTANTS r1, r2, r3, p1, p2

MCRefs == {r1, r2, r3}

MCPreds == {p1, p2}

Rel(s, p, o) == [subj |-> s, pred |-> p, obj |-> o]

(* Both directions between two resources, as the builders add them, an     *)
(* edge to a third, and a second predicate.                                *)
MCHashOrder ==
  <<Rel(r1, p1, r2), Rel(r2, p1, r3), Rel(r2, p1, r1), Rel(r1, p2, r2)>>

MCBatches ==
  {<<Rel(r1, p1, r2), Rel(r2, p1, r1)>>, <<Rel(r2, p1, r3)>>, <<Rel(r1, p2, r2)>>}

=============================================================================
