-------------------------- MODULE MCResourceStore --------------------------
(***************************************************************************)
(* Instances of ResourceStore for TLC: two resources of different type     *)
(* packages and a pair of relationships between them, as the builders add  *)
(* them.                                                                   *)
(***************************************************************************)
EXTENDS ResourceStore, TLC

CONSTANTS r1, r2, p1, s1, s2

MCRefs == {r1, r2}

Owns == [subj |-> r1, pred |-> p1, obj |-> r2]

OwnedBy == [subj |-> r2, pred |-> p1, obj |-> r1]

MCHashOrder == <<Owns, OwnedBy>>

MCBatches == {<<Owns, OwnedBy>>}

MCTypeOf == [r \in MCRefs |-> IF r = r1 THEN <<"kubernetes", "Node">> ELSE <<"antimetal", "Disk">>]

MCRelTypeOf == [x \in Rels |-> [kind |-> KindRelationship, type |-> <<"antimetal", "Owns">>]]

(* The two kinds of filter in use: none, and by type package. *)
MCFilter ==
  [s \in {s1, s2} |-> IF s = s1 THEN [kinds |-> {}, types |-> {}]
                                ELSE [kinds |-> {}, types |-> {<<"antimetal">>}]]

ClientSymmetry == Permutations(Clients)

=============================================================================
