---------------------------- MODULE GraphBuilder ----------------------------
(***************************************************************************)
(* What the hardware and the container graph builders have in common.  A   *)
(* builder turns a snapshot into a plan: the sequence of its calls on the  *)
(* resource store.                                                         *)
(*   Put     UpdateResource with a node's spec                             *)
(*   Relate  addRelationships with a batch of edges                        *)
(*   Abort   a node that cannot be made                                    *)
(* The builders only add to the store, so a relationship is in all three   *)
(* of its indexes equally often (StoreDB): the relationships are a bag.    *)
(* An edge is a relationship together with the contents of its predicate,  *)
(* attr.                                                                   *)
(***************************************************************************)
EXTENDS Integers, Sequences, FiniteSets, SequencesExt, BagsExt

CONSTANT None

Put(node) == [do |-> "put", ref |-> node.ref, spec |-> node.spec]

(* Every builder skips the call when it has no relationships to add. *)
Relate(edges) == IF edges = <<>> THEN <<>> ELSE <<[do |-> "relate", edges |-> edges]>>

Abort == [do |-> "abort"]

Edge(subj, pred, obj, attr) ==
  [rel |-> [subj |-> subj, pred |-> pred, obj |-> obj], attr |-> attr]

(* Mutant: no look for what is there already. *)
AllEdges(rels, edges) == edges

(* addRelationships: the edges for which GetRelationships, asked with      *)
(* subject, object and predicate type, finds nothing.  Those found are     *)
(* left as they are, whatever their predicates hold.                       *)
EdgesToAdd(rels, edges) == SelectSeq(edges, LAMBDA e : ~BagIn(e.rel, rels))

RelsOf(edges) == [i \in DOMAIN edges |-> edges[i].rel]

(* AddRelationships: each of the batch, once more.                         *)
AddRelationships(rels, batch) ==
  [x \in DOMAIN rels \cup Range(batch) |->
     CopiesIn(x, rels) + Cardinality({i \in DOMAIN batch : batch[i] = x})]

=============================================================================
