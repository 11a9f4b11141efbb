------------------------------ MODULE StoreDB ------------------------------
(***************************************************************************)
(* The contents of the resource store's key-value database and the         *)
(* transactions that read and write it (internal/resource/store/store.go). *)
(*                                                                         *)
(* A database is a record:                                                 *)
(*   rsrc  the resource stored under each reference, None if absent;       *)
(*   rel   the relationship objects stored (keyed by hash in the code);    *)
(*   subj, obj, pred  the three relationship indexes.                      *)
(*                                                                         *)
(* An index value is the sorted concatenation of 32-byte object keys, with *)
(* repetitions.  It is determined by how often each key occurs, so it is   *)
(* modelled as a function from relationships to counts; Layout gives the   *)
(* sorted sequence back where the code depends on positions.  A missing    *)
(* index key and an empty index value are the same thing to every reader.  *)
(***************************************************************************)
EXTENDS Integers, Sequences, FiniteSetsExt, Functions

CONSTANTS
  Refs,       \* resource references (type and name)
  Preds,      \* predicate types
  HashOrder,  \* the relationships in the order of their SHA-256 object keys
  None        \* no resource; a nil argument of a query

(* Every relationship a caller may add, each a subject, predicate, object. *)
Rels == Range(HashOrder)

ASSUME HashOrderAssumption ==
  /\ HashOrder \in Seq([subj : Refs, pred : Preds, obj : Refs])
  /\ IsInjective(HashOrder)

(* The rank of a relationship's object key under bytes.Compare. *)
Pos(x) == CHOOSE i \in DOMAIN HashOrder : HashOrder[i] = x

Index == [Rels -> Nat]

EmptyIndex == [x \in Rels |-> 0]

EmptyDB ==
  [rsrc |-> [r \in Refs |-> None],
   rel  |-> {},
   subj |-> [r \in Refs |-> EmptyIndex],
   obj  |-> [r \in Refs |-> EmptyIndex],
   pred |-> [p \in Preds |-> EmptyIndex]]

Resource == [created : Nat, updated : Nat]

ASSUME NoneAssumption == None \notin Refs /\ None \notin Preds /\ None \notin Resource

DB ==
  [rsrc : [Refs -> Resource \cup {None}],
   rel  : SUBSET Rels,
   subj : [Refs -> Index],
   obj  : [Refs -> Index],
   pred : [Preds -> Index]]

-----------------------------------------------------------------------------
(* Index values. *)

(* The object keys of an index value, in the order they are stored. *)
Layout(idx) ==
  LET keys[i \in 0..Len(HashOrder)] ==
        IF i = 0 THEN << >>
        ELSE keys[i - 1] \o [k \in 1..idx[HashOrder[i]] |-> HashOrder[i]]
  IN  keys[Len(HashOrder)]

Occurrences(batch, x) == Cardinality({i \in DOMAIN batch : batch[i] = x})

(* addObjKeyToIndex, once for each relationship of the batch that belongs  *)
(* to this index.  Nothing is deduplicated.                                *)
AddObjKeysToIndex(idx, batch, members) ==
  [x \in Rels |-> IF x \in members THEN idx[x] + Occurrences(batch, x) ELSE idx[x]]

(* One pass of the search loop of deleteObjKeyFromIndex over [l, h): the   *)
(* position (from 1) of the key, 0 if the interval is empty, or what the   *)
(* rest of the loop, s, finds.  The interval is half-open, yet its upper   *)
(* end moves to m - 1.                                                     *)
SearchStep(keys, x, s, l, h) ==
  LET m == (l + h) \div 2
  IN  IF l >= h THEN 0
      ELSE IF keys[m + 1] = x THEN m + 1
      ELSE IF Pos(keys[m + 1]) < Pos(x) THEN s[<<m + 1, h>>]
      ELSE s[<<l, m - 1>>]

SearchIndex(keys, x) ==
  LET search[i \in (0..Len(keys)) \X ((-1)..Len(keys))] ==
        SearchStep(keys, x, search, i[1], i[2])
  IN  search[<<0, Len(keys)>>]

(* Mutant: the slice is cut one key too late.                              *)
DeleteObjKeyOffByOne(idx, x) ==
  LET keys == Layout(idx)
      m    == SearchIndex(keys, x)
  IN  IF m # 0 /\ m < Len(keys) THEN [idx EXCEPT ![keys[m + 1]] = @ - 1] ELSE idx

DeleteObjKeyFromIndex(idx, x) ==
  IF SearchIndex(Layout(idx), x) # 0 THEN [idx EXCEPT ![x] = @ - 1] ELSE idx

(* The loop over delObjs: the keys are deleted one after the other. *)
DeleteObjKeysFromIndex(idx, keys) ==
  LET del[n \in 0..Len(keys)] ==
        IF n = 0 THEN idx ELSE DeleteObjKeyFromIndex(del[n - 1], keys[n])
  IN  del[Len(keys)]

-----------------------------------------------------------------------------
(* The update transactions. *)

AddResourceTxn(d, r, now) ==
  [d EXCEPT !.rsrc[r] = [created |-> now, updated |-> now]]

UpdateResourceTxn(d, r, now) ==
  [d EXCEPT !.rsrc[r] = [created |-> IF @ = None THEN now ELSE @.created,
                         updated |-> now]]

AddRelationshipsTxn(d, batch) ==
  [rsrc |-> d.rsrc,
   rel  |-> d.rel \cup Range(batch),
   subj |-> [r \in Refs |-> AddObjKeysToIndex(d.subj[r], batch, {x \in Rels : x.subj = r})],
   obj  |-> [r \in Refs |-> AddObjKeysToIndex(d.obj[r], batch, {x \in Rels : x.obj = r})],
   pred |-> [p \in Preds |-> AddObjKeysToIndex(d.pred[p], batch, {x \in Rels : x.pred = p})]]

(* Mutant: only the relationships of which the resource is the subject.    *)
SubjectObjects(d, r) == {x \in Rels : d.subj[r][x] > 0}

(* The relationships found through the resource's own two indexes.  The    *)
(* indexes of the resources at the other ends are not touched.             *)
IndexedObjects(d, r) == {x \in Rels : d.subj[r][x] > 0 \/ d.obj[r][x] > 0}

(* Mutant: the object index of the deleted resource stays.                 *)
DeleteResourceTxnKeepsObjectIndex(d, r) ==
  [d EXCEPT !.rsrc[r] = None, !.rel = @ \ IndexedObjects(d, r), !.subj[r] = EmptyIndex]

DeleteResourceTxn(d, r) ==
  [rsrc |-> [d.rsrc EXCEPT ![r] = None],
   rel  |-> d.rel \ IndexedObjects(d, r),
   subj |-> [d.subj EXCEPT ![r] = EmptyIndex],
   obj  |-> [d.obj EXCEPT ![r] = EmptyIndex],
   pred |-> [p \in Preds |->
               DeleteObjKeysFromIndex(d.pred[p], Layout(d.subj[r]) \o Layout(d.obj[r]))]]

-----------------------------------------------------------------------------
(* GetRelationships. *)

Query == [subj : Refs \cup {None}, obj : Refs \cup {None}, pred : Preds \cup {None}]

Filters(q) == {f \in {"subj", "obj", "pred"} : q[f] # None}

(* Mutant: the union of the index values instead of their intersection.    *)
ObjKeysUnion(d, q) == {x \in Rels : \E f \in Filters(q) : d[f][q[f]][x] > 0}

(* The object keys that readObjKeysFromIndexes returns. *)
ObjKeys(d, q) == {x \in Rels : \A f \in Filters(q) : d[f][q[f]][x] > 0}

(* What GetRelationships returns once its transaction has found some       *)
(* relationships and succeeded or failed: they come together with the      *)
(* error, and an error of the transaction that found none is replaced by   *)
(* ErrRelationshipsNotFound.                                               *)
Answer(found, failed) ==
  [found |-> found,
   err   |-> IF found = {} THEN "not found" ELSE IF failed THEN "failed" ELSE "nil"]

(* The answers GetRelationships may give.  The loop over the object keys   *)
(* fails at the first one whose object is gone: one index is read in       *)
(* stored order, an intersection in Go's random map order.                 *)
GetRelationships(d, q) ==
  LET keys  == ObjKeys(d, q)
      stale == ~(keys \subseteq d.rel)
  IN  CASE Filters(q) = {} -> {Answer({}, TRUE)}
        [] Filters(q) \in {{"subj"}, {"obj"}, {"pred"}} ->
             {Answer({x \in keys : \A y \in keys : Pos(y) <= Pos(x) => y \in d.rel}, stale)}
        [] OTHER -> {Answer(found, stale) : found \in IF stale THEN SUBSET (keys \cap d.rel) ELSE {keys}}

(* What the documentation of GetRelationships promises. *)
Matching(d, q) == {x \in d.rel : \A f \in Filters(q) : x[f] = q[f]}

=============================================================================
