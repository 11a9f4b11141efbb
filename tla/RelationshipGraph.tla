------------------------- MODULE RelationshipGraph -------------------------
(***************************************************************************)
(* The resource store seen one committed transaction at a time: what its   *)
(* callers can rely on once concurrency is put aside.  ResourceStore makes *)
(* its steps of the same transactions.                                     *)
(***************************************************************************)
EXTENDS StoreDB

CONSTANTS
  Batches,    \* the argument lists of AddRelationships
  Times,      \* the timestamps transactions may carry
  MaxCopies   \* bound on the copies of a key in one index value, None for none

ASSUME GraphAssumption ==
  /\ Batches \subseteq Seq(Rels)
  /\ \A b \in Batches : \A i \in DOMAIN b : b[i].subj # b[i].obj
  /\ Times \subseteq Nat
  /\ MaxCopies \in Nat \cup {None}

VARIABLE db

Init == db = EmptyDB

(* "If a resource already exists with the same name and namespace, it will *)
(* return an error."                                                       *)
AddResource(r) ==
  /\ db.rsrc[r] = None
  /\ \E now \in Times : db' = AddResourceTxn(db, r, now)

UpdateResource(r) == \E now \in Times : db' = UpdateResourceTxn(db, r, now)

DeleteResource(r) == db' = DeleteResourceTxn(db, r)

AddRelationships(batch) ==
  /\ db' = AddRelationshipsTxn(db, batch)
  /\ MaxCopies # None =>
       \A x \in Rels : /\ db'.subj[x.subj][x] <= MaxCopies
                       /\ db'.obj[x.obj][x] <= MaxCopies
                       /\ db'.pred[x.pred][x] <= MaxCopies

Next ==
  \/ \E r \in Refs : AddResource(r) \/ UpdateResource(r) \/ DeleteResource(r)
  \/ \E b \in Batches : AddRelationships(b)

Spec == Init /\ [][Next]_db

-----------------------------------------------------------------------------

(* The database has its type. *)
TypeOK == db \in DB

(* A relationship object exists exactly when it is in both the subject     *)
(* index of its subject and the object index of its object: DeleteResource *)
(* removes the deleted resource's own two indexes and every object found   *)
(* through them, whatever it leaves behind at the other ends.              *)
LiveIffIndexedAtBothEnds ==
  \A x \in Rels : x \in db.rel <=> db.subj[x.subj][x] > 0 /\ db.obj[x.obj][x] > 0

(* Every relationship object can be found through its predicate's index:   *)
(* the search in deleteObjKeyFromIndex never removes a key it was not      *)
(* asked to remove.                                                        *)
PredicateIndexComplete ==
  \A x \in db.rel : db.pred[x.pred][x] > 0

(* GetRelationships with a subject and an object, with or without a        *)
(* predicate, returns the matching relationships and nothing else, even    *)
(* though the index values it intersects may hold keys of deleted objects. *)
EndpointQueriesExact ==
  \A q \in Query :
    {"subj", "obj"} \subseteq Filters(q) => GetRelationships(db, q) = {Answer(Matching(db, q), FALSE)}

(* Whatever GetRelationships returns exists and matches the query, also    *)
(* when it stops early at the key of a deleted object, and a nil error     *)
(* means that nothing that matches was left out.                           *)
QueriesSound ==
  \A q \in Query : \A answer \in GetRelationships(db, q) :
    /\ answer.found \subseteq Matching(db, q)
    /\ answer.err = "nil" => answer.found = Matching(db, q)

(* A resource is never removed while a relationship object with it at      *)
(* either end stays: DeleteResource "also cascade deletes all              *)
(* relationships where the resource is the subject or object"              *)
(* (store.go:345).                                                         *)
CascadeDelete ==
  [][\A r \in Refs : db.rsrc[r] # None /\ db'.rsrc[r] = None
        => \A x \in db'.rel : x.subj # r /\ x.obj # r]_db

(* "GetRelationships returns all relationships that match the combination  *)
(* subject, object, and predicate" (store.go:537), for queries by          *)
(* predicate.                                                              *)
PredicateQueriesComplete ==
  \A q \in Query :
    Filters(q) = {"pred"} => GetRelationships(db, q) = {Answer(Matching(db, q), FALSE)}

=============================================================================
