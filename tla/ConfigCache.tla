---------------------------- MODULE ConfigCache ----------------------------
(***************************************************************************)
(* The configuration cache of the AMS loader and its expiry heap           *)
(* (internal/config/ams.go, parser.go).  The stream goroutine processes    *)
(* the objects it receives; the lifecycle goroutine pops an expired node   *)
(* under one lock and deletes its entry under another.                     *)
(*                                                                         *)
(* An object is abstracted to its cache key, its version number (or        *)
(* BadVersion, if it does not parse as one), whether Parse accepts it, and *)
(* its TTL (0 for none).  A cache entry remembers a position in the heap,  *)
(* 0 standing for the -1 of the code.                                      *)
(***************************************************************************)
EXTENDS TTLHeap

CONSTANTS
  Keys,        \* cache keys: type and name of a configuration
  Objects,     \* the objects the service may send
  BadVersion,  \* a version that is not a number
  None,        \* no cache entry, no node, no deadline
  MaxClock     \* bound on the clock

ASSUME CacheAssumption ==
  /\ Objects \subseteq [key : Keys, version : Int \cup {BadVersion}, valid : BOOLEAN, ttl : Nat]
  /\ BadVersion \notin Int
  /\ None \notin Keys \cup Int \cup [version : Int, ok : BOOLEAN, idx : Nat]
  /\ MaxClock \in Nat

VARIABLES
  cache,    \* the entry of each key, None if there is none
  heap,     \* the expiry heap
  clock,    \* the time
  popped,   \* the key of a node popped and not yet deleted from the cache
  crashed   \* the process died on an index out of range

cacheVars == <<cache, heap, clock, popped, crashed>>

CacheInit ==
  /\ cache = [k \in Keys |-> None]
  /\ heap = <<>>
  /\ clock = 0
  /\ popped = None
  /\ crashed = FALSE

-----------------------------------------------------------------------------

(* The sign of the result; prev is None when nothing is stored. *)
CompareVersions(current, prev) ==
  CASE current = BadVersion                 -> "error"
    [] current # BadVersion /\ prev = None  -> "higher"
    [] OTHER -> IF current < 0 \/ prev < 0 THEN "error"
                ELSE IF current < prev THEN "lower"
                ELSE IF current > prev THEN "higher" ELSE "equal"

CachedVersion(k) == IF cache[k] = None THEN None ELSE cache[k].version

(* processConfig returns no error: the object is cached and acknowledged. *)
IsAccepted(obj) ==
  /\ CompareVersions(obj.version, CachedVersion(obj.key)) \in {"equal", "higher"}
  /\ obj.valid

(* Mutant: a configuration that does not parse replaces a valid one.       *)
StoresInvalid(obj) ==
  CompareVersions(obj.version, CachedVersion(obj.key)) \in {"equal", "higher"}

(* "Update the cache only if it's a new config or the new config is valid" *)
IsStored(obj) ==
  /\ CompareVersions(obj.version, CachedVersion(obj.key)) \in {"equal", "higher"}
  /\ obj.valid \/ cache[obj.key] = None \/ ~cache[obj.key].ok

Entry(obj, idx) == [version |-> obj.version, ok |-> obj.valid, idx |-> idx]

(* addCfgToTTLHeap: the entry copies the position its node has now. *)
AddCfgToTTLHeap(obj, node) ==
  LET h == HeapPush(heap, node)
  IN  /\ heap' = h
      /\ cache' = [cache EXCEPT ![obj.key] =
                     Entry(obj, CHOOSE i \in DOMAIN h : h[i].key = obj.key)]

(* Mutant: the deadline changes in place.                                  *)
UpdateCfgWithoutFix(obj, node) ==
  LET i == cache[obj.key].idx
  IN  /\ heap' = IF i = 0 THEN heap ELSE [heap EXCEPT ![i].ttl = node.ttl]
      /\ cache' = [cache EXCEPT ![obj.key] = Entry(obj, i)]

(* updateCfgInTTLHeap. *)
UpdateCfgInTTLHeap(obj, node) ==
  LET i == cache[obj.key].idx
  IN  /\ heap' = IF i = 0 THEN heap ELSE HeapFix([heap EXCEPT ![i].ttl = node.ttl], i)
      /\ cache' = [cache EXCEPT ![obj.key] = Entry(obj, i)]

(* removeCfgFromTTLHeap. *)
RemoveCfgFromTTLHeap(obj) ==
  LET i == cache[obj.key].idx
  IN  /\ heap' = IF i = 0 THEN heap ELSE HeapRemove(heap, i)
      /\ cache' = [cache EXCEPT ![obj.key] = Entry(obj, 0)]

IndexOutOfRange(obj) == cache[obj.key] # None /\ cache[obj.key].idx > Len(heap)

ProcessConfig(obj) ==
  /\ ~crashed
  /\ UNCHANGED <<clock, popped>>
  /\ IF ~IsStored(obj)
     THEN UNCHANGED <<cache, heap, crashed>>
     ELSE LET node == [key |-> obj.key, ttl |-> clock + obj.ttl]
          IN  IF IndexOutOfRange(obj)
              THEN /\ crashed' = TRUE
                   /\ UNCHANGED <<cache, heap>>
              ELSE /\ crashed' = crashed
                   /\ CASE cache[obj.key] = None /\ obj.ttl = 0 ->
                             /\ cache' = [cache EXCEPT ![obj.key] = Entry(obj, 0)]
                             /\ heap' = heap
                        [] cache[obj.key] = None /\ obj.ttl > 0 -> AddCfgToTTLHeap(obj, node)
                        [] cache[obj.key] # None /\ obj.ttl = 0 -> RemoveCfgFromTTLHeap(obj)
                        [] cache[obj.key] # None /\ obj.ttl > 0 -> UpdateCfgInTTLHeap(obj, node)

(* manageConfigLifecyle: pop the first node once its time has passed. *)
PopExpired ==
  /\ ~crashed
  /\ popped = None
  /\ heap # <<>>
  /\ clock > heap[1].ttl
  /\ popped' = heap[1].key
  /\ heap' = HeapPop(heap)
  /\ UNCHANGED <<cache, clock, crashed>>

DeletePopped ==
  /\ ~crashed
  /\ popped # None
  /\ popped' = None
  /\ cache' = [cache EXCEPT ![popped] = None]
  /\ UNCHANGED <<heap, clock, crashed>>

Tick ==
  /\ ~crashed
  /\ clock < MaxClock
  /\ clock' = clock + 1
  /\ UNCHANGED <<cache, heap, popped, crashed>>

-----------------------------------------------------------------------------

(* The state has its type; in particular a stored version is a number,     *)
(* which CompareVersions must ensure also for the first one.               *)
CacheTypeOK ==
  /\ cache \in [Keys -> [version : Int, ok : BOOLEAN, idx : Nat] \cup {None}]
  /\ heap \in Seq([key : Keys, ttl : Nat])
  /\ clock \in 0..MaxClock
  /\ popped \in Keys \cup {None}
  /\ crashed \in BOOLEAN

(* The heap stays a heap and holds at most one node per key, each of a key *)
(* that is cached and not being deleted, although processConfig applies    *)
(* heap.Fix and heap.Remove to positions that may be out of date.          *)
HeapSound ==
  /\ IsHeap(heap)
  /\ \A i \in DOMAIN heap : cache[heap[i].key] # None /\ heap[i].key # popped
  /\ \A i, j \in DOMAIN heap : heap[i].key = heap[j].key => i = j

(* As long as a configuration stays cached its version never decreases and *)
(* a valid version is never replaced by an invalid one: "If a new version  *)
(* of a config is received that is invalid, it will return the most recent *)
(* valid config" (manager.go:84).                                          *)
CacheImproves ==
  [][\A k \in Keys : cache[k] # None /\ cache'[k] # None =>
        /\ cache'[k].version >= cache[k].version
        /\ cache[k].ok => cache'[k].ok]_cacheVars

=============================================================================
