--------------------------- MODULE ResourceStore ---------------------------
(***************************************************************************)
(* The resource store as its clients, its event router and its subscribers *)
(* run it concurrently (internal/resource/store/store.go).                 *)
(*                                                                         *)
(* Every operation holds the store's RWMutex from its first line to its    *)
(* return.  A writing operation commits one database transaction and then, *)
(* still holding the lock, hands its events one by one to the router       *)
(* goroutine over an unbuffered channel.  The router copies each event to  *)
(* the channels of the matching subscribers.  Subscribe starts a goroutine *)
(* that reads a snapshot of the database and sends it on the same channel. *)
(*                                                                         *)
(* An operation that fails (store closed, resource already present, a key  *)
(* that does not encode) changes nothing and is a stuttering step.  A      *)
(* panic in any goroutine ends the process: no step follows it.            *)
(***************************************************************************)
EXTENDS StoreDB

CONSTANTS
  Clients,    \* goroutines that call the store
  Subs,       \* calls of Subscribe
  Filter,     \* the type descriptors each call of Subscribe passes
  TypeOf,     \* the type path of each resource reference
  RelTypeOf,  \* the type descriptor of each relationship
  Batches,    \* the argument lists of AddRelationships
  ChanCap,    \* capacity of a subscriber's channel (1000 in the code)
  MaxEvents   \* bound on the number of events committed

ASSUME StoreAssumption ==
  /\ ChanCap \in Nat \ {0}
  /\ MaxEvents \in Nat
  /\ Batches \subseteq Seq(Rels)
  /\ \A b \in Batches : \A i \in DOMAIN b : b[i].subj # b[i].obj
  /\ Refs \cap Rels = {}

VARIABLES
  db,            \* the database
  log,           \* history: the events in the order they were committed
  pc,            \* what each client is doing under the lock
  outbox,        \* positions in log each client has still to hand over
  opGauge,       \* operations in progress
  closed,        \* store.closed
  stop,          \* stopEventRouter has been closed
  routerClosed,  \* eventRouter has been closed
  router,        \* where the router goroutine is
  current,       \* the event it is routing, a position in log
  todo,          \* subscribers its range loop has still to visit
  subs,          \* store.subscribers
  initial,       \* where each sendInitialObjects goroutine is
  snapshot,      \* the objects it has read
  sent,          \* history: everything sent on a subscriber's channel
  nread,         \* how much of it the subscriber has received
  chClosed,      \* the subscriber's channel has been closed
  panicked       \* the process died on a send to a closed channel

dbVars == <<db, log>>
routerVars == <<router, current, todo, routerClosed>>
subVars == <<subs, initial, snapshot, sent, nread, chClosed>>
vars == <<db, log, pc, outbox, opGauge, closed, stop, panicked, routerVars, subVars>>

NoSnapshot == [at |-> 0, rsrc |-> [r \in Refs |-> None], rel |-> {}]

Init ==
  /\ db = EmptyDB
  /\ log = <<>>
  /\ pc = [c \in Clients |-> "idle"]
  /\ outbox = [c \in Clients |-> <<>>]
  /\ opGauge = 0
  /\ closed = FALSE
  /\ stop = FALSE
  /\ routerClosed = FALSE
  /\ router = "new"
  /\ current = 0
  /\ todo = <<>>
  /\ subs = <<>>
  /\ initial = [s \in Subs |-> "none"]
  /\ snapshot = [s \in Subs |-> NoSnapshot]
  /\ sent = [s \in Subs |-> <<>>]
  /\ nread = [s \in Subs |-> 0]
  /\ chClosed = [s \in Subs |-> FALSE]
  /\ panicked = FALSE

-----------------------------------------------------------------------------
(* Type descriptors and filters.  A filter holds the dot-separated kinds   *)
(* and types that the descriptors passed to Subscribe name.                *)

KindResource == <<"antimetal", "resource", "v1", "Resource">>

KindRelationship == <<"antimetal", "resource", "v1", "Relationship">>

(* DeleteResource makes up a descriptor with the unqualified kind. *)
DeletedKind == <<"Resource">>

HasPrefix(path, prefix) == Len(prefix) <= Len(path) /\ SubSeq(path, 1, Len(prefix)) = prefix

Match(f, td) ==
  \/ f.kinds = {} /\ f.types = {}
  \/ /\ td # None
     /\ f.kinds # {} => \E k \in f.kinds : HasPrefix(td.kind, k)
     /\ \E t \in f.types : HasPrefix(td.type, t)

RsrcType(r) == [kind |-> KindResource, type |-> TypeOf[r]]

-----------------------------------------------------------------------------
(* The RWMutex. *)

(* Mutant: a writer gives up the lock once it has committed.               *)
CanLockAfterCommit == \A c \in Clients : pc[c] \in {"idle", "send"}

CanLock == \A c \in Clients : pc[c] = "idle"

CanRLock == \A c \in Clients : pc[c] \in {"idle", "read"}

-----------------------------------------------------------------------------
(* Writing operations: lock, commit, then send each event. *)

Event(op, td, obj) == [op |-> op, td |-> td, obj |-> obj]

Now == Len(log) + 1

Commit(c, d, events) ==
  /\ ~panicked
  /\ pc[c] = "idle"
  /\ CanLock
  /\ ~closed
  /\ Len(log) + Len(events) <= MaxEvents
  /\ db' = d
  /\ log' = log \o events
  /\ outbox' = [outbox EXCEPT ![c] = [i \in 1..Len(events) |-> Len(log) + i]]
  /\ opGauge' = opGauge + 1
  /\ pc' = [pc EXCEPT ![c] = "send"]
  /\ UNCHANGED <<closed, stop, panicked, routerVars, subVars>>

AddResource(c, r) ==
  /\ db.rsrc[r] = None
  /\ Commit(c, AddResourceTxn(db, r, Now), <<Event("ADD", RsrcType(r), r)>>)

UpdateResource(c, r) ==
  Commit(c, UpdateResourceTxn(db, r, Now), <<Event("UPDATE", RsrcType(r), r)>>)

(* Mutant: no event is sent for a deletion.                                *)
DeleteResourceSilently(c, r) == Commit(c, DeleteResourceTxn(db, r), <<>>)

DeleteResource(c, r) ==
  Commit(c, DeleteResourceTxn(db, r),
         <<Event("DELETE", [kind |-> DeletedKind, type |-> TypeOf[r]], r)>>)

AddRelationships(c, batch) ==
  Commit(c, AddRelationshipsTxn(db, batch),
         [i \in DOMAIN batch |-> Event("ADD", RelTypeOf[batch[i]], batch[i])])

(* s.eventRouter <- event: a rendezvous with the router's select. *)
SendEvent(c) ==
  /\ ~panicked
  /\ pc[c] = "send"
  /\ outbox[c] # <<>>
  /\ router = "select"
  /\ current' = Head(outbox[c])
  /\ outbox' = [outbox EXCEPT ![c] = Tail(@)]
  /\ router' = "range"
  /\ UNCHANGED <<dbVars, pc, opGauge, closed, stop, panicked, todo, routerClosed, subVars>>

(* The deferred opGauge.Add(-1) and mu.Unlock(). *)
Return(c) ==
  /\ ~panicked
  /\ \/ pc[c] = "send" /\ outbox[c] = <<>>
     \/ pc[c] = "read"
  /\ opGauge' = opGauge - 1
  /\ pc' = [pc EXCEPT ![c] = "idle"]
  /\ UNCHANGED <<dbVars, outbox, closed, stop, panicked, routerVars, subVars>>

(* GetResource and GetRelationships, under the read lock. *)
Get(c) ==
  /\ ~panicked
  /\ pc[c] = "idle"
  /\ CanRLock
  /\ ~closed
  /\ opGauge' = opGauge + 1
  /\ pc' = [pc EXCEPT ![c] = "read"]
  /\ UNCHANGED <<dbVars, outbox, closed, stop, panicked, routerVars, subVars>>

(* Mutant: Close counts as an operation.                                   *)
CloseGauged(c) ==
  /\ ~panicked
  /\ pc[c] = "idle"
  /\ CanLock
  /\ ~closed
  /\ stop' = TRUE
  /\ opGauge' = opGauge + 1
  /\ pc' = [pc EXCEPT ![c] = "close"]
  /\ UNCHANGED <<dbVars, outbox, closed, panicked, routerVars, subVars>>

Close(c) ==
  /\ ~panicked
  /\ pc[c] = "idle"
  /\ CanLock
  /\ ~closed
  /\ stop' = TRUE
  /\ pc' = [pc EXCEPT ![c] = "close"]
  /\ UNCHANGED <<dbVars, outbox, opGauge, closed, panicked, routerVars, subVars>>

(* wg.Wait() returns.  The router adds itself to the group only once it    *)
(* runs, so a Close that comes before that does not wait for it.           *)
CloseReturn(c) ==
  /\ ~panicked
  /\ pc[c] = "close"
  /\ router \in {"new", "done"}
  /\ closed' = TRUE
  /\ pc' = [pc EXCEPT ![c] = "idle"]
  /\ UNCHANGED <<dbVars, outbox, opGauge, stop, panicked, routerVars, subVars>>

-----------------------------------------------------------------------------
(* startEventRouter. *)

RouterStart ==
  /\ ~panicked
  /\ router = "new"
  /\ router' = "select"
  /\ UNCHANGED <<dbVars, pc, outbox, opGauge, closed, stop, panicked,
                 current, todo, routerClosed, subVars>>

(* Mutant: subscribers that have not received their snapshot are skipped.  *)
RouterRangeInitialized ==
  /\ ~panicked
  /\ router = "range"
  /\ todo' = SelectSeq(subs, LAMBDA s : initial[s] = "done")
  /\ router' = "deliver"
  /\ UNCHANGED <<dbVars, pc, outbox, opGauge, closed, stop, panicked,
                 current, routerClosed, subVars>>

(* The range statement evaluates s.subscribers, without the lock, once the *)
(* event has been received: the sender may have returned by then and       *)
(* another subscriber may have been added.                                 *)
RouterRange ==
  /\ ~panicked
  /\ router = "range"
  /\ todo' = subs
  /\ router' = "deliver"
  /\ UNCHANGED <<dbVars, pc, outbox, opGauge, closed, stop, panicked,
                 current, routerClosed, subVars>>

HasRoom(s) == Len(sent[s]) - nread[s] < ChanCap

(* One iteration; it blocks while a matching subscriber's channel is full. *)
RouterDeliver ==
  /\ ~panicked
  /\ router = "deliver"
  /\ todo # <<>>
  /\ LET s == Head(todo)
     IN  IF Match(Filter[s], log[current].td)
         THEN /\ HasRoom(s)
              /\ sent' = [sent EXCEPT ![s] = Append(@, [kind |-> "event", id |-> current])]
         ELSE sent' = sent
  /\ todo' = Tail(todo)
  /\ UNCHANGED <<dbVars, pc, outbox, opGauge, closed, stop, panicked,
                 router, current, routerClosed, subs, initial, snapshot, nread, chClosed>>

(* Mutant: the router returns after one event.                             *)
RouterReturns ==
  /\ ~panicked
  /\ router = "deliver"
  /\ todo = <<>>
  /\ router' = "done"
  /\ UNCHANGED <<dbVars, pc, outbox, opGauge, closed, stop, panicked,
                 current, todo, routerClosed, subVars>>

RouterLoop ==
  /\ ~panicked
  /\ router = "deliver"
  /\ todo = <<>>
  /\ router' = "select"
  /\ UNCHANGED <<dbVars, pc, outbox, opGauge, closed, stop, panicked,
                 current, todo, routerClosed, subVars>>

RouterSeesStop ==
  /\ ~panicked
  /\ router = "select"
  /\ stop
  /\ router' = "stopping"
  /\ UNCHANGED <<dbVars, pc, outbox, opGauge, closed, stop, panicked,
                 current, todo, routerClosed, subVars>>

(* The spin on opGauge ends and the event channel is closed. *)
RouterCloseChannel ==
  /\ ~panicked
  /\ router = "stopping"
  /\ opGauge = 0
  /\ routerClosed' = TRUE
  /\ todo' = subs
  /\ router' = "closing"
  /\ UNCHANGED <<dbVars, pc, outbox, opGauge, closed, stop, panicked, current, subVars>>

RouterCloseSubscriber ==
  /\ ~panicked
  /\ router = "closing"
  /\ todo # <<>>
  /\ chClosed' = [chClosed EXCEPT ![Head(todo)] = TRUE]
  /\ todo' = Tail(todo)
  /\ UNCHANGED <<dbVars, pc, outbox, opGauge, closed, stop, panicked,
                 router, current, routerClosed, subs, initial, snapshot, sent, nread>>

RouterDone ==
  /\ ~panicked
  /\ router = "closing"
  /\ todo = <<>>
  /\ router' = "done"
  /\ UNCHANGED <<dbVars, pc, outbox, opGauge, closed, stop, panicked,
                 current, todo, routerClosed, subVars>>

-----------------------------------------------------------------------------
(* Subscribers. *)

(* The append reallocates its array when the slice is full; capacities are *)
(* the powers of two.                                                      *)
AppendGrows == Len(subs) = 0 \/ \E k \in 0..Len(subs) : Len(subs) = 2^k

(* On a closed store Subscribe returns a closed channel.  The router reads *)
(* the slice header without the lock: a read that overlaps an append that  *)
(* reallocates may pair the old array with the new length, and crash.      *)
Subscribe(s) ==
  /\ ~panicked
  /\ initial[s] = "none"
  /\ CanLock
  /\ IF closed
     THEN /\ chClosed' = [chClosed EXCEPT ![s] = TRUE]
          /\ initial' = [initial EXCEPT ![s] = "done"]
          /\ UNCHANGED <<subs, panicked>>
     ELSE /\ subs' = Append(subs, s)
          /\ initial' = [initial EXCEPT ![s] = "read"]
          /\ panicked' \in (IF router = "range" /\ AppendGrows THEN BOOLEAN ELSE {FALSE})
          /\ chClosed' = chClosed
  /\ UNCHANGED <<dbVars, pc, outbox, opGauge, closed, stop,
                 routerVars, snapshot, sent, nread>>

(* What sendInitialObjects reads: the matching objects of one database     *)
(* snapshot, nothing once the database has been closed.                    *)
InitialObjects(s) ==
  [at   |-> Len(log),
   rsrc |-> [r \in Refs |-> IF Match(Filter[s], RsrcType(r)) THEN db.rsrc[r] ELSE None],
   rel  |-> {x \in db.rel : Match(Filter[s], RelTypeOf[x])}]

IsEmptySnapshot(o) == o.rel = {} /\ \A r \in Refs : o.rsrc[r] = None

ReadInitialObjects(s) ==
  /\ ~panicked
  /\ initial[s] = "read"
  /\ LET objs == IF closed THEN NoSnapshot ELSE InitialObjects(s)
     IN  /\ snapshot' = [snapshot EXCEPT ![s] = objs]
         /\ initial' = [initial EXCEPT ![s] = IF IsEmptySnapshot(objs) THEN "done" ELSE "send"]
  /\ UNCHANGED <<dbVars, pc, outbox, opGauge, closed, stop, panicked,
                 routerVars, subs, sent, nread, chClosed>>

(* The goroutine is not in the store's wait group: it may find the channel *)
(* closed, and a send on a closed channel panics.                          *)
SendInitialObjects(s) ==
  /\ ~panicked
  /\ initial[s] = "send"
  /\ IF chClosed[s]
     THEN /\ panicked' = TRUE
          /\ UNCHANGED <<sent, initial>>
     ELSE /\ HasRoom(s)
          /\ sent' = [sent EXCEPT ![s] = Append(@, [kind |-> "snapshot"])]
          /\ initial' = [initial EXCEPT ![s] = "done"]
          /\ panicked' = panicked
  /\ UNCHANGED <<dbVars, pc, outbox, opGauge, closed, stop,
                 routerVars, subs, snapshot, nread, chClosed>>

Receive(s) ==
  /\ ~panicked
  /\ nread[s] < Len(sent[s])
  /\ nread' = [nread EXCEPT ![s] = @ + 1]
  /\ UNCHANGED <<dbVars, pc, outbox, opGauge, closed, stop, panicked,
                 routerVars, subs, initial, snapshot, sent, chClosed>>

-----------------------------------------------------------------------------

ClientNext(c) ==
  \/ \E r \in Refs : AddResource(c, r) \/ UpdateResource(c, r) \/ DeleteResource(c, r)
  \/ \E b \in Batches : AddRelationships(c, b)
  \/ Get(c)
  \/ SendEvent(c)
  \/ Return(c)
  \/ Close(c)
  \/ CloseReturn(c)

RouterNext ==
  \/ RouterStart
  \/ RouterRange
  \/ RouterDeliver
  \/ RouterLoop
  \/ RouterSeesStop
  \/ RouterCloseChannel
  \/ RouterCloseSubscriber
  \/ RouterDone

SubNext(s) ==
  \/ Subscribe(s)
  \/ ReadInitialObjects(s)
  \/ SendInitialObjects(s)
  \/ Receive(s)

Next ==
  \/ \E c \in Clients : ClientNext(c)
  \/ RouterNext
  \/ \E s \in Subs : SubNext(s)

Spec == Init /\ [][Next]_vars

-----------------------------------------------------------------------------
(* Types. *)

Positions == 1..Len(log)

EventRecord ==
  [op  : {"ADD", "UPDATE", "DELETE"},
   td  : {RsrcType(r) : r \in Refs} \cup {RelTypeOf[x] : x \in Rels}
           \cup {[kind |-> DeletedKind, type |-> TypeOf[r]] : r \in Refs},
   obj : Refs \cup Rels]

Message == [kind : {"event"}, id : Positions] \cup [kind : {"snapshot"}]

Snapshot == [at : Nat, rsrc : [Refs -> Resource \cup {None}], rel : SUBSET Rels]

(* Every variable has a value of its type. *)
TypeOK ==
  /\ db \in DB
  /\ log \in Seq(EventRecord)
  /\ pc \in [Clients -> {"idle", "send", "read", "close"}]
  /\ outbox \in [Clients -> Seq(Positions)]
  /\ opGauge \in Nat
  /\ closed \in BOOLEAN /\ stop \in BOOLEAN /\ routerClosed \in BOOLEAN /\ panicked \in BOOLEAN
  /\ router \in {"new", "select", "range", "deliver", "stopping", "closing", "done"}
  /\ current \in 0..Len(log)
  /\ todo \in Seq(Subs)
  /\ subs \in Seq(Subs)
  /\ initial \in [Subs -> {"none", "read", "send", "done"}]
  /\ snapshot \in [Subs -> Snapshot]
  /\ sent \in [Subs -> Seq(Message)]
  /\ nread \in [Subs -> Nat]
  /\ chClosed \in [Subs -> BOOLEAN]

-----------------------------------------------------------------------------
(* Safety. *)

IsEvent(m) == m.kind = "event"

(* Every subscriber is sent the events of the store in the order in which  *)
(* their transactions committed, each at most once: nothing numbers them   *)
(* on their way, and it is only the lock, which a writer holds until it    *)
(* has handed over its last event, that keeps two writers from handing     *)
(* over theirs in another order than they committed.                       *)
EventsInCommitOrder ==
  \A s \in Subs : \A i, j \in DOMAIN sent[s] :
    i < j /\ IsEvent(sent[s][i]) /\ IsEvent(sent[s][j]) => sent[s][i].id < sent[s][j].id

HandedOverLater(n) == \E c \in Clients : n \in Range(outbox[c])

InFlight(n, s) ==
  \/ HandedOverLater(n)
  \/ current = n /\ router = "range"
  \/ current = n /\ router = "deliver" /\ s \in Range(todo)

WasSent(n, s) == \E i \in DOMAIN sent[s] : IsEvent(sent[s][i]) /\ sent[s][i].id = n

(* No change is lost between a subscriber's snapshot and its events: what  *)
(* the snapshot of sendInitialObjects does not show has been sent, or is   *)
(* on its way, although the router reads the list of subscribers and the   *)
(* goroutine reads the database without the lock.                          *)
NoLostChange ==
  \A s \in Range(subs) : ~closed /\ initial[s] # "read" =>
    \A n \in Positions : Match(Filter[s], log[n].td) =>
      n <= snapshot[s].at \/ WasSent(n, s) \/ InFlight(n, s)

(* The version of a resource that a subscriber believes in after applying  *)
(* what it was sent in order: the last message that mentions it decides.   *)
Mentions(s, i, r) ==
  IF IsEvent(sent[s][i]) THEN log[sent[s][i].id].obj = r ELSE snapshot[s].rsrc[r] # None

View(s, r) ==
  LET mentions == {i \in DOMAIN sent[s] : Mentions(s, i, r)}
      last     == sent[s][Max(mentions)]
  IN  CASE mentions = {}    -> None
        [] mentions # {} /\ ~IsEvent(last) -> snapshot[s].rsrc[r].updated
        [] mentions # {} /\ IsEvent(last)  -> IF log[last.id].op = "DELETE" THEN None ELSE last.id

Version(r) == IF db.rsrc[r] = None THEN None ELSE db.rsrc[r].updated

(* The snapshot reached the channel after an event newer than itself. *)
Overtaken(s) ==
  \E i, j \in DOMAIN sent[s] : /\ i < j
                              /\ IsEvent(sent[s][i]) /\ sent[s][i].id > snapshot[s].at
                              /\ ~IsEvent(sent[s][j])

(* Once nothing is on its way to a subscriber, what it was sent adds up to *)
(* the matching resources of the database, unless its snapshot was         *)
(* overtaken by a newer event on the way to the channel.                   *)
ViewConverges ==
  \A s \in Range(subs) :
    /\ ~closed
    /\ initial[s] = "done"
    /\ ~Overtaken(s)
    /\ \A n \in Positions : ~InFlight(n, s)
    => \A r \in Refs : Match(Filter[s], RsrcType(r)) => View(s, r) = Version(r)

-----------------------------------------------------------------------------
(* Liveness. *)

(* The scheduler runs every goroutine that can run, and a subscriber       *)
(* receives until its channel is closed (the intake worker ranges over     *)
(* it).  Nothing makes clients call the store.                             *)
Fairness ==
  /\ WF_vars(RouterNext)
  /\ \A c \in Clients : WF_vars(SendEvent(c) \/ Return(c) \/ CloseReturn(c))
  /\ \A s \in Subs : WF_vars(ReadInitialObjects(s) \/ SendInitialObjects(s))
  /\ \A s \in Subs : WF_vars(Receive(s))

FairSpec == Spec /\ Fairness

AllChannelsClosed == \A s \in Range(subs) : chClosed[s]

(* A Close that has begun returns with every subscriber's channel closed,  *)
(* unless the process panics first.                                        *)
CloseCompletes == stop ~> (closed /\ AllChannelsClosed) \/ panicked

(* Every event a writer commits reaches the router, so that the writer     *)
(* returns and the lock is released.                                       *)
WritersReturn == \A c \in Clients : pc[c] = "send" ~> pc[c] # "send" \/ panicked

=============================================================================
