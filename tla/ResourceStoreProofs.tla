------------------------ MODULE ResourceStoreProofs ------------------------
(***************************************************************************)
(* Proofs about the concurrent store, for any number of clients and        *)
(* subscribers, all filters, all capacities of channels and any number of  *)
(* events.                                                                 *)
(***************************************************************************)
EXTENDS ResourceStore, TLAPS

Messages == [kind : {"event"}, id : Nat] \cup [kind : {"snapshot"}]

(* A database has a resource, or none, for every reference. *)
HasResources(d) == "rsrc" \in DOMAIN d /\ d.rsrc \in [Refs -> Resource \cup {None}]

(* What the arguments need of types. *)
HistoryTypeOK ==
  /\ HasResources(db) /\ log \in Seq(EventRecord)
  /\ pc \in [Clients -> {"idle", "send", "read", "close"}]
  /\ outbox \in [Clients -> Seq(Nat)] /\ current \in Nat /\ todo \in Seq(Subs) /\ subs \in Seq(Subs)
  /\ initial \in [Subs -> {"none", "read", "send", "done"}]
  /\ DOMAIN snapshot = Subs
  /\ sent \in [Subs -> Seq(Messages)]

(* Events are handed over under the lock, which one writer holds. *)
OutboxLocked ==
  /\ \A c \in Clients : outbox[c] # <<>> => pc[c] = "send"
  /\ \A b, c \in Clients : pc[b] = "send" /\ pc[c] = "send" => b = c

StoreInv == HistoryTypeOK /\ OutboxLocked /\ Len(log) <= MaxEvents

-----------------------------------------------------------------------------
(* What the transactions do to resources. *)

(* AddResource and UpdateResource store a resource with the given time. *)
LEMMA ResourceTxn ==
  ASSUME NEW d, HasResources(d), NEW r \in Refs, NEW now \in Nat, NEW t,
         t = AddResourceTxn(d, r, now) \/ t = UpdateResourceTxn(d, r, now)
  PROVE  HasResources(t) /\ \E v \in Resource : v.updated = now /\ t.rsrc = [d.rsrc EXCEPT ![r] = v]
<1>1. ASSUME NEW v \in Resource, t = [d EXCEPT !.rsrc[r] = v]
      PROVE  HasResources(t) /\ t.rsrc = [d.rsrc EXCEPT ![r] = v]
  BY <1>1, Zenon DEF HasResources
<1>2. /\ [created |-> now, updated |-> now] \in Resource
      /\ [created |-> now, updated |-> now].updated = now
  BY Zenon DEF Resource
<1>3. /\ [created |-> IF d.rsrc[r] = None THEN now ELSE d.rsrc[r].created, updated |-> now] \in Resource
      /\ [created |-> IF d.rsrc[r] = None THEN now ELSE d.rsrc[r].created, updated |-> now].updated = now
  <2>1. d.rsrc[r] = None \/ d.rsrc[r] \in Resource
    BY Zenon DEF HasResources
  <2>2. QED
    BY <2>1, Zenon DEF Resource
<1>4. QED
  BY <1>1, <1>2, <1>3, Zenon DEF AddResourceTxn, UpdateResourceTxn

(* DeleteResource removes one. *)
LEMMA DeleteTxn ==
  ASSUME NEW d, HasResources(d), NEW r \in Refs
  PROVE  /\ HasResources(DeleteResourceTxn(d, r))
         /\ DeleteResourceTxn(d, r).rsrc = [d.rsrc EXCEPT ![r] = None]
BY Zenon DEF HasResources, DeleteResourceTxn

(* AddRelationships leaves the resources alone. *)
LEMMA RelationshipTxn ==
  ASSUME NEW d, HasResources(d), NEW b
  PROVE  HasResources(AddRelationshipsTxn(d, b)) /\ AddRelationshipsTxn(d, b).rsrc = d.rsrc
BY Zenon DEF HasResources, AddRelationshipsTxn

-----------------------------------------------------------------------------
(* The invariant of the store. *)

(* The new store is empty. *)
LEMMA InitStoreInv == Init => StoreInv
<1> SUFFICES ASSUME Init PROVE StoreInv
  BY Zenon
<1>1. /\ log = <<>> /\ outbox = [c \in Clients |-> <<>>] /\ pc = [c \in Clients |-> "idle"]
      /\ Len(log) = 0
  BY Zenon DEF Init
<1>2. HasResources(db)
  BY Zenon DEF Init, EmptyDB, HasResources
<1>3. HistoryTypeOK
  BY <1>2 DEF Init, HistoryTypeOK
<1>4. OutboxLocked
  BY <1>1, Zenon DEF OutboxLocked
<1>5. QED
  BY <1>1, <1>3, <1>4, StoreAssumption DEF StoreInv

(* A commit puts its events into the log and into the outbox, under the    *)
(* lock.                                                                   *)
LEMMA CommitKeeps ==
  ASSUME StoreInv, NEW c \in Clients, NEW d, HasResources(d), NEW events \in Seq(EventRecord),
         Commit(c, d, events)
  PROVE  StoreInv'
<1> USE DEF StoreInv
<1>1. /\ db' = d /\ log' = log \o events /\ Len(log) + Len(events) <= MaxEvents
      /\ outbox' = [outbox EXCEPT ![c] = [i \in 1..Len(events) |-> Len(log) + i]]
      /\ pc' = [pc EXCEPT ![c] = "send"] /\ CanLock
      /\ UNCHANGED <<current, todo, subs, initial, snapshot, sent>>
  BY Zenon DEF Commit, routerVars, subVars
<1>2. log \in Seq(EventRecord) /\ Len(log) \in Nat /\ Len(events) \in Nat
  BY DEF HistoryTypeOK
<1>3. log' \in Seq(EventRecord) /\ Len(log') = Len(log) + Len(events)
  BY <1>1, <1>2
<1>4. outbox' \in [Clients -> Seq(Nat)]
  <2>1. [i \in 1..Len(events) |-> Len(log) + i] \in Seq(Nat)
    BY <1>2
  <2>2. QED
    BY <1>1, <2>1, Zenon DEF HistoryTypeOK
<1>5. HistoryTypeOK'
  BY <1>1, <1>3, <1>4, Zenon DEF HistoryTypeOK, HasResources
<1>6. OutboxLocked'
  <2>1. \A b \in Clients : pc[b] = "idle" /\ outbox[b] = <<>>
    BY <1>1, Zenon DEF OutboxLocked, CanLock
  <2>2. \A b \in Clients : b # c => pc'[b] = "idle" /\ outbox'[b] = <<>>
    BY <1>1, <2>1, Zenon DEF HistoryTypeOK
  <2>3. pc'[c] = "send"
    BY <1>1, Zenon DEF HistoryTypeOK
  <2>4. QED
    BY <2>2, <2>3, Zenon DEF OutboxLocked
<1>7. QED
  BY <1>1, <1>3, <1>5, <1>6, Zenon

(* The events of the operations are events. *)
LEMMA EventTypes ==
  /\ \A r \in Refs : /\ Event("ADD", RsrcType(r), r) \in EventRecord
                     /\ Event("UPDATE", RsrcType(r), r) \in EventRecord
                     /\ Event("DELETE", [kind |-> DeletedKind, type |-> TypeOf[r]], r) \in EventRecord
  /\ \A x \in Rels : Event("ADD", RelTypeOf[x], x) \in EventRecord
BY Zenon DEF Event, EventRecord

(* The writing operations keep the invariant. *)
LEMMA WriteKeeps ==
  ASSUME StoreInv, NEW c \in Clients,
         \/ \E r \in Refs : AddResource(c, r) \/ UpdateResource(c, r) \/ DeleteResource(c, r)
         \/ \E b \in Batches : AddRelationships(c, b)
  PROVE  StoreInv'
<1> USE DEF StoreInv
<1>1. HasResources(db) /\ Now \in Nat
  BY DEF HistoryTypeOK, Now
<1>2. ASSUME NEW r \in Refs, AddResource(c, r) \/ UpdateResource(c, r) \/ DeleteResource(c, r)
      PROVE  StoreInv'
  <2>1. ASSUME NEW d, HasResources(d), NEW e \in EventRecord, Commit(c, d, <<e>>)
        PROVE  StoreInv'
    <3>1. <<e>> \in Seq(EventRecord)
      OBVIOUS
    <3>2. QED
      BY <2>1, <3>1, CommitKeeps, Zenon
  <2>2. CASE AddResource(c, r)
    BY <1>1, <2>1, <2>2, EventTypes, ResourceTxn, Zenon DEF AddResource
  <2>3. CASE UpdateResource(c, r)
    BY <1>1, <2>1, <2>3, EventTypes, ResourceTxn, Zenon DEF UpdateResource
  <2>4. CASE DeleteResource(c, r)
    BY <1>1, <2>1, <2>4, EventTypes, DeleteTxn, Zenon DEF DeleteResource
  <2>5. QED
    BY <1>2, <2>2, <2>3, <2>4, Zenon
<1>3. ASSUME NEW b \in Batches, AddRelationships(c, b)
      PROVE  StoreInv'
  <2> DEFINE events == [i \in DOMAIN b |-> Event("ADD", RelTypeOf[b[i]], b[i])]
  <2>1. b \in Seq(Rels)
    BY StoreAssumption, Zenon
  <2>2. events \in Seq(EventRecord)
    BY <2>1, EventTypes
  <2>3. HasResources(AddRelationshipsTxn(db, b))
    BY <1>1, RelationshipTxn, Zenon
  <2>4. Commit(c, AddRelationshipsTxn(db, b), events)
    BY <1>3, Zenon DEF AddRelationships
  <2> HIDE DEF events
  <2>5. QED
    BY <2>2, <2>3, <2>4, CommitKeeps, Zenon
<1>4. QED
  BY <1>2, <1>3, Zenon

(* A message more on one channel. *)
LEMMA AppendSent ==
  ASSUME NEW f \in [Subs -> Seq(Messages)], NEW s \in Subs, NEW m \in Messages
  PROVE  [f EXCEPT ![s] = Append(@, m)] \in [Subs -> Seq(Messages)]
<1>1. Append(f[s], m) \in Seq(Messages)
  OBVIOUS
<1>2. QED
  BY <1>1, Zenon

(* What is left of the range loop. *)
LEMMA TailSubs == ASSUME NEW t \in Seq(Subs), t # <<>> PROVE Tail(t) \in Seq(Subs)
OBVIOUS

(* One more subscriber. *)
LEMMA AppendSubs == ASSUME NEW t \in Seq(Subs), NEW s \in Subs PROVE Append(t, s) \in Seq(Subs)
OBVIOUS

(* Every step keeps the invariant. *)
LEMMA NextStoreInv == StoreInv /\ [Next]_vars => StoreInv'
<1> SUFFICES ASSUME StoreInv, [Next]_vars PROVE StoreInv'
  BY Zenon
<1> USE DEF StoreInv
<1>0. /\ todo \in Seq(Subs) /\ subs \in Seq(Subs) /\ sent \in [Subs -> Seq(Messages)]
      /\ DOMAIN snapshot = Subs
  BY Zenon DEF HistoryTypeOK
<1>1. CASE UNCHANGED <<db, log>> /\ HistoryTypeOK' /\ OutboxLocked'
  BY <1>1, Zenon
<1>2. ASSUME NEW c \in Clients, ClientNext(c)
      PROVE  StoreInv'
  <2>1. CASE \/ \E r \in Refs : AddResource(c, r) \/ UpdateResource(c, r) \/ DeleteResource(c, r)
             \/ \E b \in Batches : AddRelationships(c, b)
    BY <2>1, WriteKeeps, Zenon
  <2>2. CASE Get(c) \/ Return(c) \/ Close(c) \/ CloseReturn(c)
    <3>1. /\ UNCHANGED <<db, log, outbox, current, todo, subs, initial, snapshot, sent>>
          /\ \E q \in {"idle", "read", "close"} : pc' = [pc EXCEPT ![c] = q]
          /\ pc[c] = "send" => outbox[c] = <<>>
      BY <2>2, Zenon DEF Get, Return, Close, CloseReturn, dbVars, routerVars, subVars
    <3>2. HistoryTypeOK'
      BY <3>1, Zenon DEF HistoryTypeOK, HasResources
    <3>3. OutboxLocked'
      <4>1. \A b \in Clients : pc'[b] = "send" => pc[b] = "send"
        BY <3>1, Zenon DEF HistoryTypeOK
      <4>2. \A b \in Clients : outbox[b] # <<>> => b # c /\ pc'[b] = pc[b]
        BY <3>1, Zenon DEF OutboxLocked, HistoryTypeOK
      <4>3. QED
        BY <3>1, <4>1, <4>2, Zenon DEF OutboxLocked
    <3>4. QED
      BY <1>1, <3>1, <3>2, <3>3, Zenon
  <2>3. CASE SendEvent(c)
    <3>1. /\ UNCHANGED <<db, log, pc, todo, subs, initial, snapshot, sent>> /\ pc[c] = "send"
          /\ outbox[c] # <<>> /\ current' = Head(outbox[c])
          /\ outbox' = [outbox EXCEPT ![c] = Tail(outbox[c])]
      BY <2>3, Zenon DEF SendEvent, dbVars, subVars
    <3>2. HistoryTypeOK'
      <4>1. outbox[c] \in Seq(Nat)
        BY Zenon DEF HistoryTypeOK
      <4>2. current' \in Nat /\ Tail(outbox[c]) \in Seq(Nat)
        BY <3>1, <4>1
      <4>3. QED
        BY <3>1, <4>2, Zenon DEF HistoryTypeOK, HasResources
    <3>3. OutboxLocked'
      BY <3>1, Zenon DEF OutboxLocked, HistoryTypeOK
    <3>4. QED
      BY <1>1, <3>1, <3>2, <3>3, Zenon
  <2>4. QED
    BY <1>2, <2>1, <2>2, <2>3, Zenon DEF ClientNext
<1>3. CASE RouterNext
  <2>1. UNCHANGED <<db, log, pc, outbox, current, subs, initial, snapshot>>
    BY <1>3, Zenon DEF RouterNext, RouterStart, RouterRange, RouterDeliver, RouterLoop, RouterSeesStop,
                RouterCloseChannel, RouterCloseSubscriber, RouterDone, dbVars, subVars
  <2>2. todo' \in Seq(Subs)
    <3>1. todo' = todo \/ todo' = subs \/ (todo # <<>> /\ todo' = Tail(todo))
      BY <1>3, Zenon DEF RouterNext, RouterStart, RouterRange, RouterDeliver, RouterLoop, RouterSeesStop,
                  RouterCloseChannel, RouterCloseSubscriber, RouterDone
    <3>2. QED
      BY <1>0, <3>1, TailSubs, Zenon
  <2>3. sent' \in [Subs -> Seq(Messages)]
    <3>1. CASE UNCHANGED sent
      BY <3>1, Zenon DEF HistoryTypeOK
    <3>2. CASE RouterDeliver
      <4>1. Head(todo) \in Subs
        BY <3>2 DEF RouterDeliver, HistoryTypeOK
      <4>2. [kind |-> "event", id |-> current] \in Messages
        BY Zenon DEF HistoryTypeOK, Messages
      <4>3. UNCHANGED sent \/ sent' = [sent EXCEPT ![Head(todo)] = Append(@, [kind |-> "event", id |-> current])]
        BY <3>2, Zenon DEF RouterDeliver
      <4>4. PICK m : m = [kind |-> "event", id |-> current]
        BY Zenon
      <4>5. [sent EXCEPT ![Head(todo)] = Append(@, m)] \in [Subs -> Seq(Messages)]
        BY <1>0, <4>1, <4>2, <4>4, AppendSent, Zenon
      <4>6. QED
        BY <1>0, <4>3, <4>4, <4>5, Zenon
    <3>3. QED
      BY <1>3, <3>1, <3>2, Zenon
         DEF RouterNext, RouterStart, RouterRange, RouterLoop, RouterSeesStop,
             RouterCloseChannel, RouterCloseSubscriber, RouterDone, subVars
  <2>4. QED
    BY <1>1, <2>1, <2>2, <2>3, Zenon DEF HistoryTypeOK, HasResources, OutboxLocked
<1>4. ASSUME NEW s \in Subs, SubNext(s)
      PROVE  StoreInv'
  <2>1. UNCHANGED <<db, log, pc, outbox, current, todo>>
    BY <1>4, Zenon DEF SubNext, Subscribe, ReadInitialObjects, SendInitialObjects, Receive, dbVars, routerVars
  <2>2. subs' \in Seq(Subs) /\ DOMAIN snapshot' = Subs
    <3>1. subs' = subs \/ subs' = Append(subs, s)
      BY <1>4, Zenon DEF SubNext, Subscribe, ReadInitialObjects, SendInitialObjects, Receive
    <3>2. DOMAIN snapshot' = DOMAIN snapshot
      BY <1>4, Zenon DEF SubNext, Subscribe, ReadInitialObjects, SendInitialObjects, Receive
    <3>3. QED
      BY <1>0, <3>1, <3>2, AppendSubs, Zenon
  <2>3. initial' \in [Subs -> {"none", "read", "send", "done"}]
    BY <1>4, Zenon DEF SubNext, Subscribe, ReadInitialObjects, SendInitialObjects, Receive, HistoryTypeOK
  <2>4. sent' \in [Subs -> Seq(Messages)]
    <3>1. [kind |-> "snapshot"] \in Messages
      BY Zenon DEF Messages
    <3>2. UNCHANGED sent \/ sent' = [sent EXCEPT ![s] = Append(@, [kind |-> "snapshot"])]
      BY <1>4, Zenon DEF SubNext, Subscribe, ReadInitialObjects, SendInitialObjects, Receive
    <3>3. PICK m : m = [kind |-> "snapshot"]
      BY Zenon
    <3>4. [sent EXCEPT ![s] = Append(@, m)] \in [Subs -> Seq(Messages)]
      BY <1>0, <3>1, <3>3, AppendSent, Zenon
    <3>5. QED
      BY <1>0, <3>2, <3>3, <3>4, Zenon
  <2>5. QED
    BY <1>1, <2>1, <2>2, <2>3, <2>4, Zenon DEF HistoryTypeOK, HasResources, OutboxLocked
<1>5. CASE UNCHANGED vars
  BY <1>1, <1>5, Zenon DEF vars, routerVars, subVars, HistoryTypeOK, OutboxLocked
<1>6. QED
  BY <1>2, <1>3, <1>4, <1>5, Zenon DEF Next

-----------------------------------------------------------------------------
(* The invariant holds of every behaviour of the store. *)
LEMMA StoreInvariance == Spec => []StoreInv
BY InitStoreInv, NextStoreInv, PTL DEF Spec

-----------------------------------------------------------------------------
(* The events that wait. *)

(* What the one writer that still has events to hand over has left. *)
Rest(o) ==
  IF \E c \in Clients : o[c] # <<>> THEN o[CHOOSE c \in Clients : o[c] # <<>>] ELSE <<>>

Outbox == Rest(outbox)

(* It is the outbox of the writer under the lock. *)
LEMMA RestOf ==
  ASSUME NEW o, NEW c \in Clients, \A b \in Clients : o[b] # <<>> => b = c
  PROVE  Rest(o) = o[c]
<1>1. CASE o[c] = <<>>
  BY <1>1, Zenon DEF Rest
<1>2. CASE o[c] # <<>>
  <2>1. \E b \in Clients : o[b] # <<>>
    BY <1>2, Zenon
  <2>2. (CHOOSE b \in Clients : o[b] # <<>>) = c
    BY <2>1, Zenon
  <2>3. QED
    BY <2>1, <2>2, Zenon DEF Rest
<1>3. QED
  BY <1>1, <1>2, Zenon

(* Outside the lock it is empty. *)
LEMMA RestNone ==
  ASSUME NEW o, \A c \in Clients : o[c] = <<>>
  PROVE  Rest(o) = <<>>
BY Zenon DEF Rest

(* An event waits when it is in the outbox. *)
LEMMA WaitsInOutbox == StoreInv => Outbox \in Seq(Nat) /\ \A n : HandedOverLater(n) <=> n \in Range(Outbox)
<1> SUFFICES ASSUME StoreInv
             PROVE  Outbox \in Seq(Nat) /\ \A n : HandedOverLater(n) <=> n \in Range(Outbox)
  BY Zenon
<1>1. Range(<<>>) = {} /\ <<>> \in Seq(Nat)
  BY DEF Range
<1>2. outbox \in [Clients -> Seq(Nat)]
  BY Zenon DEF StoreInv, HistoryTypeOK
<1>3. CASE \A c \in Clients : outbox[c] = <<>>
  BY <1>1, <1>3, RestNone, Zenon DEF Outbox, HandedOverLater
<1>4. ASSUME NEW c \in Clients, outbox[c] # <<>>
      PROVE  Outbox \in Seq(Nat) /\ \A n : HandedOverLater(n) <=> n \in Range(Outbox)
  <2>1. \A b \in Clients : outbox[b] # <<>> => b = c
    BY <1>4, Zenon DEF StoreInv, OutboxLocked
  <2>2. Outbox = outbox[c]
    BY <2>1, RestOf, Zenon DEF Outbox
  <2>3. \A n : \A b \in Clients : n \in Range(outbox[b]) => n \in Range(outbox[c])
    BY <1>1, <2>1, Zenon
  <2>4. QED
    BY <1>2, <2>2, <2>3, Zenon DEF HandedOverLater
<1>5. QED
  BY <1>3, <1>4, Zenon

(* A writer hands over the first event that waits. *)
LEMMA SendEffect ==
  ASSUME StoreInv, NEW c \in Clients, SendEvent(c)
  PROVE  /\ Outbox # <<>> /\ current' = Head(Outbox) /\ Outbox' = Tail(Outbox) /\ Outbox' = outbox'[c]
         /\ router = "select" /\ router' = "range" /\ UNCHANGED log
<1>1. /\ outbox[c] # <<>> /\ current' = Head(outbox[c]) /\ outbox' = [outbox EXCEPT ![c] = Tail(outbox[c])]
      /\ router = "select" /\ router' = "range" /\ UNCHANGED log /\ DOMAIN outbox = Clients
  BY Zenon DEF SendEvent, dbVars, StoreInv, HistoryTypeOK
<1>2. \A b \in Clients : outbox[b] # <<>> => b = c
  BY <1>1, Zenon DEF StoreInv, OutboxLocked
<1>3. \A b \in Clients : outbox'[b] # <<>> => b = c
  BY <1>1, <1>2, Zenon
<1>4. Outbox = outbox[c] /\ Outbox' = outbox'[c]
  BY <1>2, <1>3, RestOf, Zenon DEF Outbox
<1>5. QED
  BY <1>1, <1>4, Zenon

-----------------------------------------------------------------------------
(* The steps, by what they do to events and subscribers. *)

Writes(c) ==
  \/ \E r \in Refs : AddResource(c, r) \/ UpdateResource(c, r) \/ DeleteResource(c, r)
  \/ \E b \in Batches : AddRelationships(c, b)

(* The router moves on, with nothing left to deliver. *)
RouterMoves ==
  /\ router # "range" /\ (router = "deliver" => todo = <<>>)
  /\ router' \notin {"range", "deliver"}
  /\ todo' = todo \/ todo' = subs \/ (todo # <<>> /\ todo' = Tail(todo))
  /\ UNCHANGED <<db, log, outbox, current, subs, initial, snapshot, sent, closed>>

(* Nothing happens to events and subscribers. *)
Idle ==
  /\ UNCHANGED <<db, log, outbox, current, router, todo, subs, initial, snapshot, sent>>
  /\ closed => closed'

Step ==
  \/ \E c \in Clients : Writes(c)
  \/ \E c \in Clients : SendEvent(c)
  \/ RouterRange
  \/ RouterDeliver
  \/ RouterMoves
  \/ \E t \in Subs : Subscribe(t)
  \/ \E t \in Subs : ReadInitialObjects(t)
  \/ \E t \in Subs : SendInitialObjects(t)
  \/ Idle

(* Every step is one of these. *)
LEMMA NextStep == ASSUME [Next]_vars PROVE Step
<1>1. ASSUME NEW c \in Clients, Get(c) \/ Return(c) \/ Close(c) \/ CloseReturn(c) PROVE Idle
  BY <1>1, SMT DEF Get, Return, Close, CloseReturn, Idle, dbVars, routerVars, subVars
<1>2. ASSUME NEW t \in Subs, Receive(t) PROVE Idle
  BY <1>2, Zenon DEF Receive, Idle, dbVars, routerVars
<1>3. ASSUME UNCHANGED vars PROVE Idle
  BY <1>3, Zenon DEF vars, Idle, routerVars, subVars
<1>4. ASSUME \/ RouterStart \/ RouterLoop \/ RouterSeesStop
             \/ RouterCloseChannel \/ RouterCloseSubscriber \/ RouterDone
      PROVE  RouterMoves
  <2>1. CASE RouterStart \/ RouterSeesStop
    BY <2>1, Zenon DEF RouterStart, RouterSeesStop, RouterMoves, dbVars, subVars
  <2>2. CASE RouterLoop \/ RouterDone
    BY <2>2, Zenon DEF RouterLoop, RouterDone, RouterMoves, dbVars, subVars
  <2>3. CASE RouterCloseChannel
    BY <2>3, Zenon DEF RouterCloseChannel, RouterMoves, dbVars, subVars
  <2>4. CASE RouterCloseSubscriber
    BY <2>4, Zenon DEF RouterCloseSubscriber, RouterMoves, dbVars
  <2>5. QED
    BY <1>4, <2>1, <2>2, <2>3, <2>4, Zenon
<1>5. CASE \E c \in Clients : ClientNext(c)
  BY <1>1, <1>5, Zenon DEF ClientNext, Writes, Step
<1>6. CASE RouterNext
  BY <1>4, <1>6, Zenon DEF RouterNext, Step
<1>7. CASE \E t \in Subs : SubNext(t)
  BY <1>2, <1>7, Zenon DEF SubNext, Step
<1>8. CASE UNCHANGED vars
  BY <1>3, <1>8, Zenon DEF Step
<1>9. QED
  BY <1>5, <1>6, <1>7, <1>8, Zenon DEF Next

(* A write commits its events. *)
LEMMA WriteCommits ==
  ASSUME NEW c \in Clients, Writes(c)
  PROVE  \E d, events : events \in Seq(EventRecord) /\ Commit(c, d, events)
<1>1. \A e \in EventRecord : <<e>> \in Seq(EventRecord)
  OBVIOUS
<1>2. ASSUME NEW r \in Refs, AddResource(c, r) \/ UpdateResource(c, r) \/ DeleteResource(c, r)
      PROVE  \E d : \E e \in EventRecord : Commit(c, d, <<e>>)
  BY <1>2, EventTypes, Zenon DEF AddResource, UpdateResource, DeleteResource
<1>3. ASSUME NEW b \in Batches, AddRelationships(c, b)
      PROVE  \E d, events : events \in Seq(EventRecord) /\ Commit(c, d, events)
  <2> DEFINE events == [i \in DOMAIN b |-> Event("ADD", RelTypeOf[b[i]], b[i])]
  <2>1. b \in Seq(Rels)
    BY StoreAssumption, Zenon
  <2>2. events \in Seq(EventRecord)
    BY <2>1, EventTypes
  <2>3. Commit(c, AddRelationshipsTxn(db, b), events)
    BY <1>3, Zenon DEF AddRelationships
  <2> HIDE DEF events
  <2>4. QED
    BY <2>2, <2>3, Zenon
<1>4. QED
  BY <1>1, <1>2, <1>3, Zenon DEF Writes

(* What a commit does: it found nothing to hand over. *)
LEMMA CommitEffect ==
  ASSUME StoreInv, NEW c \in Clients, NEW d, NEW events \in Seq(EventRecord), Commit(c, d, events)
  PROVE  /\ log \in Seq(EventRecord) /\ Len(log) \in Nat /\ Len(events) \in Nat
         /\ log' = log \o events /\ Len(log') = Len(log) + Len(events)
         /\ Outbox = <<>> /\ Range(Outbox) = {}
         /\ Outbox' = [i \in 1..Len(events) |-> Len(log) + i] /\ Outbox' = outbox'[c]
         /\ db' = d
         /\ UNCHANGED <<closed, router, current, todo, subs, initial, snapshot, sent>>
<1>1. /\ log' = log \o events /\ CanLock /\ db' = d
      /\ outbox' = [outbox EXCEPT ![c] = [i \in 1..Len(events) |-> Len(log) + i]] /\ DOMAIN outbox = Clients
      /\ UNCHANGED <<closed, router, current, todo, subs, initial, snapshot, sent>>
  BY Zenon DEF Commit, routerVars, subVars, StoreInv, HistoryTypeOK
<1>2. /\ Outbox = <<>> /\ Outbox' = [i \in 1..Len(events) |-> Len(log) + i] /\ Outbox' = outbox'[c]
  <2>1. \A b \in Clients : outbox[b] = <<>>
    BY <1>1, Zenon DEF StoreInv, OutboxLocked, CanLock
  <2>2. \A b \in Clients : outbox'[b] # <<>> => b = c
    BY <1>1, <2>1, Zenon
  <2>3. Outbox' = outbox'[c]
    BY <2>2, RestOf, Zenon DEF Outbox
  <2>4. QED
    BY <1>1, <2>1, <2>3, RestNone, Zenon DEF Outbox
<1>3. log \in Seq(EventRecord)
  BY Zenon DEF StoreInv, HistoryTypeOK
<1>4. Len(log) \in Nat /\ Len(events) \in Nat /\ Len(log') = Len(log) + Len(events)
  BY <1>1, <1>3
<1>5. Range(Outbox) = {}
  BY <1>2 DEF Range
<1>6. QED
  BY <1>1, <1>2, <1>3, <1>4, <1>5, Zenon

-----------------------------------------------------------------------------
(* Lists of subscribers and of events. *)

(* A sequence's elements are its head and those of its tail. *)
LEMMA RangeTail ==
  ASSUME NEW T, NEW q \in Seq(T), q # <<>>
  PROVE  Range(q) = {Head(q)} \cup Range(Tail(q))
<1>1. Tail(q) \in Seq(T) /\ Len(Tail(q)) = Len(q) - 1 /\ Head(q) = q[1]
      /\ Len(q) \in Nat \ {0} /\ DOMAIN q = 1..Len(q) /\ DOMAIN Tail(q) = 1..(Len(q) - 1)
  OBVIOUS
<1>2. ASSUME NEW i \in 1..(Len(q) - 1) PROVE Tail(q)[i] = q[i + 1]
  BY <1>2
<1>3. ASSUME NEW i \in DOMAIN q PROVE q[i] \in {Head(q)} \cup Range(Tail(q))
  <2>1. CASE i = 1
    BY <1>1, <2>1, Zenon
  <2>2. CASE i # 1
    <3>1. i - 1 \in 1..(Len(q) - 1) /\ (i - 1) + 1 = i
      BY <1>1, <2>2
    <3>2. Tail(q)[i - 1] = q[i]
      BY <1>2, <3>1, Zenon
    <3>3. QED
      BY <1>1, <3>1, <3>2, Zenon DEF Range
  <2>3. QED
    BY <2>1, <2>2, Zenon
<1>4. ASSUME NEW i \in DOMAIN Tail(q) PROVE Tail(q)[i] \in Range(q)
  <2>1. i + 1 \in DOMAIN q
    BY <1>1
  <2>2. QED
    BY <1>1, <1>2, <2>1, Zenon DEF Range
<1>5. Head(q) \in Range(q)
  BY <1>1 DEF Range
<1>6. QED
  BY <1>3, <1>4, <1>5, Zenon DEF Range

(* Appending adds one element. *)
LEMMA RangeOfAppend ==
  ASSUME NEW T, NEW q \in Seq(T), NEW e \in T
  PROVE  Range(Append(q, e)) = Range(q) \cup {e}
<1>1. /\ DOMAIN Append(q, e) = 1..(Len(q) + 1) /\ DOMAIN q = 1..Len(q) /\ Len(q) \in Nat
      /\ Append(q, e)[Len(q) + 1] = e
      /\ \A i \in 1..Len(q) : Append(q, e)[i] = q[i]
  OBVIOUS
<1>2. QED
  BY <1>1 DEF Range

-----------------------------------------------------------------------------
(* What a subscriber has been sent. *)

(* Event n is among the messages q. *)
HasEvent(q, n) == \E i \in DOMAIN q : IsEvent(q[i]) /\ q[i].id = n

(* What the router sends. *)
LEMMA EventMessage ==
  ASSUME NEW n \in Nat
  PROVE  \E e \in Messages : e = [kind |-> "event", id |-> n] /\ IsEvent(e) /\ e.id = n
<1> DEFINE e == [kind |-> "event", id |-> n]
<1>1. e \in [kind : {"event"}, id : Nat] /\ e.kind = "event" /\ e.id = n
  BY Zenon
<1>2. QED
  BY <1>1, Zenon DEF Messages, IsEvent

(* What sendInitialObjects sends. *)
LEMMA SnapshotMessage == \E o \in Messages : o = [kind |-> "snapshot"] /\ ~IsEvent(o)
<1> DEFINE o == [kind |-> "snapshot"]
<1>1. o \in [kind : {"snapshot"}] /\ o.kind # "event"
  BY Zenon
<1>2. QED
  BY <1>1, Zenon DEF Messages, IsEvent

(* One more message adds at most one event. *)
LEMMA HasEventAppend ==
  ASSUME NEW q \in Seq(Messages), NEW m \in Messages, NEW n
  PROVE  HasEvent(Append(q, m), n) <=> HasEvent(q, n) \/ (IsEvent(m) /\ m.id = n)
<1>1. /\ DOMAIN q = 1..Len(q) /\ Len(q) \in Nat /\ DOMAIN Append(q, m) = 1..(Len(q) + 1)
      /\ Append(q, m)[Len(q) + 1] = m
      /\ \A i \in 1..Len(q) : Append(q, m)[i] = q[i]
  OBVIOUS
<1>2. \A i : i \in 1..(Len(q) + 1) <=> i \in 1..Len(q) \/ i = Len(q) + 1
  BY <1>1
<1>3. QED
  BY <1>1, <1>2, Zenon DEF HasEvent

(* A step sends a subscriber the event being routed, if it is its turn,    *)
(* its snapshot, or nothing.                                               *)
LEMMA StepSends ==
  ASSUME StoreInv, Step, NEW s \in Subs
  PROVE  \/ sent'[s] = sent[s]
         \/ /\ RouterDeliver /\ s = Head(todo)
            /\ sent'[s] = Append(sent[s], [kind |-> "event", id |-> current])
         \/ /\ SendInitialObjects(s)
            /\ sent'[s] = Append(sent[s], [kind |-> "snapshot"])
<1>1. DOMAIN sent = Subs
  BY Zenon DEF StoreInv, HistoryTypeOK
<1>2. ASSUME NEW c \in Clients, Writes(c) PROVE sent' = sent
  BY <1>2, CommitEffect, WriteCommits, Zenon
<1>3. CASE UNCHANGED sent
  BY <1>3, Zenon
<1>4. CASE RouterDeliver
  BY <1>1, <1>4, Zenon DEF RouterDeliver
<1>5. ASSUME NEW t \in Subs, SendInitialObjects(t)
      PROVE  \/ sent'[s] = sent[s]
             \/ SendInitialObjects(s) /\ sent'[s] = Append(sent[s], [kind |-> "snapshot"])
  BY <1>1, <1>5, Zenon DEF SendInitialObjects
<1>6. QED
  BY <1>2, <1>3, <1>4, <1>5, Zenon
     DEF Step, SendEvent, RouterRange, RouterMoves, Subscribe, ReadInitialObjects, Idle, subVars

(* What was sent stays sent, and what is sent is the event being routed. *)
LEMMA StepSent ==
  ASSUME StoreInv, Step, NEW s \in Subs, NEW n
  PROVE  /\ WasSent(n, s) => WasSent(n, s)'
         /\ WasSent(n, s)' => WasSent(n, s) \/ (RouterDeliver /\ s = Head(todo) /\ n = current)
<1>1. sent[s] \in Seq(Messages) /\ current \in Nat
  BY Zenon DEF StoreInv, HistoryTypeOK
<1>2. PICK e \in Messages : e = [kind |-> "event", id |-> current] /\ IsEvent(e) /\ e.id = current
  BY <1>1, EventMessage, Zenon
<1>3. PICK o \in Messages : o = [kind |-> "snapshot"] /\ ~IsEvent(o)
  BY SnapshotMessage, Zenon
<1>4. (WasSent(n, s) <=> HasEvent(sent[s], n)) /\ (WasSent(n, s)' <=> HasEvent(sent'[s], n))
  BY Zenon DEF WasSent, HasEvent
<1>5. CASE sent'[s] = sent[s]
  BY <1>4, <1>5, Zenon
<1>6. CASE RouterDeliver /\ s = Head(todo) /\ sent'[s] = Append(sent[s], e)
  <2>1. HasEvent(Append(sent[s], e), n) <=> HasEvent(sent[s], n) \/ n = current
    BY <1>1, <1>2, HasEventAppend
  <2>2. QED
    BY <1>4, <1>6, <2>1, Zenon
<1>7. CASE sent'[s] = Append(sent[s], o)
  <2>1. HasEvent(Append(sent[s], o), n) <=> HasEvent(sent[s], n)
    BY <1>1, <1>3, HasEventAppend, Zenon
  <2>2. QED
    BY <1>4, <1>7, <2>1, Zenon
<1>8. QED
  BY <1>2, <1>3, <1>5, <1>6, <1>7, StepSends, Zenon

(* The router sends the event it is routing to a subscriber that wants it. *)
LEMMA DeliverSends ==
  ASSUME StoreInv, RouterDeliver, NEW s \in Subs, s = Head(todo), Match(Filter[s], log[current].td)
  PROVE  WasSent(current, s)'
<1>1. sent \in [Subs -> Seq(Messages)] /\ current \in Nat
  BY Zenon DEF StoreInv, HistoryTypeOK
<1>2. PICK e \in Messages : e = [kind |-> "event", id |-> current] /\ IsEvent(e) /\ e.id = current
  BY <1>1, EventMessage, Zenon
<1>3. sent'[s] = Append(sent[s], e) /\ UNCHANGED current
  BY <1>1, <1>2, Zenon DEF RouterDeliver
<1>4. HasEvent(Append(sent[s], e), current)
  BY <1>1, <1>2, HasEventAppend
<1>5. HasEvent(sent'[s], current')
  BY <1>3, <1>4, Zenon
<1>6. QED
  BY <1>5, Zenon DEF HasEvent, WasSent

-----------------------------------------------------------------------------
(* No change is lost. *)

(* Event n has been sent to subscriber s, or is on its way. *)
Reached(n, s) == WasSent(n, s) \/ InFlight(n, s)

(* What reaches a subscriber stays on its way until it is sent. *)
LEMMA StepReaches ==
  ASSUME StoreInv, Step, NEW s \in Range(subs), NEW n \in Nat, Match(Filter[s], log[n].td), Reached(n, s)
  PROVE  Reached(n, s)'
<1>0. /\ todo \in Seq(Subs) /\ subs \in Seq(Subs) /\ s \in Subs /\ Outbox \in Seq(Nat) /\ current \in Nat
      /\ HandedOverLater(n) <=> n \in Range(Outbox)
  <2>1. todo \in Seq(Subs) /\ subs \in Seq(Subs) /\ s \in Subs /\ current \in Nat
    BY DEF StoreInv, HistoryTypeOK, Range
  <2>2. QED
    BY <2>1, WaitsInOutbox, Zenon
<1>1. CASE WasSent(n, s)
  BY <1>0, <1>1, StepSent, Zenon DEF Reached
<1>2. CASE InFlight(n, s)
  <2>0. ASSUME UNCHANGED outbox, HandedOverLater(n) PROVE HandedOverLater(n)'
    BY <2>0, Zenon DEF HandedOverLater
  <2>1. CASE UNCHANGED <<outbox, current, router, todo>>
    BY <1>2, <2>0, <2>1, Zenon DEF Reached, InFlight
  <2>2. ASSUME NEW c \in Clients, Writes(c) PROVE InFlight(n, s)'
    <3>1. PICK d, events : events \in Seq(EventRecord) /\ Commit(c, d, events)
      BY <2>2, WriteCommits, Zenon
    <3>2. Range(Outbox) = {} /\ UNCHANGED <<current, router, todo>>
      BY <3>1, CommitEffect, Zenon
    <3>3. QED
      BY <1>0, <1>2, <3>2, Zenon DEF InFlight
  <2>3. ASSUME NEW c \in Clients, SendEvent(c) PROVE InFlight(n, s)'
    <3>1. /\ router = "select" /\ Outbox # <<>> /\ current' = Head(Outbox) /\ Outbox' = Tail(Outbox)
          /\ router' = "range" /\ Outbox' = outbox'[c]
      BY <2>3, SendEffect, Zenon
    <3>2. n \in Range(Outbox)
      BY <1>0, <1>2, <3>1, Zenon DEF InFlight
    <3>3. n = Head(Outbox) \/ n \in Range(Tail(Outbox))
      BY <1>0, <3>1, <3>2, RangeTail, Zenon
    <3>4. QED
      BY <3>1, <3>3, Zenon DEF InFlight, HandedOverLater
  <2>4. CASE RouterRange
    <3>1. /\ router = "range" /\ router' = "deliver" /\ todo' = subs /\ UNCHANGED <<outbox, current>>
      BY <2>4, Zenon DEF RouterRange
    <3>2. QED
      BY <1>2, <2>0, <3>1, Zenon DEF InFlight, Reached
  <2>5. CASE RouterDeliver
    <3>1. /\ router = "deliver" /\ todo # <<>> /\ todo' = Tail(todo)
          /\ UNCHANGED <<outbox, current, router>>
      BY <2>5, Zenon DEF RouterDeliver
    <3>2. s \in Range(todo) => s = Head(todo) \/ s \in Range(Tail(todo))
      BY <1>0, <3>1, RangeTail, Zenon
    <3>3. CASE current = n /\ s = Head(todo)
      BY <1>0, <2>5, <3>1, <3>3, DeliverSends, Zenon DEF Reached
    <3>4. CASE current = n /\ s \in Range(Tail(todo))
      BY <3>1, <3>4, Zenon DEF Reached, InFlight
    <3>5. CASE HandedOverLater(n)
      BY <2>0, <3>1, <3>5, Zenon DEF Reached, InFlight
    <3>6. QED
      BY <1>2, <3>1, <3>2, <3>3, <3>4, <3>5, Zenon DEF InFlight
  <2>6. CASE RouterMoves
    <3>1. /\ router # "range" /\ (router = "deliver" => Range(todo) = {}) /\ UNCHANGED outbox
      BY <2>6 DEF RouterMoves, Range
    <3>2. QED
      BY <1>2, <2>0, <3>1, Zenon DEF InFlight, Reached
  <2>7. QED
    BY <2>1, <2>2, <2>3, <2>4, <2>5, <2>6, Zenon
       DEF Step, Reached, Subscribe, ReadInitialObjects, SendInitialObjects, Idle, routerVars
<1>3. QED
  BY <1>1, <1>2, Zenon DEF Reached

(* The events of a commit are on their way to everyone. *)
LEMMA CommittedReached ==
  ASSUME StoreInv, NEW c \in Clients, NEW d, NEW events \in Seq(EventRecord), Commit(c, d, events),
         NEW n \in 1..Len(log'), ~(n <= Len(log)), NEW s
  PROVE  Reached(n, s)'
<1>1. /\ Len(log) \in Nat /\ Len(events) \in Nat /\ Len(log') = Len(log) + Len(events)
      /\ Outbox' = [i \in 1..Len(events) |-> Len(log) + i] /\ Outbox' = outbox'[c]
  BY CommitEffect, Zenon
<1>2. n - Len(log) \in 1..Len(events) /\ Len(log) + (n - Len(log)) = n
  BY <1>1
<1>3. n \in Range(outbox'[c])
  BY <1>1, <1>2, Zenon DEF Range
<1>4. QED
  BY <1>3, Zenon DEF Reached, InFlight, HandedOverLater

(* Events are only added to the log. *)
LEMMA LogGrows ==
  ASSUME StoreInv, Step
  PROVE  /\ Len(log) \in Nat /\ Len(log') \in Nat /\ Len(log) <= Len(log')
         /\ \A n \in 1..Len(log) : log'[n] = log[n]
<1>1. CASE UNCHANGED log
  BY <1>1 DEF StoreInv, HistoryTypeOK
<1>2. ASSUME NEW c \in Clients, Writes(c)
      PROVE  /\ Len(log) \in Nat /\ Len(log') \in Nat /\ Len(log) <= Len(log')
             /\ \A n \in 1..Len(log) : log'[n] = log[n]
  <2>1. PICK d, events : events \in Seq(EventRecord) /\ Commit(c, d, events)
    BY <1>2, WriteCommits, Zenon
  <2>2. /\ log \in Seq(EventRecord) /\ Len(log) \in Nat /\ Len(events) \in Nat
        /\ log' = log \o events /\ Len(log') = Len(log) + Len(events)
    BY <2>1, CommitEffect, Zenon
  <2>3. QED
    BY <2>2
<1>3. QED
  BY <1>1, <1>2, Zenon
     DEF Step, SendEvent, RouterRange, RouterDeliver, RouterMoves, Subscribe, ReadInitialObjects,
         SendInitialObjects, Idle, dbVars

(* An event in the log after a step was there before, or was just written. *)
LEMMA NewEvents ==
  ASSUME StoreInv, Step, NEW n \in 1..Len(log'), ~(n \in 1..Len(log)), NEW s
  PROVE  Reached(n, s)' /\ UNCHANGED <<subs, initial, snapshot, closed, sent>>
<1>1. Len(log) \in Nat /\ Len(log') \in Nat
  BY LogGrows, Zenon
<1>2. ~(n <= Len(log)) /\ log' # log
  BY <1>1
<1>3. PICK c \in Clients : Writes(c)
  BY <1>2, Zenon
     DEF Step, SendEvent, RouterRange, RouterDeliver, RouterMoves, Subscribe, ReadInitialObjects,
         SendInitialObjects, Idle, dbVars
<1>4. PICK d, events : events \in Seq(EventRecord) /\ Commit(c, d, events)
  BY <1>3, WriteCommits, Zenon
<1>5. QED
  BY <1>2, <1>4, CommitEffect, CommittedReached, Zenon

(* A snapshot is taken once, when it is read. *)
LEMMA SnapshotKept ==
  ASSUME StoreInv, Step, NEW s \in Subs
  PROVE  UNCHANGED <<snapshot[s]>> \/ (ReadInitialObjects(s) /\ initial[s] = "read")
<1>1. DOMAIN snapshot = Subs
  BY Zenon DEF StoreInv, HistoryTypeOK
<1>2. ASSUME NEW t \in Subs, ReadInitialObjects(t)
      PROVE  snapshot'[s] = snapshot[s] \/ (ReadInitialObjects(s) /\ initial[s] = "read")
  BY <1>1, <1>2, Zenon DEF ReadInitialObjects
<1>3. ASSUME NEW c \in Clients, Writes(c) PROVE snapshot' = snapshot
  BY <1>3, CommitEffect, WriteCommits, Zenon
<1>4. CASE UNCHANGED snapshot
  BY <1>4, Zenon
<1>5. QED
  BY <1>2, <1>3, <1>4, Zenon
     DEF Step, SendEvent, RouterRange, RouterDeliver, RouterMoves, Subscribe, SendInitialObjects, Idle, subVars

(* A subscriber that has still to read the objects does so next. *)
LEMMA ReadOnce ==
  ASSUME StoreInv, Step, NEW s \in Subs, initial[s] = "read", ~ReadInitialObjects(s)
  PROVE  initial'[s] = "read"
<1>1. initial \in [Subs -> {"none", "read", "send", "done"}]
  BY Zenon DEF StoreInv, HistoryTypeOK
<1>2. ASSUME NEW t \in Subs, ReadInitialObjects(t) PROVE initial'[s] = initial[s]
  BY <1>1, <1>2, Zenon DEF ReadInitialObjects
<1>3. ASSUME NEW t \in Subs, Subscribe(t) \/ SendInitialObjects(t) PROVE initial'[s] = initial[s]
  BY <1>1, <1>3, Zenon DEF Subscribe, SendInitialObjects
<1>4. ASSUME NEW c \in Clients, Writes(c) PROVE initial' = initial
  BY <1>4, CommitEffect, WriteCommits, Zenon
<1>5. CASE UNCHANGED initial
  BY <1>5, Zenon
<1>6. QED
  BY <1>2, <1>3, <1>4, <1>5, Zenon
     DEF Step, SendEvent, RouterRange, RouterDeliver, RouterMoves, Idle, subVars

(* Subscribers are only added, before they read. *)
LEMMA SubscribersKept ==
  ASSUME StoreInv, Step, ~closed', NEW s \in Range(subs')
  PROVE  /\ s \in Subs /\ ~closed
         /\ s \notin Range(subs) =>
              Subscribe(s) /\ subs' = Append(subs, s) /\ initial'[s] = "read" /\ initial[s] = "none"
<1>1. subs \in Seq(Subs) /\ DOMAIN initial = Subs /\ \A t \in Range(subs) : t \in Subs
  BY DEF StoreInv, HistoryTypeOK, Range
<1>2. CASE UNCHANGED subs /\ (closed => closed')
  BY <1>1, <1>2, Zenon
<1>3. ASSUME NEW t \in Subs, Subscribe(t), ~closed
      PROVE  /\ s \in Subs
             /\ s \notin Range(subs) =>
                  Subscribe(s) /\ subs' = Append(subs, s) /\ initial'[s] = "read" /\ initial[s] = "none"
  <2>1. subs' = Append(subs, t) /\ initial' = [initial EXCEPT ![t] = "read"] /\ initial[t] = "none"
    BY <1>3, Zenon DEF Subscribe
  <2>2. Range(subs') = Range(subs) \cup {t}
    BY <1>1, <2>1, RangeOfAppend
  <2>3. QED
    BY <1>1, <1>3, <2>1, <2>2, Zenon
<1>4. ASSUME NEW t \in Subs, Subscribe(t), closed PROVE UNCHANGED subs /\ closed'
  BY <1>4, Zenon DEF Subscribe
<1>5. ASSUME NEW c \in Clients, Writes(c) PROVE UNCHANGED <<subs, closed>>
  BY <1>5, CommitEffect, WriteCommits, Zenon
<1>6. CASE ~ \E t \in Subs : Subscribe(t)
  <2>1. CASE RouterRange \/ RouterDeliver \/ RouterMoves \/ Idle
    BY <1>2, <2>1, Zenon DEF RouterRange, RouterDeliver, RouterMoves, Idle, subVars
  <2>2. ASSUME NEW t \in Subs, ReadInitialObjects(t) \/ SendInitialObjects(t)
        PROVE  UNCHANGED <<subs, closed>>
    BY <2>2, Zenon DEF ReadInitialObjects, SendInitialObjects
  <2>3. ASSUME NEW c \in Clients, SendEvent(c) PROVE UNCHANGED <<subs, closed>>
    BY <2>3, Zenon DEF SendEvent, subVars
  <2>4. CASE UNCHANGED <<subs, closed>>
    BY <1>2, <2>4, Zenon
  <2>5. QED
    BY <1>5, <1>6, <2>1, <2>2, <2>3, <2>4, Zenon DEF Step
<1>7. CASE \E t \in Subs : Subscribe(t)
  <2>1. PICK t \in Subs : Subscribe(t)
    BY <1>7, Zenon
  <2>2. ~closed
    BY <1>4, <2>1, Zenon
  <2>3. QED
    BY <1>3, <2>1, <2>2, Zenon
<1>8. QED
  BY <1>6, <1>7, Zenon

(* Every step keeps every change of a subscriber on its way. *)
LEMMA NextNoLostChange == ASSUME StoreInv, NoLostChange, Step PROVE NoLostChange'
<1> SUFFICES ASSUME NEW s \in Range(subs'), ~closed', initial'[s] # "read",
                    NEW n \in 1..Len(log'), Match(Filter[s], log'[n].td)
             PROVE  n <= snapshot'[s].at \/ Reached(n, s)'
  BY Zenon DEF NoLostChange, Reached, Positions
<1>1. s \in Range(subs) /\ s \in Subs /\ ~closed
  BY SubscribersKept, Zenon
<1>2. CASE ~(n \in 1..Len(log))
  BY <1>2, NewEvents, Zenon
<1>3. CASE n \in 1..Len(log)
  <2>1. log'[n] = log[n] /\ Len(log) \in Nat /\ n \in Nat /\ n <= Len(log)
    BY <1>3, LogGrows
  <2>2. CASE ReadInitialObjects(s)
    <3>1. snapshot'[s].at = Len(log)
      BY <1>1, <2>2, Zenon DEF ReadInitialObjects, InitialObjects, StoreInv, HistoryTypeOK
    <3>2. QED
      BY <2>1, <3>1, Zenon
  <2>3. CASE ~ReadInitialObjects(s)
    <3>1. snapshot'[s] = snapshot[s]
      BY <1>1, <2>3, SnapshotKept, Zenon
    <3>2. initial[s] # "read"
      BY <1>1, <2>3, ReadOnce, Zenon
    <3>3. n <= snapshot[s].at \/ Reached(n, s)
      BY <1>1, <1>3, <2>1, <3>2, Zenon DEF NoLostChange, Reached, Positions
    <3>4. QED
      BY <1>1, <2>1, <3>1, <3>3, StepReaches, Zenon
  <2>4. QED
    BY <2>2, <2>3, Zenon
<1>4. QED
  BY <1>2, <1>3, Zenon

(* What the snapshot of sendInitialObjects does not show a subscriber has  *)
(* been sent to it, or is on its way, as long as the store is open: for    *)
(* every interleaving of clients, router and subscribers.                  *)
THEOREM NoChangeLost == Spec => []NoLostChange
<1>1. Init => NoLostChange
  BY DEF Init, NoLostChange, Range
<1>2. StoreInv /\ NoLostChange /\ [Next]_vars => NoLostChange'
  BY NextStep, NextNoLostChange, Zenon
<1>3. QED
  BY <1>1, <1>2, StoreInvariance, PTL DEF Spec

-----------------------------------------------------------------------------
(* What a subscriber was sent adds up to the database. *)

(* Of the first k events of lg, event n is the last that is about r. *)
LastAbout(lg, r, n, k) == n \in 1..k /\ lg[n].obj = r /\ \A m \in (n + 1)..k : lg[m].obj # r

(* The first k events of lg make of r the resource v, or nothing. *)
Reflects(lg, r, v, k) ==
  \/ v = None /\ \A m \in 1..k : lg[m].obj # r
  \/ \E n \in 1..k : /\ LastAbout(lg, r, n, k)
                     /\ lg[n].op = "DELETE" => v = None
                     /\ lg[n].op # "DELETE" => v # None /\ v.updated = n

(* Later events do not change what the first k amount to. *)
LEMMA ReflectsPrefix ==
  ASSUME NEW lg \in Seq(EventRecord), NEW ev \in Seq(EventRecord), NEW r, NEW v,
         NEW k \in 0..Len(lg), Reflects(lg, r, v, k)
  PROVE  Reflects(lg \o ev, r, v, k)
<1>1. Len(lg) \in Nat /\ \A m \in 1..k : (lg \o ev)[m] = lg[m] /\ m \in 1..Len(lg)
  OBVIOUS
<1>2. \A n \in 1..k : \A m \in (n + 1)..k : m \in 1..k
  BY <1>1
<1>3. QED
  BY <1>1, <1>2, Zenon DEF Reflects, LastAbout

(* Events about other objects change nothing. *)
LEMMA ReflectsOthers ==
  ASSUME NEW lg \in Seq(EventRecord), NEW ev \in Seq(EventRecord), NEW r, NEW v,
         Reflects(lg, r, v, Len(lg)), \A i \in 1..Len(ev) : ev[i].obj # r
  PROVE  Reflects(lg \o ev, r, v, Len(lg \o ev))
<1> DEFINE l == lg \o ev
<1>1. /\ Len(lg) \in Nat /\ Len(ev) \in Nat /\ Len(l) = Len(lg) + Len(ev)
      /\ \A m \in 1..Len(lg) : l[m] = lg[m]
      /\ \A m \in 1..Len(ev) : l[Len(lg) + m] = ev[m]
  OBVIOUS
<1> HIDE DEF l
<1>2. \A m \in (Len(lg) + 1)..Len(l) : l[m].obj # r
  <2>1. ASSUME NEW m \in (Len(lg) + 1)..Len(l) PROVE l[m].obj # r
    <3>1. m - Len(lg) \in 1..Len(ev) /\ Len(lg) + (m - Len(lg)) = m
      BY <1>1
    <3>2. QED
      BY <1>1, <3>1
  <2>2. QED
    BY <2>1
<1>3. \A m \in 1..Len(l) : m \in 1..Len(lg) \/ m \in (Len(lg) + 1)..Len(l)
  BY <1>1
<1>4. CASE v = None /\ \A m \in 1..Len(lg) : lg[m].obj # r
  <2>1. \A m \in 1..Len(l) : l[m].obj # r
    BY <1>1, <1>2, <1>3, <1>4
  <2>2. QED
    BY <1>4, <2>1 DEF Reflects, l
<1>5. ASSUME NEW n \in 1..Len(lg), LastAbout(lg, r, n, Len(lg)),
             lg[n].op = "DELETE" => v = None,
             lg[n].op # "DELETE" => v # None /\ v.updated = n
      PROVE  Reflects(l, r, v, Len(l))
  <2>1. n \in 1..Len(l) /\ l[n] = lg[n]
    BY <1>1
  <2>2. ASSUME NEW m \in (n + 1)..Len(l) PROVE l[m].obj # r
    <3>1. m \in (n + 1)..Len(lg) \/ m \in (Len(lg) + 1)..Len(l)
      BY <1>1
    <3>2. m \in (n + 1)..Len(lg) => m \in 1..Len(lg)
      BY <1>1
    <3>3. QED
      BY <1>1, <1>2, <1>5, <3>1, <3>2, SMTT(30) DEF LastAbout
  <2>3. LastAbout(l, r, n, Len(l))
    BY <1>5, <2>1, <2>2 DEF LastAbout
  <2>4. QED
    BY <1>5, <2>1, <2>3 DEF Reflects
<1>6. QED
  BY <1>4, <1>5 DEF Reflects, l

(* An event about r decides. *)
LEMMA ReflectsEvent ==
  ASSUME NEW lg \in Seq(EventRecord), NEW e \in EventRecord, NEW r, NEW v, e.obj = r,
         e.op = "DELETE" => v = None,
         e.op # "DELETE" => v # None /\ v.updated = Len(lg) + 1
  PROVE  Reflects(lg \o <<e>>, r, v, Len(lg \o <<e>>))
<1> DEFINE l == lg \o <<e>>
<1>1. Len(lg) \in Nat /\ Len(l) = Len(lg) + 1 /\ l[Len(lg) + 1] = e
  OBVIOUS
<1> HIDE DEF l
<1>2. LastAbout(l, r, Len(lg) + 1, Len(l))
  BY <1>1 DEF LastAbout
<1>3. Len(lg) + 1 \in 1..Len(l)
  BY <1>1
<1>4. Reflects(l, r, v, Len(l))
  BY <1>1, <1>2, <1>3 DEF Reflects
<1>5. QED
  BY <1>4 DEF l

(* Of two last events about r each is the other. *)
LEMMA LastAboutUnique ==
  ASSUME NEW lg, NEW r, NEW k \in Nat, NEW n, NEW m, LastAbout(lg, r, n, k), LastAbout(lg, r, m, k)
  PROVE  n = m
<1>1. n \in 1..k /\ m \in 1..k /\ lg[n].obj = r /\ lg[m].obj = r
  BY DEF LastAbout
<1>2. n \in (m + 1)..k \/ m \in (n + 1)..k \/ n = m
  BY <1>1
<1>3. QED
  BY <1>1, <1>2 DEF LastAbout

(* The last event about r says what there is. *)
LEMMA ReflectsLast ==
  ASSUME NEW lg, NEW r, NEW v, NEW k \in Nat, NEW m, Reflects(lg, r, v, k), LastAbout(lg, r, m, k)
  PROVE  /\ lg[m].op = "DELETE" => v = None
         /\ lg[m].op # "DELETE" => v # None /\ v.updated = m
<1>1. m \in 1..k /\ lg[m].obj = r
  BY DEF LastAbout
<1>2. PICK n \in 1..k : /\ LastAbout(lg, r, n, k)
                        /\ lg[n].op = "DELETE" => v = None
                        /\ lg[n].op # "DELETE" => v # None /\ v.updated = n
  BY <1>1 DEF Reflects
<1>3. n = m
  BY <1>2, LastAboutUnique
<1>4. QED
  BY <1>2, <1>3

(* What there was before events about other objects is what there is. *)
LEMMA ReflectsAgree ==
  ASSUME NEW lg, NEW r, NEW v, NEW w, NEW N \in Nat, NEW k \in 0..N,
         Reflects(lg, r, v, k), Reflects(lg, r, w, N), \A m \in (k + 1)..N : lg[m].obj # r
  PROVE  (v = None <=> w = None) /\ (v # None => v.updated = w.updated)
<1>1. CASE v = None /\ \A m \in 1..k : lg[m].obj # r
  <2>1. \A m \in 1..N : lg[m].obj # r
    <3>1. \A m \in 1..N : m \in 1..k \/ m \in (k + 1)..N
      OBVIOUS
    <3>2. QED
      BY <1>1, <3>1
  <2>2. w = None
    BY <2>1 DEF Reflects, LastAbout
  <2>3. QED
    BY <1>1, <2>2
<1>2. ASSUME NEW n \in 1..k, LastAbout(lg, r, n, k),
             lg[n].op = "DELETE" => v = None,
             lg[n].op # "DELETE" => v # None /\ v.updated = n
      PROVE  (v = None <=> w = None) /\ (v # None => v.updated = w.updated)
  <2>1. n \in 1..N /\ \A m \in (n + 1)..N : m \in (n + 1)..k \/ m \in (k + 1)..N
    OBVIOUS
  <2>2. LastAbout(lg, r, n, N)
    BY <1>2, <2>1 DEF LastAbout
  <2>3. /\ lg[n].op = "DELETE" => w = None
        /\ lg[n].op # "DELETE" => w # None /\ w.updated = n
    BY <2>2, ReflectsLast
  <2>4. QED
    BY <1>2, <2>3
<1>3. QED
  BY <1>1, <1>2 DEF Reflects

-----------------------------------------------------------------------------
(* The events of the log describe what happens to the database. *)

(* The database is what the log amounts to. *)
DBReflects == \A r \in Refs : Reflects(log, r, db.rsrc[r], Len(log))

(* The descriptor that DeleteResource makes up for its event. *)
DeletedType(r) == [kind |-> DeletedKind, type |-> TypeOf[r]]

(* An event about a resource has the resource's descriptor, or the one of  *)
(* its deletion.                                                           *)
Described ==
  \A r \in Refs : \A n \in 1..Len(log) : log[n].obj = r => log[n].td \in {RsrcType(r), DeletedType(r)}

LogInv == DBReflects /\ Described

(* A commit of one event about r. *)
LEMMA EventDescribes ==
  ASSUME StoreInv, LogInv, NEW c \in Clients, NEW d, NEW e \in EventRecord, Commit(c, d, <<e>>),
         NEW r \in Refs, NEW v, e.obj = r, e.td \in {RsrcType(r), DeletedType(r)},
         d.rsrc = [db.rsrc EXCEPT ![r] = v],
         e.op = "DELETE" => v = None,
         e.op # "DELETE" => v # None /\ v.updated = Now
  PROVE  LogInv'
<1>1. <<e>> \in Seq(EventRecord) /\ Len(<<e>>) = 1 /\ <<e>>[1] = e
  OBVIOUS
<1>2. /\ log \in Seq(EventRecord) /\ Len(log) \in Nat /\ log' = log \o <<e>> /\ Len(log') = Len(log) + 1
      /\ db' = d
  BY <1>1, CommitEffect, ZenonT(30)
<1>3. db.rsrc \in [Refs -> Resource \cup {None}]
  BY Zenon DEF StoreInv, HistoryTypeOK, HasResources
<1>4. /\ \A n \in 1..Len(log) : log'[n] = log[n]
      /\ log'[Len(log) + 1] = e
      /\ \A n \in 1..Len(log') : n \in 1..Len(log) \/ n = Len(log) + 1
  BY <1>2
<1>5. ASSUME NEW q \in Refs PROVE Reflects(log', q, db'.rsrc[q], Len(log'))
  <2>1. CASE q = r
    <3>1. db'.rsrc[q] = v
      BY <1>2, <1>3, <2>1, Zenon
    <3>2. Reflects(log \o <<e>>, r, v, Len(log \o <<e>>))
      BY <1>2, ReflectsEvent, Zenon DEF Now
    <3>3. QED
      BY <1>2, <2>1, <3>1, <3>2, Zenon
  <2>2. CASE q # r
    <3>1. db'.rsrc[q] = db.rsrc[q]
      BY <1>2, <1>3, <2>2, Zenon
    <3>2. \A i \in 1..Len(<<e>>) : <<e>>[i].obj # q
      BY <1>1, <2>2
    <3>3. Reflects(log, q, db.rsrc[q], Len(log))
      BY Zenon DEF LogInv, DBReflects
    <3>4. Reflects(log \o <<e>>, q, db.rsrc[q], Len(log \o <<e>>))
      BY <1>1, <1>2, <3>2, <3>3, ReflectsOthers, Zenon
    <3>5. QED
      BY <1>2, <3>1, <3>4, Zenon
  <2>3. QED
    BY <2>1, <2>2, Zenon
<1>6. ASSUME NEW q \in Refs, NEW n \in 1..Len(log'), log'[n].obj = q
      PROVE  log'[n].td \in {RsrcType(q), DeletedType(q)}
  BY <1>4, <1>6, Zenon DEF LogInv, Described
<1>7. DBReflects' /\ Described'
  BY <1>5, <1>6, Zenon DEF DBReflects, Described
<1>8. QED
  BY <1>7, Zenon DEF LogInv

(* A commit of events about relationships. *)
LEMMA RelationshipsDescribe ==
  ASSUME StoreInv, LogInv, NEW c \in Clients, NEW d, NEW events \in Seq(EventRecord), Commit(c, d, events),
         \A i \in 1..Len(events) : events[i].obj \in Rels, d.rsrc = db.rsrc
  PROVE  LogInv'
<1>1. /\ log \in Seq(EventRecord) /\ Len(log) \in Nat /\ Len(events) \in Nat
      /\ log' = log \o events /\ Len(log') = Len(log) + Len(events) /\ db' = d
  BY CommitEffect, Zenon
<1>2. \A r \in Refs : \A i \in 1..Len(events) : events[i].obj # r
  BY StoreAssumption, Zenon
<1>3. DBReflects'
  <2>1. ASSUME NEW r \in Refs PROVE Reflects(log', r, db'.rsrc[r], Len(log'))
    <3>1. Reflects(log, r, db.rsrc[r], Len(log))
      BY Zenon DEF LogInv, DBReflects
    <3>2. Reflects(log \o events, r, db.rsrc[r], Len(log \o events))
      BY <1>1, <1>2, <3>1, ReflectsOthers, Zenon
    <3>3. QED
      BY <1>1, <3>2, Zenon
  <2>2. QED
    BY <2>1, Zenon DEF DBReflects
<1>4. Described'
  <2>1. ASSUME NEW r \in Refs, NEW n \in 1..Len(log'), log'[n].obj = r
        PROVE  log'[n].td \in {RsrcType(r), DeletedType(r)}
    <3>1. CASE n \in 1..Len(log)
      <4>1. log'[n] = log[n]
        BY <1>1, <3>1
      <4>2. QED
        BY <2>1, <3>1, <4>1, Zenon DEF LogInv, Described
    <3>2. CASE ~(n \in 1..Len(log))
      <4>1. n - Len(log) \in 1..Len(events) /\ log'[n] = events[n - Len(log)]
        BY <1>1, <3>2
      <4>2. QED
        BY <1>2, <2>1, <4>1, Zenon
    <3>3. QED
      BY <3>1, <3>2, Zenon
  <2>2. QED
    BY <2>1, Zenon DEF Described
<1>5. QED
  BY <1>3, <1>4, Zenon DEF LogInv

(* The log keeps describing the database. *)
LEMMA NextLogInv == ASSUME StoreInv, LogInv, Step PROVE LogInv'
<1>1. HasResources(db) /\ Now \in Nat
  BY DEF StoreInv, HistoryTypeOK, Now
<1>2. ASSUME NEW c \in Clients, NEW r \in Refs, AddResource(c, r) \/ UpdateResource(c, r)
      PROVE  LogInv'
  <2>1. ASSUME NEW t, NEW v \in Resource, v.updated = Now, t.rsrc = [db.rsrc EXCEPT ![r] = v],
               NEW op \in {"ADD", "UPDATE"}, Commit(c, t, <<Event(op, RsrcType(r), r)>>)
        PROVE  LogInv'
    <3>1. PICK e : e = Event(op, RsrcType(r), r)
      BY Zenon
    <3>2. e \in EventRecord /\ e.obj = r /\ e.td = RsrcType(r) /\ e.op # "DELETE"
      BY <3>1, EventTypes, Zenon DEF Event
    <3>3. v # None
      BY NoneAssumption, Zenon
    <3>4. Commit(c, t, <<e>>)
      BY <2>1, <3>1, Zenon
    <3>5. QED
      BY <2>1, <3>2, <3>3, <3>4, EventDescribes
  <2>2. CASE AddResource(c, r)
    <3>1. PICK v \in Resource : v.updated = Now /\ AddResourceTxn(db, r, Now).rsrc = [db.rsrc EXCEPT ![r] = v]
      BY <1>1, ResourceTxn
    <3>2. Commit(c, AddResourceTxn(db, r, Now), <<Event("ADD", RsrcType(r), r)>>)
      BY <2>2, Zenon DEF AddResource
    <3>3. QED
      BY <2>1, <3>1, <3>2, Zenon
  <2>3. CASE UpdateResource(c, r)
    <3>1. PICK v \in Resource : v.updated = Now /\ UpdateResourceTxn(db, r, Now).rsrc = [db.rsrc EXCEPT ![r] = v]
      BY <1>1, ResourceTxn
    <3>2. PICK op \in {"ADD", "UPDATE"} :
            Commit(c, UpdateResourceTxn(db, r, Now), <<Event(op, RsrcType(r), r)>>)
      BY <2>3, Zenon DEF UpdateResource
    <3>3. QED
      BY <2>1, <3>1, <3>2, Zenon
  <2>4. QED
    BY <1>2, <2>2, <2>3, Zenon
<1>3. ASSUME NEW c \in Clients, NEW r \in Refs, DeleteResource(c, r)
      PROVE  LogInv'
  <2>1. PICK t : t = DeleteResourceTxn(db, r)
    BY Zenon
  <2>2. PICK e : e = Event("DELETE", DeletedType(r), r)
    BY Zenon
  <2>3. t.rsrc = [db.rsrc EXCEPT ![r] = None]
    BY <1>1, <2>1, DeleteTxn, Zenon
  <2>4. e \in EventRecord /\ e.obj = r /\ e.td = DeletedType(r) /\ e.op = "DELETE"
    BY <2>2, EventTypes, Zenon DEF Event, DeletedType
  <2>5. Commit(c, t, <<e>>)
    BY <1>3, <2>1, <2>2, Zenon DEF DeleteResource, DeletedType
  <2>6. QED
    BY <2>3, <2>4, <2>5, EventDescribes
<1>4. ASSUME NEW c \in Clients, NEW b \in Batches, AddRelationships(c, b)
      PROVE  LogInv'
  <2>1. PICK events : events = [i \in DOMAIN b |-> Event("ADD", RelTypeOf[b[i]], b[i])]
    BY Zenon
  <2>2. b \in Seq(Rels)
    BY StoreAssumption, Zenon
  <2>3. events \in Seq(EventRecord) /\ Len(events) = Len(b) /\ DOMAIN b = 1..Len(b)
    BY <2>1, <2>2, EventTypes
  <2>4. \A i \in 1..Len(events) : events[i].obj \in Rels
    <3>1. \A i \in DOMAIN b : b[i] \in Rels
      BY <2>2
    <3>2. QED
      BY <2>1, <2>3, <3>1, Zenon DEF Event
  <2>5. Commit(c, AddRelationshipsTxn(db, b), events)
    BY <1>4, <2>1, Zenon DEF AddRelationships
  <2>6. AddRelationshipsTxn(db, b).rsrc = db.rsrc
    BY <1>1, RelationshipTxn, Zenon
  <2>7. QED
    BY <2>3, <2>4, <2>5, <2>6, RelationshipsDescribe, Zenon
<1>5. CASE UNCHANGED <<db, log>>
  BY <1>5, Zenon DEF LogInv, DBReflects, Described
<1>6. QED
  BY <1>2, <1>3, <1>4, <1>5, Zenon
     DEF Step, Writes, SendEvent, RouterRange, RouterDeliver, RouterMoves, Subscribe, ReadInitialObjects,
         SendInitialObjects, Idle, dbVars

-----------------------------------------------------------------------------
(* Where the router is. *)

(* The event being routed is the one before those to be handed over. *)
Routed ==
  /\ Len(Outbox) <= Len(log) /\ current = Len(log) - Len(Outbox)
  /\ \A i \in 1..Len(Outbox) : Outbox[i] = current + i
  /\ router \in {"range", "deliver"} => current >= 1

(* The router has still to visit s with the current event. *)
ToVisit(s) == router = "range" \/ (router = "deliver" /\ s \in Range(todo))

(* Later events than the current one are waiting to be handed over. *)
LEMMA LaterWait ==
  ASSUME StoreInv, Routed, NEW n \in 1..Len(log), n > current
  PROVE  n \in Range(Outbox)
<1>1. /\ Outbox \in Seq(Nat) /\ current \in Nat /\ Len(log) \in Nat /\ Len(Outbox) \in Nat
      /\ DOMAIN Outbox = 1..Len(Outbox)
  BY WaitsInOutbox DEF StoreInv, HistoryTypeOK
<1>2. current = Len(log) - Len(Outbox) /\ \A i \in 1..Len(Outbox) : Outbox[i] = current + i
  BY Zenon DEF Routed
<1>3. n - current \in 1..Len(Outbox) /\ current + (n - current) = n
  BY <1>1, <1>2
<1>4. QED
  BY <1>1, <1>2, <1>3, Zenon DEF Range

(* The router takes the events in turn. *)
LEMMA NextRouted ==
  ASSUME StoreInv, Routed, Step
  PROVE  /\ Routed'
         /\ current \in Nat /\ current' \in Nat /\ current <= current'
         /\ \A s : ToVisit(s)' => current < current' \/ ToVisit(s)
<1>0. /\ Outbox \in Seq(Nat) /\ current \in Nat /\ log \in Seq(EventRecord) /\ Len(log) \in Nat
      /\ todo \in Seq(Subs) /\ (UNCHANGED outbox => UNCHANGED Outbox)
  <2>1. Outbox \in Seq(Nat) /\ (UNCHANGED outbox => UNCHANGED Outbox)
    BY WaitsInOutbox, Zenon DEF Outbox
  <2>2. QED
    BY <2>1 DEF StoreInv, HistoryTypeOK
<1>1. CASE UNCHANGED <<outbox, log, current, router, todo>>
  <2>1. Routed'
    BY <1>0, <1>1, Zenon DEF Routed
  <2>2. \A s : ToVisit(s)' => ToVisit(s)
    BY <1>1, Zenon DEF ToVisit
  <2>3. QED
    BY <1>0, <1>1, <2>1, <2>2
<1>2. ASSUME NEW c \in Clients, Writes(c)
      PROVE  Routed' /\ UNCHANGED <<current, router, todo>>
  <2>1. PICK d, events : events \in Seq(EventRecord) /\ Commit(c, d, events)
    BY <1>2, WriteCommits, Zenon
  <2>2. /\ Len(events) \in Nat /\ Len(log') = Len(log) + Len(events) /\ Outbox = <<>>
        /\ Outbox' = [i \in 1..Len(events) |-> Len(log) + i] /\ UNCHANGED <<current, router, todo>>
    BY <2>1, CommitEffect, Zenon
  <2>3. Len(Outbox') = Len(events) /\ Len(Outbox) = 0
    BY <2>2
  <2>4. current = Len(log)
    BY <1>0, <2>3 DEF Routed
  <2>5. Routed'
    BY <1>0, <2>2, <2>3, <2>4 DEF Routed
  <2>6. QED
    BY <2>2, <2>5, Zenon
<1>3. ASSUME NEW c \in Clients, SendEvent(c)
      PROVE  Routed' /\ current' = current + 1
  <2>1. /\ Outbox # <<>> /\ current' = Head(Outbox) /\ Outbox' = Tail(Outbox) /\ router' = "range"
        /\ log' = log
    BY <1>3, SendEffect, Zenon
  <2>2. /\ Len(Outbox) \in Nat \ {0} /\ Len(Outbox') = Len(Outbox) - 1 /\ current' = Outbox[1]
        /\ \A i \in 1..Len(Outbox') : Outbox'[i] = Outbox[i + 1] /\ i + 1 \in 1..Len(Outbox)
    BY <1>0, <2>1
  <2>3. current' = current + 1
    BY <2>2 DEF Routed
  <2>4. ASSUME NEW i \in 1..Len(Outbox') PROVE Outbox'[i] = current' + i
    <3>1. Outbox'[i] = Outbox[i + 1] /\ i + 1 \in 1..Len(Outbox)
      BY <2>2, Zenon
    <3>2. Outbox[i + 1] = current + (i + 1)
      BY <3>1, Zenon DEF Routed
    <3>3. i \in Int /\ current \in Int
      BY <1>0
    <3>4. QED
      BY <2>3, <3>1, <3>2, <3>3
  <2>5. Len(Outbox') <= Len(log') /\ current' = Len(log') - Len(Outbox') /\ current' >= 1
    <3>1. Len(Outbox) <= Len(log) /\ current = Len(log) - Len(Outbox)
      BY Zenon DEF Routed
    <3>2. Len(log') = Len(log)
      BY <2>1, Zenon
    <3>3. QED
      BY <1>0, <2>2, <2>3, <3>1, <3>2
  <2>6. QED
    BY <2>3, <2>4, <2>5, Zenon DEF Routed
<1>4. CASE RouterRange
  <2>1. router = "range" /\ router' = "deliver" /\ UNCHANGED <<Outbox, log, current>>
    BY <1>0, <1>4, Zenon DEF RouterRange, dbVars
  <2>2. QED
    BY <1>0, <2>1 DEF Routed, ToVisit
<1>5. CASE RouterDeliver
  <2>1. router = "deliver" /\ todo # <<>> /\ todo' = Tail(todo) /\ UNCHANGED <<Outbox, log, current, router>>
    BY <1>0, <1>5, Zenon DEF RouterDeliver, dbVars
  <2>2. Range(todo') \subseteq Range(todo)
    BY <1>0, <2>1, RangeTail, Zenon
  <2>3. Routed'
    BY <2>1, Zenon DEF Routed
  <2>4. \A s : ToVisit(s)' => ToVisit(s)
    BY <2>1, <2>2, Zenon DEF ToVisit
  <2>5. QED
    BY <1>0, <2>1, <2>3, <2>4
<1>6. CASE RouterMoves
  <2>1. router' \notin {"range", "deliver"} /\ UNCHANGED <<Outbox, log, current>>
    BY <1>0, <1>6, Zenon DEF RouterMoves
  <2>2. QED
    BY <1>0, <2>1 DEF Routed, ToVisit
<1>7. ASSUME NEW s PROVE (UNCHANGED <<router, todo>>) /\ ToVisit(s)' => ToVisit(s)
  BY Zenon DEF ToVisit
<1>8. ASSUME NEW c \in Clients, Writes(c)
      PROVE  /\ Routed'
             /\ current \in Nat /\ current' \in Nat /\ current <= current'
             /\ \A s : ToVisit(s)' => current < current' \/ ToVisit(s)
  BY <1>0, <1>2, <1>7, <1>8
<1>9. ASSUME NEW c \in Clients, SendEvent(c)
      PROVE  /\ Routed'
             /\ current \in Nat /\ current' \in Nat /\ current <= current'
             /\ \A s : ToVisit(s)' => current < current' \/ ToVisit(s)
  BY <1>0, <1>3, <1>9
<1>10. QED
  BY <1>1, <1>4, <1>5, <1>6, <1>8, <1>9, Zenon
     DEF Step, Subscribe, ReadInitialObjects, SendInitialObjects, Idle, dbVars, routerVars

-----------------------------------------------------------------------------
(* Lists without repetition. *)

Once(q) == \A i, j \in 1..Len(q) : q[i] = q[j] => i = j

(* The head of such a list is not in its tail. *)
LEMMA OnceTail ==
  ASSUME NEW T, NEW q \in Seq(T), q # <<>>, Once(q)
  PROVE  Once(Tail(q)) /\ Head(q) \notin Range(Tail(q)) /\ Head(q) \in Range(q)
<1>1. /\ Len(q) \in Nat \ {0} /\ Len(Tail(q)) = Len(q) - 1 /\ Head(q) = q[1]
      /\ DOMAIN Tail(q) = 1..(Len(q) - 1) /\ DOMAIN q = 1..Len(q)
      /\ \A i \in 1..(Len(q) - 1) : Tail(q)[i] = q[i + 1]
  OBVIOUS
<1>2. \A i \in 1..(Len(q) - 1) : i + 1 \in 1..Len(q) /\ 1 \in 1..Len(q) /\ i + 1 # 1
  BY <1>1
<1>3. Once(Tail(q))
  BY <1>1, <1>2 DEF Once
<1>4. \A i \in DOMAIN Tail(q) : Tail(q)[i] # Head(q)
  BY <1>1, <1>2 DEF Once
<1>5. 1 \in DOMAIN q
  BY <1>1
<1>6. QED
  BY <1>1, <1>3, <1>4, <1>5, Zenon DEF Range

(* A new element may be appended. *)
LEMMA OnceAppend ==
  ASSUME NEW T, NEW q \in Seq(T), NEW e \in T, Once(q), e \notin Range(q)
  PROVE  Once(Append(q, e))
<1>1. /\ Len(q) \in Nat /\ Len(Append(q, e)) = Len(q) + 1 /\ DOMAIN q = 1..Len(q)
      /\ Append(q, e)[Len(q) + 1] = e
      /\ \A i \in 1..Len(q) : Append(q, e)[i] = q[i]
  OBVIOUS
<1>2. \A i \in 1..Len(q) : q[i] # e
  BY <1>1, Zenon DEF Range
<1>3. \A i \in 1..(Len(q) + 1) : i \in 1..Len(q) \/ i = Len(q) + 1
  BY <1>1
<1>4. QED
  BY <1>1, <1>2, <1>3, Zenon DEF Once

-----------------------------------------------------------------------------
(* Who has subscribed. *)

(* No one is in the list of subscribers twice, and no one who is not is    *)
(* sent anything.                                                          *)
SubscribedOnce ==
  /\ Once(subs) /\ Once(todo)
  /\ Range(todo) \subseteq Range(subs)
  /\ \A s \in Range(subs) : initial[s] # "none"
  /\ \A s \in Subs \ Range(subs) : sent[s] = <<>> /\ initial[s] \in {"none", "done"}

(* A goroutine that sends the objects of the database moves on by itself. *)
LEMMA InitialKept ==
  ASSUME StoreInv, Step, NEW s \in Subs
  PROVE  initial'[s] = initial[s] \/ Subscribe(s) \/ ReadInitialObjects(s) \/ SendInitialObjects(s)
<1>1. DOMAIN initial = Subs
  BY Zenon DEF StoreInv, HistoryTypeOK
<1>2. ASSUME NEW t \in Subs, t # s, Subscribe(t) \/ ReadInitialObjects(t) \/ SendInitialObjects(t)
      PROVE  initial'[s] = initial[s]
  <2>1. \E v : initial' = [initial EXCEPT ![t] = v]
    <3>1. CASE Subscribe(t)
      BY <3>1, Zenon DEF Subscribe
    <3>2. CASE ReadInitialObjects(t)
      BY <3>2, Zenon DEF ReadInitialObjects
    <3>3. CASE SendInitialObjects(t)
      <4>1. initial = [initial EXCEPT ![t] = initial[t]]
        BY <1>1, Zenon DEF StoreInv, HistoryTypeOK
      <4>2. QED
        BY <3>3, <4>1, Zenon DEF SendInitialObjects
    <3>4. QED
      BY <1>2, <3>1, <3>2, <3>3, Zenon
  <2>2. QED
    BY <1>1, <1>2, <2>1, Zenon
<1>3. ASSUME NEW c \in Clients, Writes(c) PROVE initial' = initial
  BY <1>3, CommitEffect, WriteCommits, Zenon
<1>4. CASE UNCHANGED initial
  BY <1>4, Zenon
<1>5. QED
  BY <1>2, <1>3, <1>4, Zenon
     DEF Step, SendEvent, RouterRange, RouterDeliver, RouterMoves, Idle, subVars

(* The list of subscribers changes by Subscribe only. *)
LEMMA SubsKept ==
  ASSUME StoreInv, Step
  PROVE  \/ UNCHANGED subs
         \/ \E t \in Subs : Subscribe(t) /\ subs' = Append(subs, t) /\ initial[t] = "none" /\ initial'[t] = "read"
<1>1. ASSUME NEW t \in Subs, Subscribe(t), ~closed
      PROVE  subs' = Append(subs, t) /\ initial[t] = "none" /\ initial'[t] = "read"
  BY <1>1, Zenon DEF Subscribe, StoreInv, HistoryTypeOK
<1>2. ASSUME NEW t \in Subs, Subscribe(t), closed PROVE UNCHANGED subs
  BY <1>2, Zenon DEF Subscribe
<1>3. ASSUME NEW c \in Clients, Writes(c) PROVE UNCHANGED subs
  BY <1>3, CommitEffect, WriteCommits, Zenon
<1>4. CASE \E t \in Subs : Subscribe(t)
  BY <1>1, <1>2, <1>4, Zenon
<1>5. CASE ~ \E t \in Subs : Subscribe(t)
  BY <1>3, <1>5, Zenon
     DEF Step, SendEvent, RouterRange, RouterDeliver, RouterMoves, ReadInitialObjects, SendInitialObjects,
         Idle, subVars
<1>6. QED
  BY <1>4, <1>5, Zenon

(* The range loop visits subscribers. *)
LEMMA TodoKept ==
  ASSUME StoreInv, Step
  PROVE  \/ UNCHANGED todo
         \/ todo' = subs /\ UNCHANGED subs
         \/ todo # <<>> /\ todo' = Tail(todo) /\ UNCHANGED subs
<1>1. ASSUME NEW c \in Clients, Writes(c) PROVE UNCHANGED todo
  BY <1>1, CommitEffect, WriteCommits, Zenon
<1>2. CASE RouterRange \/ RouterDeliver \/ RouterMoves
  BY <1>2, Zenon DEF RouterRange, RouterDeliver, RouterMoves, subVars
<1>3. QED
  BY <1>1, <1>2, Zenon
     DEF Step, SendEvent, Subscribe, ReadInitialObjects, SendInitialObjects, Idle, routerVars

(* Everyone subscribes once. *)
LEMMA NextSubscribedOnce == ASSUME StoreInv, SubscribedOnce, Step PROVE SubscribedOnce'
<1>0. /\ subs \in Seq(Subs) /\ todo \in Seq(Subs)
      /\ initial \in [Subs -> {"none", "read", "send", "done"}]
      /\ \A s \in Range(subs) : s \in Subs
  BY DEF StoreInv, HistoryTypeOK, Range
<1>1. Once(subs') /\ Range(subs) \subseteq Range(subs')
  <2>1. CASE UNCHANGED subs
    BY <2>1, Zenon DEF SubscribedOnce, Once
  <2>2. ASSUME NEW t \in Subs, subs' = Append(subs, t), initial[t] = "none"
        PROVE  Once(subs') /\ Range(subs) \subseteq Range(subs')
    <3>1. t \notin Range(subs)
      BY <2>2, Zenon DEF SubscribedOnce
    <3>2. Once(Append(subs, t))
      BY <1>0, <3>1, OnceAppend, Zenon DEF SubscribedOnce
    <3>3. Range(Append(subs, t)) = Range(subs) \cup {t}
      BY <1>0, RangeOfAppend
    <3>4. QED
      BY <2>2, <3>2, <3>3, Zenon
  <2>3. QED
    BY <2>1, <2>2, SubsKept, Zenon
<1>2. Once(todo') /\ Range(todo') \subseteq Range(subs')
  <2>1. CASE UNCHANGED todo
    BY <1>1, <2>1, Zenon DEF SubscribedOnce, Once
  <2>2. CASE todo' = subs /\ UNCHANGED subs
    BY <1>1, <2>2, Zenon
  <2>3. CASE todo # <<>> /\ todo' = Tail(todo) /\ UNCHANGED subs
    <3>1. Once(Tail(todo))
      BY <1>0, <2>3, OnceTail, Zenon DEF SubscribedOnce
    <3>2. Range(Tail(todo)) \subseteq Range(todo)
      BY <1>0, <2>3, RangeTail, Zenon
    <3>3. QED
      BY <2>3, <3>1, <3>2, Zenon DEF SubscribedOnce
  <2>4. QED
    BY <2>1, <2>2, <2>3, TodoKept, Zenon
<1>3. ASSUME NEW s \in Range(subs') PROVE initial'[s] # "none"
  <2>1. CASE s \in Range(subs)
    <3>1. s \in Subs /\ initial[s] # "none"
      BY <1>0, <2>1, Zenon DEF SubscribedOnce
    <3>2. CASE initial'[s] = initial[s]
      BY <3>1, <3>2, Zenon
    <3>3. CASE Subscribe(s) \/ ReadInitialObjects(s) \/ SendInitialObjects(s)
      BY <1>0, <3>1, <3>3, Zenon DEF Subscribe, ReadInitialObjects, SendInitialObjects
    <3>4. QED
      BY <3>1, <3>2, <3>3, InitialKept, Zenon
  <2>2. CASE s \notin Range(subs)
    <3>1. PICK t \in Subs : subs' = Append(subs, t) /\ initial'[t] = "read"
      BY <2>2, SubsKept, Zenon
    <3>2. Range(Append(subs, t)) = Range(subs) \cup {t}
      BY <1>0, RangeOfAppend
    <3>3. QED
      BY <2>2, <3>1, <3>2, Zenon
  <2>3. QED
    BY <2>1, <2>2, Zenon
<1>4. ASSUME NEW s \in Subs \ Range(subs') PROVE sent'[s] = <<>> /\ initial'[s] \in {"none", "done"}
  <2>1. s \in Subs /\ s \notin Range(subs) /\ sent[s] = <<>> /\ initial[s] \in {"none", "done"}
    BY <1>1, <1>4, Zenon DEF SubscribedOnce
  <2>2. sent'[s] = sent[s]
    <3>1. ~SendInitialObjects(s)
      BY <2>1, Zenon DEF SendInitialObjects
    <3>2. RouterDeliver => s # Head(todo)
      <4>1. RouterDeliver => todo # <<>>
        BY Zenon DEF RouterDeliver
      <4>2. todo # <<>> => Head(todo) \in Range(todo)
        BY <1>0, OnceTail, Zenon DEF SubscribedOnce
      <4>3. QED
        BY <2>1, <4>1, <4>2, Zenon DEF SubscribedOnce
    <3>3. QED
      BY <2>1, <3>1, <3>2, StepSends, Zenon
  <2>3. initial'[s] \in {"none", "done"}
    <3>1. ~SendInitialObjects(s) /\ ~ReadInitialObjects(s)
      BY <2>1, Zenon DEF SendInitialObjects, ReadInitialObjects
    <3>2. ASSUME Subscribe(s) PROVE initial'[s] = "done"
      <4>1. CASE closed
        BY <1>0, <2>1, <3>2, <4>1, Zenon DEF Subscribe
      <4>2. CASE ~closed
        <5>1. subs' = Append(subs, s)
          BY <3>2, <4>2, Zenon DEF Subscribe
        <5>2. Range(Append(subs, s)) = Range(subs) \cup {s}
          BY <1>0, <2>1, RangeOfAppend
        <5>3. QED
          BY <1>4, <5>1, <5>2, Zenon
      <4>3. QED
        BY <4>1, <4>2, Zenon
    <3>3. QED
      BY <2>1, <3>1, <3>2, InitialKept, Zenon
  <2>4. QED
    BY <2>1, <2>2, <2>3, Zenon
<1>5. QED
  BY <1>1, <1>2, <1>3, <1>4, Zenon DEF SubscribedOnce

-----------------------------------------------------------------------------
(* The order of what is sent. *)

(* The events in q are numbered in order up to c, or below c. *)
InOrder(q, c, below) ==
  /\ \A i \in 1..Len(q) : IsEvent(q[i]) => q[i].id \in 1..c /\ (below => q[i].id < c)
  /\ \A i, j \in 1..Len(q) : i < j /\ IsEvent(q[i]) /\ IsEvent(q[j]) => q[i].id < q[j].id

(* A message of q is a snapshot, if any. *)
OneSnapshot(q) == \A i, j \in 1..Len(q) : ~IsEvent(q[i]) /\ ~IsEvent(q[j]) => i = j

AllEvents(q) == \A i \in 1..Len(q) : IsEvent(q[i])

(* The next event may be sent. *)
LEMMA InOrderEvent ==
  ASSUME NEW q \in Seq(Messages), NEW c \in Nat, c >= 1, InOrder(q, c, TRUE),
         NEW e \in Messages, IsEvent(e), e.id = c
  PROVE  /\ InOrder(Append(q, e), c, FALSE)
         /\ OneSnapshot(q) => OneSnapshot(Append(q, e))
         /\ AllEvents(q) => AllEvents(Append(q, e))
<1>1. /\ Len(q) \in Nat /\ Len(Append(q, e)) = Len(q) + 1
      /\ Append(q, e)[Len(q) + 1] = e
      /\ \A i \in 1..Len(q) : Append(q, e)[i] = q[i]
  OBVIOUS
<1>2. /\ \A i \in 1..(Len(q) + 1) : i \in 1..Len(q) \/ i = Len(q) + 1
      /\ \A i \in 1..(Len(q) + 1), j \in 1..(Len(q) + 1) : i < j => i \in 1..Len(q)
  BY <1>1
<1>3. PICK p : p = Append(q, e)
  BY Zenon
<1>4. \A i \in 1..Len(p) : IsEvent(p[i]) => p[i].id \in 1..c
  BY <1>1, <1>2, <1>3 DEF InOrder
<1>5. \A i, j \in 1..Len(p) : i < j /\ IsEvent(p[i]) /\ IsEvent(p[j]) => p[i].id < p[j].id
  <2>1. ASSUME NEW i \in 1..Len(p), NEW j \in 1..Len(p), i < j, IsEvent(p[i]), IsEvent(p[j])
        PROVE  p[i].id < p[j].id
    <3>1. i \in 1..Len(q) /\ p[i] = q[i]
      BY <1>1, <1>2, <1>3, <2>1, Zenon
    <3>2. CASE j \in 1..Len(q)
      BY <1>1, <1>3, <2>1, <3>1, <3>2, Zenon DEF InOrder
    <3>3. CASE j = Len(q) + 1
      BY <1>1, <1>3, <2>1, <3>1, <3>3, Zenon DEF InOrder
    <3>4. QED
      BY <1>1, <1>2, <1>3, <3>2, <3>3, Zenon
  <2>2. QED
    BY <2>1, Zenon
<1>6. InOrder(p, c, FALSE)
  BY <1>4, <1>5, Zenon DEF InOrder
<1>7. (OneSnapshot(q) => OneSnapshot(p)) /\ (AllEvents(q) => AllEvents(p))
  BY <1>1, <1>2, <1>3, Zenon DEF OneSnapshot, AllEvents
<1>8. QED
  BY <1>3, <1>6, <1>7, Zenon

(* So may the snapshot, if it has not been. *)
LEMMA InOrderSnapshot ==
  ASSUME NEW q \in Seq(Messages), NEW c \in Nat, NEW b \in BOOLEAN, InOrder(q, c, b),
         NEW o \in Messages, ~IsEvent(o)
  PROVE  /\ InOrder(Append(q, o), c, b)
         /\ AllEvents(q) => OneSnapshot(Append(q, o))
<1>1. /\ Len(q) \in Nat /\ Len(Append(q, o)) = Len(q) + 1
      /\ Append(q, o)[Len(q) + 1] = o
      /\ \A i \in 1..Len(q) : Append(q, o)[i] = q[i]
  OBVIOUS
<1>2. \A i \in 1..(Len(q) + 1) : i \in 1..Len(q) \/ i = Len(q) + 1
  BY <1>1
<1>3. PICK p : p = Append(q, o)
  BY Zenon
<1>4. \A i \in 1..Len(p) : IsEvent(p[i]) => i \in 1..Len(q) /\ p[i] = q[i]
  BY <1>1, <1>2, <1>3, Zenon
<1>5. InOrder(p, c, b)
  BY <1>4, Zenon DEF InOrder
<1>6. AllEvents(q) => OneSnapshot(p)
  BY <1>1, <1>2, <1>3, Zenon DEF AllEvents, OneSnapshot
<1>7. QED
  BY <1>3, <1>5, <1>6, Zenon

(* The router may go on. *)
LEMMA InOrderLater ==
  ASSUME NEW q, NEW c \in Nat, NEW d \in Nat, c <= d, NEW b \in BOOLEAN, NEW f \in BOOLEAN,
         f => c < d \/ b, InOrder(q, c, b)
  PROVE  InOrder(q, d, f)
<1>1. \A n \in 1..c : n \in 1..d /\ (f /\ c < d => n < d) /\ (n < c => n < d)
  OBVIOUS
<1>2. QED
  BY <1>1, Zenon DEF InOrder

(* A subscriber is sent events in the order of the log, and one snapshot,  *)
(* at the time when sendInitialObjects ends.                               *)
SentInOrder ==
  \A s \in Subs : /\ InOrder(sent[s], current, ToVisit(s))
                  /\ OneSnapshot(sent[s])
                  /\ initial[s] # "done" => AllEvents(sent[s])

(* The order is kept. *)
LEMMA NextSentInOrder ==
  ASSUME StoreInv, Routed, SubscribedOnce, SentInOrder, Step
  PROVE  SentInOrder'
<1> SUFFICES ASSUME NEW s \in Subs
             PROVE  /\ InOrder(sent'[s], current', ToVisit(s)')
                    /\ OneSnapshot(sent'[s])
                    /\ initial'[s] # "done" => AllEvents(sent'[s])
  BY Zenon DEF SentInOrder
<1>1. /\ current \in Nat /\ current' \in Nat /\ current <= current'
      /\ ToVisit(s)' => current < current' \/ ToVisit(s)
  BY NextRouted, Zenon
<1>2. /\ sent[s] \in Seq(Messages) /\ todo \in Seq(Subs)
      /\ initial \in [Subs -> {"none", "read", "send", "done"}]
  BY Zenon DEF StoreInv, HistoryTypeOK
<1>3. /\ InOrder(sent[s], current, ToVisit(s)) /\ OneSnapshot(sent[s])
      /\ initial[s] # "done" => AllEvents(sent[s])
  BY Zenon DEF SentInOrder
<1>4. initial[s] = "done" => initial'[s] = "done"
  <2>1. initial[s] = "done" => ~Subscribe(s) /\ ~ReadInitialObjects(s) /\ ~SendInitialObjects(s)
    BY Zenon DEF Subscribe, ReadInitialObjects, SendInitialObjects
  <2>2. QED
    BY <2>1, InitialKept, Zenon
<1>5. ToVisit(s) \in BOOLEAN /\ ToVisit(s)' \in BOOLEAN
  BY Zenon DEF ToVisit
<1>6. CASE sent'[s] = sent[s]
  <2>1. InOrder(sent[s], current', ToVisit(s)')
    BY <1>1, <1>3, <1>5, InOrderLater
  <2>2. QED
    BY <1>3, <1>4, <1>6, <2>1, Zenon
<1>7. CASE RouterDeliver /\ s = Head(todo) /\ sent'[s] = Append(sent[s], [kind |-> "event", id |-> current])
  <2>1. PICK e \in Messages : e = [kind |-> "event", id |-> current] /\ IsEvent(e) /\ e.id = current
    BY <1>1, EventMessage, Zenon
  <2>2. /\ router = "deliver" /\ router' = "deliver" /\ todo # <<>> /\ todo' = Tail(todo) /\ current' = current
    BY <1>7, Zenon DEF RouterDeliver
  <2>3. s \in Range(todo) /\ s \notin Range(todo')
    BY <1>2, <1>7, <2>2, OnceTail, Zenon DEF SubscribedOnce
  <2>4. ToVisit(s) = TRUE /\ ToVisit(s)' = FALSE
    BY <2>2, <2>3, Zenon DEF ToVisit
  <2>5. current >= 1
    BY <2>2, Zenon DEF Routed
  <2>6. InOrder(sent[s], current, TRUE)
    BY <1>3, <2>4, Zenon
  <2>7. /\ InOrder(Append(sent[s], e), current, FALSE)
        /\ OneSnapshot(Append(sent[s], e))
        /\ AllEvents(sent[s]) => AllEvents(Append(sent[s], e))
    BY <1>1, <1>2, <1>3, <2>1, <2>5, <2>6, InOrderEvent, Zenon
  <2>8. QED
    BY <1>3, <1>4, <1>7, <2>1, <2>2, <2>4, <2>7, Zenon
<1>8. CASE SendInitialObjects(s) /\ sent'[s] = Append(sent[s], [kind |-> "snapshot"])
  <2>1. PICK o \in Messages : o = [kind |-> "snapshot"] /\ ~IsEvent(o)
    BY SnapshotMessage, Zenon
  <2>2. /\ initial[s] = "send"
        /\ (sent' = sent /\ initial' = initial) \/ initial'[s] = "done"
        /\ UNCHANGED <<router, current, todo>>
    BY <1>2, <1>8, Zenon DEF SendInitialObjects, routerVars
  <2>3. InOrder(Append(sent[s], o), current, ToVisit(s)) /\ OneSnapshot(Append(sent[s], o))
    BY <1>1, <1>2, <1>3, <1>5, <2>1, <2>2, InOrderSnapshot, Zenon
  <2>4. (ToVisit(s)' <=> ToVisit(s)) /\ current' = current
    BY <2>2, Zenon DEF ToVisit
  <2>5. CASE initial'[s] = "done"
    BY <1>3, <1>5, <1>8, <2>1, <2>3, <2>4, <2>5, Zenon
  <2>6. CASE sent' = sent
    BY <1>6, <2>6, Zenon
  <2>7. QED
    BY <2>2, <2>5, <2>6, Zenon
<1>9. QED
  BY <1>6, <1>7, <1>8, StepSends, Zenon

-----------------------------------------------------------------------------
(* Events without gaps. *)

(* Who was sent an event is sent all later ones. *)
NoGaps ==
  \A s \in Subs : \A m, n \in 1..Len(log) :
    m < n /\ WasSent(m, s) /\ Match(Filter[s], log[n].td) => Reached(n, s)

(* No event is left out. *)
LEMMA NextNoGaps ==
  ASSUME StoreInv, Routed, SubscribedOnce, SentInOrder, NoGaps, Step
  PROVE  NoGaps'
<1> SUFFICES ASSUME NEW s \in Subs, NEW m \in 1..Len(log'), NEW n \in 1..Len(log'), m < n,
                    WasSent(m, s)', Match(Filter[s], log'[n].td)
             PROVE  Reached(n, s)'
  BY Zenon DEF NoGaps
<1>0. /\ Len(log) \in Nat /\ Len(log') \in Nat /\ Len(log) <= Len(log')
      /\ \A k \in 1..Len(log) : log'[k] = log[k]
  BY LogGrows, Zenon
<1>1. CASE ~(n \in 1..Len(log))
  BY <1>1, NewEvents, Zenon
<1>2. CASE n \in 1..Len(log)
  <2>0. m \in 1..Len(log) /\ n \in Nat /\ Match(Filter[s], log[n].td)
    BY <1>0, <1>2
  <2>1. CASE WasSent(m, s)
    <3>1. s \in Range(subs)
      <4>1. sent[s] # <<>>
        BY <2>1 DEF WasSent
      <4>2. QED
        BY <4>1, Zenon DEF SubscribedOnce
    <3>2. Reached(n, s)
      BY <1>2, <2>0, <2>1, Zenon DEF NoGaps
    <3>3. QED
      BY <2>0, <3>1, <3>2, StepReaches, Zenon
  <2>2. CASE RouterDeliver /\ m = current
    <3>1. n > current
      BY <1>0, <2>0, <2>2
    <3>2. n \in Range(Outbox)
      BY <1>2, <3>1, LaterWait, Zenon
    <3>3. outbox' = outbox /\ HandedOverLater(n)
      BY <2>2, <3>2, WaitsInOutbox, Zenon DEF RouterDeliver
    <3>4. HandedOverLater(n)'
      BY <3>3, Zenon DEF HandedOverLater
    <3>5. QED
      BY <3>4, Zenon DEF Reached, InFlight
  <2>3. QED
    BY <2>1, <2>2, StepSent
<1>3. QED
  BY <1>1, <1>2, Zenon

-----------------------------------------------------------------------------
(* The snapshot. *)

(* What was sent stays where it is. *)
LEMMA SentGrows ==
  ASSUME StoreInv, Step, NEW s \in Subs, NEW i \in 1..Len(sent[s])
  PROVE  i \in 1..Len(sent'[s]) /\ sent'[s][i] = sent[s][i]
<1>1. sent[s] \in Seq(Messages) /\ current \in Nat
  BY Zenon DEF StoreInv, HistoryTypeOK
<1>2. \A m \in Messages : i \in 1..Len(Append(sent[s], m)) /\ Append(sent[s], m)[i] = sent[s][i]
  BY <1>1
<1>3. /\ [kind |-> "event", id |-> current] \in Messages
      /\ [kind |-> "snapshot"] \in Messages
  BY <1>1, EventMessage, SnapshotMessage, Zenon
<1>4. QED
  BY <1>2, <1>3, StepSends, Zenon

HasSnapshot(q) == \E i \in 1..Len(q) : ~IsEvent(q[i])

(* The snapshot o of a subscriber is what the first events of the log      *)
(* amount to.                                                              *)
TrueSnapshot(lg, s, o) ==
  /\ o.at \in 0..Len(lg)
  /\ \A r \in Refs : Match(Filter[s], RsrcType(r)) => Reflects(lg, r, o.rsrc[r], o.at)

(* The snapshot of a subscriber is true, and it is sent unless there is    *)
(* nothing in it.                                                          *)
SnapshotsTrue ==
  \A s \in Range(subs) : ~closed =>
    /\ initial[s] \in {"send", "done"} => TrueSnapshot(log, s, snapshot[s])
    /\ initial[s] = "done" => (\A r \in Refs : snapshot[s].rsrc[r] = None) \/ HasSnapshot(sent[s])

(* Later events leave a snapshot true. *)
LEMMA TrueSnapshotKept ==
  ASSUME StoreInv, Step, NEW s, NEW o, TrueSnapshot(log, s, o)
  PROVE  TrueSnapshot(log', s, o)
<1>1. ASSUME NEW c \in Clients, Writes(c) PROVE TrueSnapshot(log', s, o)
  <2>1. PICK d, events : events \in Seq(EventRecord) /\ Commit(c, d, events)
    BY <1>1, WriteCommits, Zenon
  <2>2. /\ log \in Seq(EventRecord) /\ Len(log) \in Nat /\ Len(events) \in Nat
        /\ log' = log \o events /\ Len(log') = Len(log) + Len(events)
    BY <2>1, CommitEffect, Zenon
  <2>3. o.at \in 0..Len(log')
    BY <2>2 DEF TrueSnapshot
  <2>4. ASSUME NEW r \in Refs, Match(Filter[s], RsrcType(r)) PROVE Reflects(log', r, o.rsrc[r], o.at)
    <3>1. Reflects(log, r, o.rsrc[r], o.at) /\ o.at \in 0..Len(log)
      BY <2>4, Zenon DEF TrueSnapshot
    <3>2. QED
      BY <2>1, <2>2, <3>1, ReflectsPrefix, Zenon
  <2>5. QED
    BY <2>3, <2>4, Zenon DEF TrueSnapshot
<1>2. CASE UNCHANGED log
  BY <1>2, Zenon
<1>3. QED
  BY <1>1, <1>2, Zenon
     DEF Step, SendEvent, RouterRange, RouterDeliver, RouterMoves, Subscribe, ReadInitialObjects,
         SendInitialObjects, Idle, dbVars

(* What sendInitialObjects reads is true. *)
LEMMA ReadIsTrue ==
  ASSUME StoreInv, LogInv, NEW s \in Subs, ReadInitialObjects(s), ~closed
  PROVE  /\ TrueSnapshot(log', s, snapshot'[s])
         /\ initial'[s] = "done" => \A r \in Refs : snapshot'[s].rsrc[r] = None
<1>0. Len(log) \in Nat /\ DOMAIN snapshot = Subs /\ DOMAIN initial = Subs
  BY DEF StoreInv, HistoryTypeOK
<1>1. PICK o : o = InitialObjects(s)
  BY Zenon
<1>2. /\ log' = log /\ snapshot'[s] = o
      /\ initial'[s] = (IF IsEmptySnapshot(o) THEN "done" ELSE "send")
  BY <1>0, <1>1, Zenon DEF ReadInitialObjects, dbVars
<1>3. /\ o.at = Len(log)
      /\ \A r \in Refs : o.rsrc[r] = IF Match(Filter[s], RsrcType(r)) THEN db.rsrc[r] ELSE None
  BY <1>1, Zenon DEF InitialObjects
<1>4. o.at \in 0..Len(log)
  BY <1>0, <1>3
<1>5. TrueSnapshot(log, s, o)
  BY <1>3, <1>4, Zenon DEF TrueSnapshot, LogInv, DBReflects
<1>6. initial'[s] = "done" => \A r \in Refs : o.rsrc[r] = None
  BY <1>2, Zenon DEF IsEmptySnapshot
<1>7. QED
  BY <1>2, <1>5, <1>6, Zenon

(* Snapshots stay true. *)
LEMMA NextSnapshotsTrue ==
  ASSUME StoreInv, LogInv, SubscribedOnce, SnapshotsTrue, Step
  PROVE  SnapshotsTrue'
<1> SUFFICES ASSUME NEW s \in Range(subs'), ~closed'
             PROVE  /\ initial'[s] \in {"send", "done"} => TrueSnapshot(log', s, snapshot'[s])
                    /\ initial'[s] = "done" =>
                         (\A r \in Refs : snapshot'[s].rsrc[r] = None) \/ HasSnapshot(sent'[s])
  BY Zenon DEF SnapshotsTrue
<1>1. s \in Subs /\ ~closed
  BY SubscribersKept, Zenon
<1>2. CASE s \notin Range(subs)
  <2>1. initial'[s] = "read"
    BY <1>2, SubscribersKept, Zenon
  <2>2. QED
    BY <2>1, Zenon
<1>3. CASE s \in Range(subs) /\ ReadInitialObjects(s)
  BY <1>1, <1>3, ReadIsTrue, Zenon
<1>4. CASE s \in Range(subs) /\ ~ReadInitialObjects(s)
  <2>1. snapshot'[s] = snapshot[s]
    BY <1>1, <1>4, SnapshotKept, Zenon
  <2>2. initial[s] # "none"
    BY <1>4, Zenon DEF SubscribedOnce
  <2>3. ~Subscribe(s)
    BY <2>2, Zenon DEF Subscribe
  <2>4. HasSnapshot(sent[s]) => HasSnapshot(sent'[s])
    BY <1>1, SentGrows, Zenon DEF HasSnapshot
  <2>5. CASE initial'[s] = initial[s]
    <3>1. initial'[s] \in {"send", "done"} => TrueSnapshot(log, s, snapshot[s])
      BY <1>1, <1>4, <2>5, Zenon DEF SnapshotsTrue
    <3>2. initial'[s] \in {"send", "done"} => TrueSnapshot(log', s, snapshot[s])
      BY <3>1, TrueSnapshotKept, Zenon
    <3>3. QED
      BY <1>1, <1>4, <2>1, <2>4, <2>5, <3>2, Zenon DEF SnapshotsTrue
  <2>6. CASE SendInitialObjects(s) /\ initial'[s] # initial[s]
    <3>1. initial[s] = "send" /\ TrueSnapshot(log, s, snapshot[s])
      BY <1>1, <1>4, <2>6, Zenon DEF SnapshotsTrue, SendInitialObjects
    <3>2. TrueSnapshot(log', s, snapshot[s])
      BY <3>1, TrueSnapshotKept, Zenon
    <3>3. HasSnapshot(sent'[s])
      <4>1. sent[s] \in Seq(Messages) /\ DOMAIN sent = Subs
        BY <1>1, Zenon DEF StoreInv, HistoryTypeOK
      <4>2. PICK o \in Messages : o = [kind |-> "snapshot"] /\ ~IsEvent(o)
        BY SnapshotMessage, Zenon
      <4>3. sent'[s] = Append(sent[s], o)
        BY <1>1, <2>6, <4>1, <4>2, Zenon DEF SendInitialObjects
      <4>4. Len(sent[s]) + 1 \in 1..Len(Append(sent[s], o)) /\ Append(sent[s], o)[Len(sent[s]) + 1] = o
        BY <4>1, <4>2
      <4>5. QED
        BY <4>2, <4>3, <4>4, Zenon DEF HasSnapshot
    <3>4. QED
      BY <2>1, <3>2, <3>3, Zenon
  <2>7. QED
    BY <1>1, <1>4, <2>3, <2>5, <2>6, InitialKept, Zenon
<1>5. QED
  BY <1>2, <1>3, <1>4, Zenon

-----------------------------------------------------------------------------
(* The view of a subscriber. *)

ViewInv ==
  StoreInv /\ NoLostChange /\ LogInv /\ Routed /\ SubscribedOnce /\ SentInOrder /\ NoGaps /\ SnapshotsTrue

(* A new store has no subscribers and no events. *)
LEMMA InitViewInv == Init => ViewInv
<1> SUFFICES ASSUME Init PROVE ViewInv
  BY Zenon
<1>0. \A c \in Clients : outbox[c] = <<>>
  BY Zenon DEF Init
<1>1. /\ log = <<>> /\ Outbox = <<>> /\ current = 0 /\ router = "new" /\ subs = <<>> /\ todo = <<>>
      /\ initial = [s \in Subs |-> "none"] /\ sent = [s \in Subs |-> <<>>] /\ db = EmptyDB
  BY <1>0, RestNone, Zenon DEF Init, Outbox
<1>2. Len(<<>>) = 0 /\ 1..0 = {} /\ Range(<<>>) = {}
  BY DEF Range
<1>3. \A r \in Refs : db.rsrc[r] = None
  BY <1>1, Zenon DEF EmptyDB
<1>4. LogInv
  BY <1>1, <1>2, <1>3, Zenon DEF LogInv, DBReflects, Described, Reflects
<1>5. Routed
  BY <1>1, <1>2 DEF Routed
<1>6. SubscribedOnce
  BY <1>1, <1>2, Zenon DEF SubscribedOnce, Once
<1>7. SentInOrder
  BY <1>1, <1>2, Zenon DEF SentInOrder, InOrder, OneSnapshot, AllEvents
<1>8. NoGaps /\ SnapshotsTrue /\ NoLostChange
  BY <1>1, <1>2, Zenon DEF NoGaps, SnapshotsTrue, NoLostChange
<1>9. QED
  BY <1>4, <1>5, <1>6, <1>7, <1>8, InitStoreInv, Zenon DEF ViewInv

(* Every step keeps the invariant. *)
LEMMA NextViewInv == ViewInv /\ [Next]_vars => ViewInv'
<1> SUFFICES ASSUME ViewInv, [Next]_vars PROVE ViewInv'
  BY Zenon
<1>1. Step /\ StoreInv'
  BY NextStep, NextStoreInv, Zenon DEF ViewInv
<1>2. NoLostChange' /\ LogInv' /\ Routed' /\ SubscribedOnce' /\ SentInOrder' /\ NoGaps' /\ SnapshotsTrue'
  BY <1>1, NextNoLostChange, NextLogInv, NextRouted, NextSubscribedOnce, NextSentInOrder, NextNoGaps,
     NextSnapshotsTrue, Zenon DEF ViewInv
<1>3. QED
  BY <1>1, <1>2, Zenon DEF ViewInv

(* The greatest element of a set of numbers. *)
LEMMA MaxIs ==
  ASSUME NEW S \in SUBSET Nat, NEW i \in S, \A j \in S : j <= i
  PROVE  Max(S) = i
<1>1. \A y \in S : i >= y
  OBVIOUS
<1>2. Max(S) \in S /\ \A y \in S : Max(S) >= y
  BY <1>1, Zenon DEF Max
<1>3. Max(S) >= i /\ Max(S) \in Nat /\ i \in Nat /\ Max(S) <= i
  BY <1>2, Zenon
<1>4. QED
  BY <1>3

(* The last message about a resource decides what a subscriber believes. *)
LEMMA ViewLast ==
  ASSUME NEW s \in Subs, NEW r \in Refs, sent[s] \in Seq(Messages),
         NEW i \in 1..Len(sent[s]), Mentions(s, i, r),
         \A j \in 1..Len(sent[s]) : Mentions(s, j, r) => j <= i
  PROVE  View(s, r) = IF IsEvent(sent[s][i])
                      THEN IF log[sent[s][i].id].op = "DELETE" THEN None ELSE sent[s][i].id
                      ELSE snapshot[s].rsrc[r].updated
<1> DEFINE S == {j \in DOMAIN sent[s] : Mentions(s, j, r)}
<1>1. DOMAIN sent[s] = 1..Len(sent[s]) /\ Len(sent[s]) \in Nat
  OBVIOUS
<1>2. i \in S /\ \A j \in S : j <= i
  BY <1>1, Zenon
<1>3. S \in SUBSET Nat
  BY <1>1
<1>4. S # {}
  BY <1>2, Zenon
<1>5. View(s, r) = CASE S = {}    -> None
        [] S # {} /\ ~IsEvent(sent[s][Max(S)]) -> snapshot[s].rsrc[r].updated
        [] S # {} /\ IsEvent(sent[s][Max(S)])  ->
             IF log[sent[s][Max(S)].id].op = "DELETE" THEN None ELSE sent[s][Max(S)].id
  BY Zenon DEF View
<1> HIDE DEF S
<1>6. Max(S) = i
  BY <1>2, <1>3, MaxIs, Zenon
<1>7. QED
  BY <1>4, <1>5, <1>6, Zenon

(* Without such a message it believes in none. *)
LEMMA ViewNone ==
  ASSUME NEW s \in Subs, NEW r \in Refs, sent[s] \in Seq(Messages),
         \A j \in 1..Len(sent[s]) : ~Mentions(s, j, r)
  PROVE  View(s, r) = None
<1>1. DOMAIN sent[s] = 1..Len(sent[s])
  OBVIOUS
<1>2. {j \in DOMAIN sent[s] : Mentions(s, j, r)} = {}
  BY <1>1, Zenon
<1>3. QED
  BY <1>2, Zenon DEF View

(* A filter that asks for a resource asks for its deletion, although the   *)
(* descriptor of the deletion has another kind: true of the filters in     *)
(* use, which name no kinds.                                               *)
DeletionsMatch ==
  \A s \in Subs : \A r \in Refs : Match(Filter[s], RsrcType(r)) => Match(Filter[s], DeletedType(r))

(* What is on the channel of a subscriber that waits for nothing: its      *)
(* messages about r end with the last event about r, or with a snapshot    *)
(* that is not older.                                                      *)
LEMMA ViewIsVersion ==
  ASSUME ViewInv, DeletionsMatch, NEW s \in Range(subs), ~closed, initial[s] = "done", ~Overtaken(s),
         \A n \in 1..Len(log) : ~InFlight(n, s),
         NEW r \in Refs, Match(Filter[s], RsrcType(r))
  PROVE  View(s, r) = Version(r)
<1>0. /\ s \in Subs /\ sent[s] \in Seq(Messages) /\ Len(sent[s]) \in Nat /\ DOMAIN sent[s] = 1..Len(sent[s])
      /\ Len(log) \in Nat /\ current \in Nat /\ current <= Len(log)
  <2>1. s \in Subs
    BY DEF ViewInv, StoreInv, HistoryTypeOK, Range
  <2>2. log \in Seq(EventRecord) /\ current \in Nat /\ Outbox \in Seq(Nat) /\ sent[s] \in Seq(Messages)
    BY <2>1, WaitsInOutbox, Zenon DEF ViewInv, StoreInv, HistoryTypeOK
  <2>3. current = Len(log) - Len(Outbox)
    BY Zenon DEF ViewInv, Routed
  <2>4. Len(log) \in Nat /\ current <= Len(log)
    BY <2>2, <2>3
  <2>5. Len(sent[s]) \in Nat /\ DOMAIN sent[s] = 1..Len(sent[s])
    BY <2>2
  <2>6. QED
    BY <2>1, <2>2, <2>4, <2>5, Zenon
<1>1. ASSUME NEW i \in 1..Len(sent[s]), IsEvent(sent[s][i])
      PROVE  /\ sent[s][i].id \in 1..Len(log) /\ WasSent(sent[s][i].id, s)
             /\ Mentions(s, i, r) <=> log[sent[s][i].id].obj = r
  <2>1. sent[s][i].id \in 1..current
    BY <1>0, <1>1, Zenon DEF ViewInv, SentInOrder, InOrder
  <2>2. sent[s][i].id \in 1..Len(log)
    BY <1>0, <2>1
  <2>3. QED
    BY <1>0, <1>1, <2>2, Zenon DEF WasSent, Mentions
<1>2. ASSUME NEW i \in 1..Len(sent[s]), ~IsEvent(sent[s][i])
      PROVE  /\ Mentions(s, i, r) <=> snapshot[s].rsrc[r] # None
             /\ \A j \in 1..Len(sent[s]) : ~IsEvent(sent[s][j]) => i = j
  BY <1>0, <1>2, Zenon DEF ViewInv, SentInOrder, OneSnapshot, Mentions
<1>3. PICK k : k = snapshot[s].at
  BY Zenon
<1>4. PICK v : v = snapshot[s].rsrc[r]
  BY Zenon
<1>5. /\ k \in 0..Len(log) /\ Reflects(log, r, v, k)
      /\ v # None => HasSnapshot(sent[s])
  BY <1>3, <1>4, Zenon DEF ViewInv, SnapshotsTrue, TrueSnapshot
<1>6. Reflects(log, r, db.rsrc[r], Len(log))
  BY Zenon DEF ViewInv, LogInv, DBReflects
<1>7. CASE db.rsrc[r] = None /\ \A m \in 1..Len(log) : log[m].obj # r
  <2>1. \A m \in 1..k : m \in 1..Len(log)
    BY <1>0, <1>5
  <2>2. v = None
    BY <1>5, <1>7, <2>1, Zenon DEF Reflects, LastAbout
  <2>3. \A i \in 1..Len(sent[s]) : ~Mentions(s, i, r)
    BY <1>1, <1>2, <1>4, <1>7, <2>2, Zenon
  <2>4. QED
    BY <1>0, <1>7, <2>3, ViewNone, Zenon DEF Version
<1>8. ASSUME NEW n \in 1..Len(log), LastAbout(log, r, n, Len(log))
      PROVE  View(s, r) = Version(r)
  <2>1. /\ log[n].op = "DELETE" => Version(r) = None
        /\ log[n].op # "DELETE" => Version(r) = n
    BY <1>0, <1>6, <1>8, ReflectsLast DEF Version
  <2>2. Match(Filter[s], log[n].td)
    <3>1. log[n].td \in {RsrcType(r), DeletedType(r)}
      BY <1>8, Zenon DEF ViewInv, LogInv, Described, LastAbout
    <3>2. QED
      BY <1>0, <3>1, Zenon DEF DeletionsMatch
  <2>3. n <= k \/ WasSent(n, s)
    BY <1>3, <2>2, Zenon DEF ViewInv, NoLostChange, Positions
  <2>4. ASSUME NEW m \in 1..Len(log), log[m].obj = r PROVE m <= n
    <3>1. ~(m \in (n + 1)..Len(log))
      BY <1>8, <2>4, Zenon DEF LastAbout
    <3>2. QED
      BY <1>0, <3>1
  <2>5. ASSUME n <= k
        PROVE  /\ log[n].op = "DELETE" => v = None
               /\ log[n].op # "DELETE" => v # None /\ v.updated = n
    <3>1. k \in Nat /\ n \in 1..k /\ \A m \in (n + 1)..k : m \in (n + 1)..Len(log)
      BY <1>0, <1>5, <2>5
    <3>2. LastAbout(log, r, n, k)
      BY <1>8, <3>1, Zenon DEF LastAbout
    <3>3. QED
      BY <1>5, <3>1, <3>2, ReflectsLast, Zenon
  <2>6. CASE WasSent(n, s)
    <3>1. PICK i \in 1..Len(sent[s]) : IsEvent(sent[s][i]) /\ sent[s][i].id = n
      BY <1>0, <2>6, Zenon DEF WasSent
    <3>2. Mentions(s, i, r)
      BY <1>1, <1>8, <3>1, Zenon DEF LastAbout
    <3>3. ASSUME NEW j \in 1..Len(sent[s]), IsEvent(sent[s][j]), Mentions(s, j, r) PROVE j <= i
      <4>1. sent[s][j].id \in 1..Len(log) /\ sent[s][j].id <= n
        BY <1>1, <2>4, <3>3, Zenon
      <4>2. i < j => n < sent[s][j].id
        BY <1>0, <3>1, <3>3, Zenon DEF ViewInv, SentInOrder, InOrder
      <4>3. QED
        BY <1>0, <4>1, <4>2
    <3>4. CASE \E j \in 1..Len(sent[s]) : i < j /\ ~IsEvent(sent[s][j]) /\ Mentions(s, j, r)
      <4>1. PICK j \in 1..Len(sent[s]) : i < j /\ ~IsEvent(sent[s][j]) /\ Mentions(s, j, r)
        BY <3>4, Zenon
      <4>2. ~(n > k)
        BY <1>0, <1>3, <3>1, <4>1, Zenon DEF Overtaken
      <4>3. n <= k
        BY <1>0, <1>5, <4>2
      <4>4. v # None /\ log[n].op # "DELETE" /\ v.updated = n
        BY <1>2, <1>4, <2>5, <4>1, <4>3, Zenon
      <4>5. ASSUME NEW h \in 1..Len(sent[s]), Mentions(s, h, r) PROVE h <= j
        <5>1. CASE IsEvent(sent[s][h])
          <6>1. h <= i
            BY <3>3, <4>5, <5>1, Zenon
          <6>2. QED
            BY <1>0, <4>1, <6>1
        <5>2. CASE ~IsEvent(sent[s][h])
          <6>1. h = j
            BY <1>2, <4>1, <5>2, Zenon
          <6>2. QED
            BY <6>1
        <5>3. QED
          BY <5>1, <5>2, Zenon
      <4>6. View(s, r) = v.updated
        BY <1>0, <1>4, <4>1, <4>5, ViewLast, Zenon
      <4>7. QED
        BY <2>1, <4>4, <4>6, Zenon
    <3>5. CASE ~ \E j \in 1..Len(sent[s]) : i < j /\ ~IsEvent(sent[s][j]) /\ Mentions(s, j, r)
      <4>1. ASSUME NEW h \in 1..Len(sent[s]), Mentions(s, h, r) PROVE h <= i
        <5>1. h <= i \/ i < h
          BY <1>0
        <5>2. IsEvent(sent[s][h]) \/ ~(i < h)
          BY <3>5, <4>1, Zenon
        <5>3. h <= i \/ ~(i < h)
          BY <3>3, <4>1, <5>2, Zenon
        <5>4. QED
          BY <1>0, <5>3
      <4>2. View(s, r) = IF log[n].op = "DELETE" THEN None ELSE n
        BY <1>0, <3>1, <3>2, <4>1, ViewLast, Zenon
      <4>3. QED
        BY <2>1, <4>2, Zenon
    <3>6. QED
      BY <3>4, <3>5, Zenon
  <2>7. CASE ~WasSent(n, s)
    <3>1. n <= k
      BY <2>3, <2>7, Zenon
    <3>2. ASSUME NEW j \in 1..Len(sent[s]), IsEvent(sent[s][j]) PROVE ~Mentions(s, j, r)
      <4>1. SUFFICES ASSUME Mentions(s, j, r) PROVE FALSE
        BY Zenon
      <4>2. PICK m : m = sent[s][j].id
        BY Zenon
      <4>3. m \in 1..Len(log) /\ WasSent(m, s) /\ m <= n
        BY <1>1, <2>4, <3>2, <4>1, <4>2, Zenon
      <4>4. m < n
        <5>1. m # n
          BY <2>7, <4>3, Zenon
        <5>2. QED
          BY <1>0, <4>3, <5>1
      <4>5. Reached(n, s)
        BY <1>0, <2>2, <4>3, <4>4, Zenon DEF ViewInv, NoGaps
      <4>6. QED
        BY <2>7, <4>5, Zenon DEF Reached
    <3>3. CASE v = None
      <4>1. \A i \in 1..Len(sent[s]) : ~Mentions(s, i, r)
        BY <1>2, <1>4, <3>2, <3>3, Zenon
      <4>2. View(s, r) = None
        BY <1>0, <4>1, ViewNone, Zenon
      <4>3. QED
        BY <2>1, <2>5, <3>1, <3>3, <4>2, Zenon
    <3>4. CASE v # None
      <4>1. PICK j \in 1..Len(sent[s]) : ~IsEvent(sent[s][j])
        BY <1>5, <3>4, Zenon DEF HasSnapshot
      <4>2. Mentions(s, j, r)
        BY <1>2, <1>4, <3>4, <4>1, Zenon
      <4>3. ASSUME NEW h \in 1..Len(sent[s]), Mentions(s, h, r) PROVE h <= j
        <5>1. h = j
          BY <1>2, <3>2, <4>1, <4>3, Zenon
        <5>2. QED
          BY <5>1
      <4>4. View(s, r) = v.updated
        BY <1>0, <1>4, <4>1, <4>2, <4>3, ViewLast, Zenon
      <4>5. QED
        BY <2>1, <2>5, <3>1, <3>4, <4>4, Zenon
    <3>5. QED
      BY <3>3, <3>4, Zenon
  <2>8. QED
    BY <2>6, <2>7, Zenon
<1>9. QED
  BY <1>6, <1>7, <1>8, Zenon DEF Reflects

(* A subscriber of store.go is sent events in the order in which their     *)
(* transactions committed, each at most once, for any number of concurrent *)
(* writers: whoever waits to hand over events holds the lock, and the      *)
(* router routes the event before the first that waits.                    *)
THEOREM CommitOrderKept == Spec => []EventsInCommitOrder
<1>1. ViewInv => EventsInCommitOrder
  <2> SUFFICES ASSUME ViewInv, NEW s \in Subs PROVE
        \A i, j \in DOMAIN sent[s] :
          i < j /\ IsEvent(sent[s][i]) /\ IsEvent(sent[s][j]) => sent[s][i].id < sent[s][j].id
    BY Zenon DEF EventsInCommitOrder
  <2>1. sent[s] \in Seq(Messages)
    BY Zenon DEF ViewInv, StoreInv, HistoryTypeOK
  <2>2. DOMAIN sent[s] = 1..Len(sent[s])
    BY <2>1
  <2>3. QED
    BY <2>2, Zenon DEF ViewInv, SentInOrder, InOrder
<1>2. QED
  BY <1>1, InitViewInv, NextViewInv, PTL DEF Spec

(* What a subscriber of store.go was sent adds up to the resources it asks *)
(* for, once nothing is on its way to it and unless a newer event overtook *)
(* its snapshot, for every interleaving of writers, router and             *)
(* sendInitialObjects.                                                     *)
THEOREM ViewsConverge ==
  ASSUME DeletionsMatch
  PROVE  Spec => []ViewConverges
<1>1. ViewInv => ViewConverges
  BY ViewIsVersion, Zenon DEF ViewConverges, Positions
<1>2. QED
  BY <1>1, InitViewInv, NextViewInv, PTL DEF Spec

=============================================================================
