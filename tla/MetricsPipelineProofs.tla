---------------------- MODULE MetricsPipelineProofs ----------------------
(***************************************************************************)
(* Proofs about the metrics pipeline, for every capacity, batch size and   *)
(* set of publishers: the ring buffer is a queue of the latest events, and *)
(* the notifications, the router's lock and the batches work as intended.  *)
(***************************************************************************)
EXTENDS MetricsPipeline, SequenceTheorems, TLAPS

-----------------------------------------------------------------------------
(* The ring buffer. *)

(* New returns a buffer (ringbuffer.go:29). *)
LEMMA RingNewIsRing == ASSUME NEW S PROVE RingNew \in Ring(S)
BY CapAssumption DEF RingNew, Ring

(* The next position to write, without the remainder. *)
LEMMA HeadSuccessor ==
  ASSUME NEW h \in 0..(Cap - 1)
  PROVE  (h + 1) % Cap = IF h = Cap - 1 THEN 0 ELSE h + 1
<1>1. CASE h = Cap - 1
  BY <1>1, CapAssumption
<1>2. CASE h # Cap - 1
  <2>1. h + 1 \in 0..(Cap - 1)
    BY <1>2, CapAssumption
  <2>2. QED
    BY <1>2, <2>1, CapAssumption
<1>3. QED
  BY <1>1, <1>2, Zenon

(* Push keeps a buffer well formed: it stays within its capacity, and the  *)
(* elements of one that is not full start at position 0.                   *)
LEMMA RingPushIsRing ==
  ASSUME NEW S, NEW r \in Ring(S), NEW x \in S
  PROVE  RingPush(r, x) \in Ring(S)
<1>1. r.head \in 0..(Cap - 1) /\ r.size \in 0..Cap /\ r.data \in [0..(Cap - 1) -> S \cup {Zero}]
  BY Zenon DEF Ring
<1>2. (r.head + 1) % Cap = IF r.head = Cap - 1 THEN 0 ELSE r.head + 1
  BY <1>1, HeadSuccessor, Zenon
<1>3. (r.head + 1) % Cap \in 0..(Cap - 1)
  BY <1>1, <1>2, CapAssumption
<1>4. [r.data EXCEPT ![r.head] = x] \in [0..(Cap - 1) -> S \cup {Zero}]
  BY <1>1, Zenon
<1>5. (IF r.size < Cap THEN r.size + 1 ELSE r.size) \in 0..Cap
  BY <1>1, CapAssumption
<1>6. RingPush(r, x).size < Cap => RingPush(r, x).head = RingPush(r, x).size
  BY <1>1, <1>2, CapAssumption DEF Ring, RingPush
<1>7. ASSUME NEW i \in 0..(RingPush(r, x).size - 1)
      PROVE  RingPush(r, x).data[i] \in S
  <2>1. CASE i = r.head
    BY <1>1, <2>1, Zenon DEF RingPush
  <2>2. CASE i # r.head
    <3>1. i \in 0..(r.size - 1)
      BY <1>1, <2>2, CapAssumption DEF RingPush, Ring
    <3>2. QED
      BY <1>1, <2>2, <3>1, CapAssumption DEF RingPush, Ring
  <2>3. QED
    BY <2>1, <2>2, Zenon
<1>8. QED
  BY <1>3, <1>4, <1>5, <1>6, <1>7, Zenon DEF Ring, RingPush

(* GetAll returns as many elements as the buffer holds. *)
LEMMA GetAllIsSeq ==
  ASSUME NEW S, NEW r \in Ring(S)
  PROVE  /\ GetAll(r) \in Seq(S)
         /\ Len(GetAll(r)) = r.size
<1>1. /\ r.head \in 0..(Cap - 1) /\ r.size \in 0..Cap
      /\ \A i \in 0..(r.size - 1) : r.data[i] \in S
  BY Zenon DEF Ring
<1>2. ASSUME NEW i \in 1..r.size
      PROVE  (IF r.size < Cap THEN r.data[i - 1]
              ELSE IF i <= Cap - r.head THEN r.data[r.head + i - 1]
              ELSE r.data[i - (Cap - r.head) - 1]) \in S
  <2>1. i - 1 \in 0..(r.size - 1)
    BY <1>1, CapAssumption
  <2>2. ~(r.size < Cap) /\ i <= Cap - r.head => r.head + i - 1 \in 0..(r.size - 1)
    BY <1>1, CapAssumption
  <2>3. ~(r.size < Cap) /\ ~(i <= Cap - r.head)
          => i - (Cap - r.head) - 1 \in 0..(r.size - 1)
    BY <1>1, CapAssumption
  <2>4. QED
    BY <1>1, <2>1, <2>2, <2>3, Zenon
<1>3. GetAll(r) \in [1..r.size -> S]
  BY <1>2, Zenon DEF GetAll
<1>4. r.size \in Nat
  BY <1>1, CapAssumption
<1>5. QED
  BY <1>3, <1>4

(* A push is what the abstract queue does: the new element comes last, and *)
(* when the buffer is full the oldest one, and only it, is gone.           *)
LEMMA PushIsLatest ==
  ASSUME NEW S, NEW r \in Ring(S), NEW x \in S
  PROVE  GetAll(RingPush(r, x)) = Queue!Latest(GetAll(r), x)
<1> DEFINE a == GetAll(r)
           p == RingPush(r, x)
           b == GetAll(p)
<1>0. \A j \in 0..(Cap - 1) : p.data[j] = IF j = r.head THEN x ELSE r.data[j]
  BY Zenon DEF Ring, RingPush
<1>1. /\ r.head \in 0..(Cap - 1) /\ r.size \in 0..Cap
      /\ r.size < Cap => r.head = r.size
  BY Zenon DEF Ring
<1>2. a \in Seq(S) /\ Len(a) = r.size
  BY GetAllIsSeq, Zenon
<1>3. b \in Seq(S) /\ Len(b) = p.size
  BY GetAllIsSeq, RingPushIsRing, Zenon
<1>4. /\ p.head = IF r.head = Cap - 1 THEN 0 ELSE r.head + 1
      /\ p.size = IF r.size < Cap THEN r.size + 1 ELSE r.size
  BY <1>1, HeadSuccessor, Zenon DEF RingPush
<1>5. \A i \in 1..r.size : a[i] = IF r.size < Cap THEN r.data[i - 1]
                                  ELSE IF i <= Cap - r.head THEN r.data[r.head + i - 1]
                                  ELSE r.data[i - (Cap - r.head) - 1]
  BY Zenon DEF GetAll
<1>6. \A i \in 1..p.size : b[i] = IF p.size < Cap THEN p.data[i - 1]
                                  ELSE IF i <= Cap - p.head THEN p.data[p.head + i - 1]
                                  ELSE p.data[i - (Cap - p.head) - 1]
  BY Zenon DEF GetAll
<1> HIDE DEF a, b, p
<1>7. CASE r.size < Cap
  <2>1. ASSUME NEW i \in 1..(r.size + 1)
        PROVE  b[i] = IF i = r.size + 1 THEN x ELSE a[i]
    <3>1. b[i] = p.data[i - 1]
      BY <1>1, <1>4, <1>6, <1>7, CapAssumption
    <3>2. i - 1 \in 0..(Cap - 1) /\ (i - 1 = r.head <=> i = r.size + 1)
      BY <1>1, <1>7, CapAssumption
    <3>3. i # r.size + 1 => a[i] = r.data[i - 1]
      BY <1>1, <1>5, <1>7, CapAssumption
    <3>4. QED
      BY <1>0, <3>1, <3>2, <3>3, Zenon
  <2>2. b = Append(a, x)
    <3>1. Len(b) = Len(a) + 1
      BY <1>2, <1>3, <1>4, <1>7, Zenon
    <3>2. Append(a, x) \in Seq(S) /\ Len(Append(a, x)) = Len(a) + 1
      BY <1>2
    <3>3. ASSUME NEW i \in 1..Len(b) PROVE b[i] = Append(a, x)[i]
      BY <1>2, <2>1, <3>1
    <3>4. QED
      BY <1>3, <3>1, <3>2, <3>3
  <2>3. QED
    BY <1>1, <1>2, <1>7, <2>2, CapAssumption DEF Queue!Latest, a, b, p
<1>8. CASE r.size = Cap
  <2>1. ASSUME NEW i \in 1..Cap
        PROVE  b[i] = IF i = Cap THEN x ELSE a[i + 1]
    <3>1. CASE r.head = Cap - 1
      <4>1. b[i] = p.data[i - 1]
        BY <1>1, <1>4, <1>6, <1>8, <3>1, CapAssumption
      <4>2. i # Cap => a[i + 1] = r.data[i - 1]
        <5>1. SUFFICES ASSUME i # Cap PROVE a[i + 1] = r.data[i - 1]
          BY Zenon
        <5>2. i + 1 \in 1..r.size /\ ~(r.size < Cap) /\ ~(i + 1 <= Cap - r.head)
          BY <1>1, <1>8, <3>1, <5>1, CapAssumption
        <5>3. (i + 1) - (Cap - r.head) - 1 = i - 1
          BY <3>1, CapAssumption
        <5>4. QED
          BY <1>5, <5>2, <5>3, Zenon
      <4>3. QED
        BY <1>0, <3>1, <4>1, <4>2, CapAssumption
    <3>2. CASE r.head # Cap - 1
      <4>0. /\ p.head = r.head + 1 /\ p.size = Cap
            /\ i \in 1..p.size /\ ~(p.size < Cap)
        BY <1>1, <1>4, <1>8, <3>2, CapAssumption
      <4>1. CASE i <= Cap - r.head - 1
        <5>1. b[i] = p.data[r.head + i]
          <6>1. Cap - p.head = Cap - r.head - 1
            BY <1>1, <4>0, CapAssumption
          <6>2. i <= Cap - p.head
            BY <4>1, <6>1, Zenon
          <6>3. p.head + i - 1 = r.head + i
            BY <1>1, <4>0
          <6>4. QED
            BY <1>6, <4>0, <6>2, <6>3, Zenon
        <5>2. p.data[r.head + i] = r.data[r.head + i]
          BY <1>0, <1>1, <4>1, CapAssumption
        <5>3. i # Cap => a[i + 1] = r.data[r.head + i]
          BY <1>1, <1>5, <1>8, <4>1, CapAssumption
        <5>4. QED
          BY <1>1, <4>1, <5>1, <5>2, <5>3, CapAssumption
      <4>2. CASE ~(i <= Cap - r.head - 1)
        <5>1. b[i] = p.data[i - Cap + r.head]
          <6>1. Cap - p.head = Cap - r.head - 1
            BY <1>1, <4>0, CapAssumption
          <6>2. ~(i <= Cap - p.head)
            BY <4>2, <6>1, Zenon
          <6>3. i - (Cap - p.head) - 1 = i - Cap + r.head
            BY <1>1, <6>1, CapAssumption
          <6>4. QED
            BY <1>6, <4>0, <6>2, <6>3, Zenon
        <5>2. i # Cap => a[i + 1] = r.data[i - Cap + r.head]
          <6>1. SUFFICES ASSUME i # Cap PROVE a[i + 1] = r.data[i - Cap + r.head]
            BY Zenon
          <6>2. i + 1 \in 1..r.size /\ ~(r.size < Cap) /\ ~(i + 1 <= Cap - r.head)
            BY <1>1, <1>8, <4>2, <6>1, CapAssumption
          <6>3. (i + 1) - (Cap - r.head) - 1 = i - Cap + r.head
            BY <1>1, CapAssumption
          <6>4. QED
            BY <1>5, <6>2, <6>3, Zenon
        <5>3. /\ i - Cap + r.head \in 0..(Cap - 1)
              /\ i - Cap + r.head = r.head <=> i = Cap
          BY <1>1, <4>2, CapAssumption
        <5>4. QED
          BY <1>0, <5>1, <5>2, <5>3, Zenon
      <4>3. QED
        BY <4>1, <4>2, Zenon
    <3>3. QED
      BY <3>1, <3>2, Zenon
  <2>2. b = Append(Tail(a), x)
    BY <1>1, <1>2, <1>3, <1>4, <1>8, <2>1, CapAssumption
  <2>3. QED
    BY <1>2, <1>8, <2>2, Zenon DEF Queue!Latest, a, b, p
<1>9. QED
  BY <1>1, <1>7, <1>8, CapAssumption

-----------------------------------------------------------------------------
(* Batches. *)

(* A batch and what follows it are the events they were made from, in      *)
(* order (the loop at consumer.go:379).                                    *)
LEMMA BatchSplits ==
  ASSUME NEW S, NEW events \in Seq(S), NextBatch(events)
  PROVE  /\ batch' \in Seq(S) /\ rest' \in Seq(S)
         /\ batch' \o rest' = events
<1> DEFINE k == BatchEnd(events)
<1>1. k \in 0..Len(events)
  BY PipelineAssumption DEF BatchEnd
<1>2. batch' = SubSeq(events, 1, k) /\ rest' = SubSeq(events, k + 1, Len(events))
  BY Zenon DEF NextBatch
<1> HIDE DEF k
<1>3. \A i \in 1..Len(events) : events[i] \in S
  OBVIOUS
<1>4. batch' \in Seq(S)
  BY <1>1, <1>2, <1>3, SubSeqProperties
<1>5. rest' \in Seq(S)
  BY <1>1, <1>2, <1>3, SubSeqProperties
<1>6. 1 \in 1..(Len(events) + 1) /\ k \in (1 - 1)..Len(events) /\ Len(events) \in k..Len(events)
  BY <1>1
<1>7. SubSeq(events, 1, k) \o SubSeq(events, k + 1, Len(events)) = SubSeq(events, 1, Len(events))
  BY <1>6, ConcatAdjacentSubSeq, Zenon
<1>8. QED
  BY <1>2, <1>4, <1>5, <1>7, SubSeqFull, Zenon

-----------------------------------------------------------------------------
(* Types. *)

(* The initial state has its type. *)
LEMMA InitTypeOK == Init => TypeOK
<1> SUFFICES ASSUME Init PROVE TypeOK
  BY Zenon
<1>1. ring \in Ring(1..MaxEvents)
  BY RingNewIsRing, Zenon DEF Init
<1>2. npush \in 0..MaxEvents /\ atCancel \in 0..npush /\ dropped \in Nat
  BY PipelineAssumption DEF Init
<1>3. /\ batch \in Seq(1..MaxEvents) /\ rest \in Seq(1..MaxEvents)
      /\ taken \in Seq(1..MaxEvents) /\ handled \in Seq(1..MaxEvents)
  BY DEF Init
<1>4. pub \in [Publishers -> {"idle", "len", "push", "notify"}]
  BY Zenon DEF Init
<1>5. QED
  BY <1>1, <1>2, <1>3, <1>4, Zenon DEF Init, TypeOK

(* Every step keeps the types; for Push and Drain this is what the lemmas  *)
(* about the ring buffer and the batches say.                              *)
LEMMA NextTypeOK == TypeOK /\ [Next]_vars => TypeOK'
<1> SUFFICES ASSUME TypeOK, [Next]_vars PROVE TypeOK'
  BY Zenon
<1>1. CASE CtxCancel
  BY <1>1, PipelineAssumption DEF CtxCancel, TypeOK, routerVars, bufVars, pubVars, consVars
<1>2. CASE RegisterConsumer \/ UnregisterConsumer \/ RouterStops
  BY <1>2, ZenonT(30) DEF RegisterConsumer, UnregisterConsumer, RouterStops, TypeOK,
              ctxVars, bufVars, pubVars, consVars
<1>3. ASSUME NEW p \in Publishers, Publish(p) \/ CheckLen(p) \/ Notify(p)
      PROVE  TypeOK'
  <2>1. UNCHANGED <<ctxVars, routerVars, bufVars, consVars>>
    BY <1>3, Zenon DEF Publish, CheckLen, Notify
  <2>2. pub' \in [Publishers -> {"idle", "len", "push", "notify"}]
    BY <1>3, Zenon DEF Publish, CheckLen, Notify, TypeOK
  <2>3. notify' \in BOOLEAN
    BY <1>3, Zenon DEF Publish, CheckLen, Notify, TypeOK
  <2>4. dropped' = dropped \/ dropped' = dropped + 1
    BY <1>3, Zenon DEF Publish, CheckLen, Notify
  <2>5. dropped' \in Nat
    BY <2>4 DEF TypeOK
  <2>6. QED
    BY <2>1, <2>2, <2>3, <2>5, Zenon DEF TypeOK, ctxVars, routerVars, bufVars, consVars
<1>4. ASSUME NEW p \in Publishers, Push(p) PROVE TypeOK'
  <2>1. npush + 1 \in 1..MaxEvents
    BY <1>4, PipelineAssumption DEF Push, TypeOK
  <2>2. ring' \in Ring(1..MaxEvents)
    BY <1>4, <2>1, RingPushIsRing, Zenon DEF Push, TypeOK
  <2>3. npush' \in 0..MaxEvents /\ atCancel' \in 0..npush'
    BY <1>4, <2>1, PipelineAssumption DEF Push, TypeOK, ctxVars
  <2>4. pub' \in [Publishers -> {"idle", "len", "push", "notify"}]
    BY <1>4, Zenon DEF Push, TypeOK
  <2>5. QED
    BY <1>4, <2>2, <2>3, <2>4, Zenon DEF Push, TypeOK, ctxVars, routerVars, consVars
<1>5. CASE Notified \/ TickerFires \/ ContextDone
  BY <1>5, Zenon DEF Notified, TickerFires, ContextDone, TypeOK, ctxVars, routerVars, bufVars, pubVars
<1>6. CASE Drain
  <2>1. GetAll(ring) \in Seq(1..MaxEvents)
    BY GetAllIsSeq, Zenon DEF TypeOK
  <2>2. batch' \in Seq(1..MaxEvents) /\ rest' \in Seq(1..MaxEvents)
    BY <1>6, <2>1, BatchSplits, Zenon DEF Drain
  <2>3. taken' \in Seq(1..MaxEvents)
    BY <1>6, <2>1 DEF Drain, TypeOK
  <2>4. ring' \in Ring(1..MaxEvents)
    BY <1>6, RingNewIsRing, Zenon DEF Drain, TypeOK, RingClear
  <2>5. QED
    BY <1>6, <2>2, <2>3, <2>4, Zenon DEF Drain, TypeOK, ctxVars, routerVars, pubVars
<1>7. CASE ProcessEvent
  <2>1. Head(batch) \in 1..MaxEvents /\ Tail(batch) \in Seq(1..MaxEvents)
    BY <1>7, HeadTailProperties, Zenon DEF ProcessEvent, TypeOK
  <2>2. Append(handled, Head(batch)) \in Seq(1..MaxEvents)
    BY <2>1 DEF TypeOK
  <2>3. QED
    BY <1>7, <2>1, <2>2, Zenon DEF ProcessEvent, TypeOK, ctxVars, routerVars, bufVars, pubVars
<1>8. CASE ProcessNextBatch
  <2>1. batch' \in Seq(1..MaxEvents) /\ rest' \in Seq(1..MaxEvents)
    BY <1>8, BatchSplits, Zenon DEF ProcessNextBatch, TypeOK
  <2>2. QED
    BY <1>8, <2>1, Zenon DEF ProcessNextBatch, TypeOK, ctxVars, routerVars, bufVars, pubVars
<1>9. CASE ProcessEnds \/ ProcessPanics
  BY <1>9, Zenon DEF ProcessEnds, ProcessPanics, TypeOK, ctxVars, routerVars, bufVars, pubVars
<1>10. CASE UNCHANGED vars
  BY <1>10 DEF vars, TypeOK, ctxVars, routerVars, bufVars, pubVars, consVars
<1>11. QED
  BY <1>1, <1>2, <1>3, <1>4, <1>5, <1>6, <1>7, <1>8, <1>9, <1>10, Zenon
     DEF Next, PublisherNext, ConsumerNext

(* The buffer stays within its capacity, and the other parts of the state  *)
(* have their types, whatever the interleaving (buffer.go:42, 60).         *)
THEOREM TypeCorrect == Spec => []TypeOK
BY InitTypeOK, NextTypeOK, PTL DEF Spec

-----------------------------------------------------------------------------
(* The buffer is a queue. *)

(* An empty buffer has no elements. *)
LEMMA GetAllEmpty == ASSUME NEW r, r.size = 0 PROVE GetAll(r) = <<>>
BY DEF GetAll

(* What Drain leaves is empty (buffer.go:64, 69). *)
LEMMA DrainEmpties == Drain => ring'.size = 0
BY DEF Drain, RingClear, RingNew

(* The steps that change the buffer or what was drained are Push, which is *)
(* a push of the queue, and Drain, which is its drain.                     *)
LEMMA QueueStep ==
  TypeOK /\ [Next]_vars => [Queue!Next]_<<GetAll(ring), taken>>
<1> SUFFICES ASSUME TypeOK, [Next]_vars
             PROVE  Queue!Next \/ UNCHANGED <<GetAll(ring), taken>>
  BY Zenon
<1>1. ASSUME NEW p \in Publishers, Push(p) PROVE Queue!Next
  <2>1. npush + 1 \in 1..MaxEvents
    BY <1>1, PipelineAssumption DEF Push, TypeOK
  <2>2. GetAll(ring)' = GetAll(ring')
    BY Zenon DEF GetAll
  <2>3. GetAll(ring') = Queue!Latest(GetAll(ring), npush + 1)
    BY <1>1, <2>1, PushIsLatest, Zenon DEF Push, TypeOK
  <2>4. Queue!Push(npush + 1)
    BY <1>1, <2>2, <2>3, Zenon DEF Push, Queue!Push
  <2>5. QED
    BY <2>1, <2>4, Zenon DEF Queue!Next
<1>2. CASE Drain
  <2>1. GetAll(ring)' = <<>>
    BY <1>2, DrainEmpties, GetAllEmpty, Zenon DEF GetAll
  <2>2. QED
    BY <1>2, <2>1, Zenon DEF Drain, Queue!Drain, Queue!Next
<1>3. CASE UNCHANGED <<ring, taken>>
  BY <1>3, Zenon DEF GetAll
<1>4. (\E p \in Publishers : Push(p)) \/ Drain \/ UNCHANGED <<ring, taken>>
  BY Zenon DEF Next, PublisherNext, ConsumerNext, CtxCancel, RegisterConsumer, UnregisterConsumer,
         RouterStops, Publish, CheckLen, Notify, Notified, TickerFires, ContextDone,
         ProcessEvent, ProcessNextBatch, ProcessEnds, ProcessPanics, vars, bufVars
<1>5. QED
  BY <1>1, <1>2, <1>3, <1>4, Zenon

(* MetricsBuffer keeps the latest events, in order, and gives each of them *)
(* up once: the pipeline implements EventQueue for every capacity.         *)
THEOREM PipelineImplementsQueue == Spec => ImplementsQueue
<1>1. Init => Queue!Init
  BY GetAllEmpty DEF Init, RingNew, Queue!Init
<1>2. QED
  BY <1>1, QueueStep, TypeCorrect, PTL DEF Spec, ImplementsQueue, Queue!Spec

-----------------------------------------------------------------------------
(* Notifications and the router's lock. *)

(* A publisher that reaches the threshold is on its way to notify, and the *)
(* consumer takes a notification only to drain.                            *)
LEMMA NextNoLostWakeup == TypeOK /\ NoLostWakeup /\ [Next]_vars => NoLostWakeup'
<1> SUFFICES ASSUME TypeOK, NoLostWakeup, [Next]_vars,
                    ring'.size >= ExportBatchSize,
                    \A p \in Publishers : pub'[p] # "notify"
             PROVE  notify' \/ consumer' = "drain"
  BY Zenon DEF NoLostWakeup
<1>1. ASSUME NEW p \in Publishers, Publish(p) \/ CheckLen(p)
      PROVE  notify' \/ consumer' = "drain"
  <2>1. ring' = ring /\ notify' = notify /\ consumer' = consumer
    BY <1>1, Zenon DEF Publish, CheckLen, bufVars, consVars
  <2>2. ASSUME NEW q \in Publishers PROVE pub[q] # "notify"
    BY <1>1, Zenon DEF Publish, CheckLen, TypeOK
  <2>3. QED
    BY <2>1, <2>2, Zenon DEF NoLostWakeup
<1>2. ASSUME NEW p \in Publishers, Push(p) PROVE FALSE
  BY <1>2, Zenon DEF Push, TypeOK
<1>3. ASSUME NEW p \in Publishers, Notify(p) PROVE notify'
  BY <1>3, Zenon DEF Notify
<1>4. CASE Notified \/ TickerFires \/ ContextDone
  BY <1>4, Zenon DEF Notified, TickerFires, ContextDone
<1>5. CASE Drain
  BY <1>5, DrainEmpties, PipelineAssumption
<1>6. CASE ProcessEvent \/ ProcessNextBatch \/ ProcessEnds \/ ProcessPanics
  BY <1>6, Zenon DEF ProcessEvent, ProcessNextBatch, ProcessEnds, ProcessPanics, NoLostWakeup,
              bufVars, pubVars
<1>7. CASE CtxCancel \/ RegisterConsumer \/ UnregisterConsumer \/ RouterStops \/ UNCHANGED vars
  BY <1>7, Zenon DEF CtxCancel, RegisterConsumer, UnregisterConsumer, RouterStops, NoLostWakeup, vars,
              bufVars, pubVars, consVars
<1>8. QED
  BY <1>1, <1>2, <1>3, <1>4, <1>5, <1>6, <1>7, Zenon DEF Next, PublisherNext, ConsumerNext

(* No notification is lost, for any number of publishers (buffer.go:48).   *)
THEOREM WakeupsArrive == Spec => []NoLostWakeup
<1>1. Init => NoLostWakeup
  BY PipelineAssumption DEF Init, RingNew, NoLostWakeup
<1>2. QED
  BY <1>1, NextNoLostWakeup, TypeCorrect, PTL DEF Spec

-----------------------------------------------------------------------------
(* Processing. *)

(* Between two drains nothing is left to process.  BatchesComplete needs   *)
(* it: Drain overwrites what the goroutine was working on.                 *)
EmptyBetweenDrains == healthy /\ consumer # "process" => batch = <<>> /\ rest = <<>>

BatchInv == BatchesComplete /\ EmptyBetweenDrains

(* Processing the first event of a batch moves it to the end of those that *)
(* were processed.                                                         *)
LEMMA MoveHead ==
  ASSUME NEW S, NEW s \in Seq(S), NEW t \in Seq(S), t # <<>>
  PROVE  Append(s, Head(t)) \o Tail(t) = s \o t
<1>1. Head(t) \in S /\ Tail(t) \in Seq(S) /\ Len(Tail(t)) = Len(t) - 1
  BY HeadTailProperties, Zenon
<1>2. Append(s, Head(t)) \in Seq(S) /\ Len(Append(s, Head(t))) = Len(s) + 1
  BY <1>1
<1>3. /\ Append(s, Head(t)) \o Tail(t) \in Seq(S)
      /\ Len(Append(s, Head(t)) \o Tail(t)) = Len(s) + Len(t)
  BY <1>1, <1>2
<1>4. s \o t \in Seq(S) /\ Len(s \o t) = Len(s) + Len(t)
  OBVIOUS
<1>5. ASSUME NEW i \in 1..(Len(s) + Len(t))
      PROVE  (Append(s, Head(t)) \o Tail(t))[i] = (s \o t)[i]
  BY <1>1, <1>2
<1>6. QED
  BY <1>3, <1>4, <1>5

(* Every step keeps the events handled, the batch and the rest together    *)
(* equal to what was drained.                                              *)
LEMMA NextBatchInv == TypeOK /\ BatchInv /\ [Next]_vars => BatchInv'
<1> SUFFICES ASSUME TypeOK, BatchInv, [Next]_vars PROVE BatchInv'
  BY Zenon
<1> DEFINE E == 1..MaxEvents
<1>0. batch \in Seq(E) /\ rest \in Seq(E) /\ taken \in Seq(E) /\ handled \in Seq(E)
  BY Zenon DEF TypeOK
<1> HIDE DEF E
<1>a. \A s, t, u \in Seq(E) : (s \o t) \o u = s \o (t \o u)
  BY ConcatAssociative, SMTT(30)
<1>1. CASE Drain
  <2>1. GetAll(ring) \in Seq(E)
    BY GetAllIsSeq, Zenon DEF TypeOK, E
  <2>2. batch' \in Seq(E) /\ rest' \in Seq(E) /\ batch' \o rest' = GetAll(ring)
    BY <1>1, <2>1, BatchSplits, Zenon DEF Drain
  <2>3. consumer' = "process" /\ healthy' = healthy /\ handled' = handled
        /\ taken' = taken \o GetAll(ring)
    BY <1>1, Zenon DEF Drain
  <2>4. healthy => (handled \o <<>>) \o <<>> = taken
    BY <1>1, Zenon DEF Drain, BatchInv, BatchesComplete, EmptyBetweenDrains
  <2>5. healthy => handled = taken
    BY <1>0, <2>4, ConcatEmptySeq, Zenon
  <2>6. (handled \o batch') \o rest' = handled \o GetAll(ring)
    <3>1. (handled \o batch') \o rest' = handled \o (batch' \o rest')
      BY <1>0, <2>2, <1>a, Zenon
    <3>2. QED
      BY <2>2, <3>1, Zenon
  <2>7. QED
    BY <2>3, <2>5, <2>6, Zenon DEF BatchInv, BatchesComplete, EmptyBetweenDrains
<1>2. CASE ProcessEvent
  <2>1. /\ healthy' = healthy /\ consumer' = "process" /\ taken' = taken /\ rest' = rest
        /\ handled' = Append(handled, Head(batch)) /\ batch' = Tail(batch)
    BY <1>2, Zenon DEF ProcessEvent, bufVars
  <2>2. Append(handled, Head(batch)) \o Tail(batch) = handled \o batch
    BY <1>0, <1>2, MoveHead, Zenon DEF ProcessEvent
  <2>3. QED
    BY <2>1, <2>2, Zenon DEF BatchInv, BatchesComplete, EmptyBetweenDrains
<1>3. CASE ProcessNextBatch
  <2>1. /\ healthy' = healthy /\ consumer' = "process" /\ taken' = taken /\ handled' = handled
        /\ batch = <<>>
    BY <1>3, Zenon DEF ProcessNextBatch, bufVars
  <2>2. batch' \in Seq(E) /\ rest' \in Seq(E) /\ batch' \o rest' = rest
    BY <1>0, <1>3, BatchSplits, Zenon DEF ProcessNextBatch
  <2>3. (handled \o batch') \o rest' = handled \o rest
    <3>1. (handled \o batch') \o rest' = handled \o (batch' \o rest')
      BY <1>0, <2>2, <1>a, ZenonT(30)
    <3>2. QED
      BY <2>2, <3>1, Zenon
  <2>4. (handled \o batch) \o rest = handled \o rest
    BY <1>0, <2>1, ConcatEmptySeq, Zenon
  <2>5. QED
    BY <2>1, <2>3, <2>4, Zenon DEF BatchInv, BatchesComplete, EmptyBetweenDrains
<1>4. CASE ProcessEnds \/ ProcessPanics
  BY <1>4 DEF ProcessEnds, ProcessPanics, BatchInv, BatchesComplete, EmptyBetweenDrains, bufVars
<1>5. CASE Notified \/ TickerFires \/ ContextDone
  BY <1>5 DEF Notified, TickerFires, ContextDone, BatchInv, BatchesComplete,
              EmptyBetweenDrains, bufVars
<1>6. CASE UNCHANGED <<consVars, taken>>
  BY <1>6, Zenon DEF BatchInv, BatchesComplete, EmptyBetweenDrains, consVars
<1>7. \/ CtxCancel \/ RegisterConsumer \/ UnregisterConsumer \/ RouterStops
      \/ \E p \in Publishers : Publish(p) \/ PublisherNext(p)
      \/ UNCHANGED vars
      => UNCHANGED <<consVars, taken>>
  BY Zenon DEF CtxCancel, RegisterConsumer, UnregisterConsumer, RouterStops, Publish, PublisherNext,
         CheckLen, Push, Notify, vars, bufVars
<1>8. QED
  BY <1>1, <1>2, <1>3, <1>4, <1>5, <1>6, <1>7, Zenon DEF Next, ConsumerNext

(* As long as processing does not panic, every event drained is processed, *)
(* once and in order, for every batch size (consumer.go:374).              *)
THEOREM BatchesAreComplete == Spec => []BatchesComplete
<1>1. Init => BatchInv
  BY ConcatEmptySeq DEF Init, BatchInv, BatchesComplete, EmptyBetweenDrains
<1>2. BatchInv => BatchesComplete
  BY Zenon DEF BatchInv
<1>3. QED
  BY <1>1, <1>2, NextBatchInv, TypeCorrect, PTL DEF Spec

-----------------------------------------------------------------------------
(* The last drain. *)

(* Every event in the buffer was published after the context was done. *)
OnlyLate == \A i \in 1..ring.size : GetAll(ring)[i] > atCancel

(* After the drain that the done context causes, only later events are in  *)
(* the buffer; FinalDrain says so only once the goroutine has stopped.     *)
LastDrainInv ==
  /\ cause = "done" => ctxDone
  /\ consumer = "stopped" /\ healthy => cause = "done"
  /\ cause = "done" /\ consumer \in {"process", "stopped"} => OnlyLate

(* A push after the context was done adds an event that is late itself.    *)
LEMMA PushOnlyLate ==
  ASSUME TypeOK, OnlyLate, NEW p \in Publishers, Push(p)
  PROVE  OnlyLate'
<1> DEFINE a == GetAll(ring)
           b == GetAll(ring')
<1>1. npush + 1 \in 1..MaxEvents /\ npush + 1 > atCancel /\ atCancel' = atCancel
  BY PipelineAssumption DEF Push, TypeOK, ctxVars
<1>2. a \in Seq(1..MaxEvents) /\ Len(a) = ring.size
  BY GetAllIsSeq, Zenon DEF TypeOK
<1>3. b = Queue!Latest(a, npush + 1)
  BY <1>1, PushIsLatest, Zenon DEF Push, TypeOK
<1>4. ring' \in Ring(1..MaxEvents)
  BY <1>1, RingPushIsRing, Zenon DEF Push, TypeOK
<1>5. Len(b) = ring'.size
  BY <1>4, GetAllIsSeq, Zenon
<1>6. \A i \in 1..Len(a) : a[i] > atCancel
  BY <1>2, Zenon DEF OnlyLate
<1>7. OnlyLate' <=> \A i \in 1..ring'.size : b[i] > atCancel'
  BY Zenon DEF OnlyLate, GetAll
<1> HIDE DEF a, b
<1>8. CASE Len(a) = Cap
  <2>1. b = Append(Tail(a), npush + 1) /\ a # <<>>
    BY <1>2, <1>3, <1>8, CapAssumption, Zenon DEF Queue!Latest
  <2>2. ASSUME NEW i \in 1..Len(b) PROVE b[i] > atCancel
    BY <1>1, <1>2, <1>6, <2>1
  <2>3. QED
    BY <1>1, <1>5, <1>7, <2>2, Zenon
<1>9. CASE Len(a) # Cap
  <2>1. b = Append(a, npush + 1)
    BY <1>3, <1>9, Zenon DEF Queue!Latest
  <2>2. ASSUME NEW i \in 1..Len(b) PROVE b[i] > atCancel
    BY <1>1, <1>2, <1>6, <2>1
  <2>3. QED
    BY <1>1, <1>5, <1>7, <2>2, Zenon
<1>10. QED
  BY <1>8, <1>9, Zenon

(* Every step keeps LastDrainInv. *)
LEMMA NextLastDrainInv == TypeOK /\ LastDrainInv /\ [Next]_vars => LastDrainInv'
<1> SUFFICES ASSUME TypeOK, LastDrainInv, [Next]_vars PROVE LastDrainInv'
  BY Zenon
<1>1. CASE CtxCancel
  BY <1>1, Zenon DEF CtxCancel, LastDrainInv, consVars
<1>2. ASSUME NEW p \in Publishers, Push(p) PROVE LastDrainInv'
  BY <1>2, PushOnlyLate, Zenon DEF Push, LastDrainInv, ctxVars, consVars
<1>3. CASE Notified \/ TickerFires \/ ContextDone
  BY <1>3, Zenon DEF Notified, TickerFires, ContextDone, LastDrainInv, ctxVars
<1>4. CASE Drain
  <2>1. OnlyLate'
    BY <1>4, DrainEmpties DEF OnlyLate
  <2>2. QED
    BY <1>4, <2>1, Zenon DEF Drain, LastDrainInv, ctxVars
<1>5. CASE ProcessEvent \/ ProcessNextBatch \/ ProcessEnds \/ ProcessPanics
  <2>1. OnlyLate' <=> OnlyLate
    BY <1>5, Zenon DEF ProcessEvent, ProcessNextBatch, ProcessEnds, ProcessPanics, OnlyLate, GetAll,
                bufVars, ctxVars
  <2>2. QED
    BY <1>5, <2>1, Zenon DEF ProcessEvent, ProcessNextBatch, ProcessEnds, ProcessPanics,
                      LastDrainInv, ctxVars
<1>6. CASE UNCHANGED <<ctxVars, ring, consVars>>
  <2>1. OnlyLate' <=> OnlyLate
    BY <1>6, Zenon DEF OnlyLate, GetAll, ctxVars
  <2>2. QED
    BY <1>6, <2>1, Zenon DEF LastDrainInv, ctxVars, consVars
<1>7. \/ RegisterConsumer \/ UnregisterConsumer \/ RouterStops
      \/ \E p \in Publishers : Publish(p) \/ CheckLen(p) \/ Notify(p)
      \/ UNCHANGED vars
      => UNCHANGED <<ctxVars, ring, consVars>>
  BY Zenon DEF RegisterConsumer, UnregisterConsumer, RouterStops, Publish, CheckLen, Notify,
         vars, bufVars
<1>8. QED
  BY <1>1, <1>2, <1>3, <1>4, <1>5, <1>6, <1>7, Zenon DEF Next, PublisherNext, ConsumerNext

(* A consumer stopped by its context leaves no event behind that was       *)
(* published before the context was done (consumer.go:395).                *)
THEOREM FinalDrainIsComplete == Spec => []FinalDrain
<1>1. Init => LastDrainInv
  BY Zenon DEF Init, LastDrainInv
<1>2. LastDrainInv => FinalDrain
  BY Zenon DEF LastDrainInv, FinalDrain, OnlyLate
<1>3. QED
  BY <1>1, <1>2, NextLastDrainInv, TypeCorrect, PTL DEF Spec

-----------------------------------------------------------------------------
(* The count of dropped events. *)

Lost == npush - Len(taken) - ring.size

(* A publisher that found the buffer full, and pushes while it still is,   *)
(* has counted the event it is about to overwrite.                         *)
DropInv ==
  /\ Lost <= dropped
  /\ \A p \in Publishers : pub[p] = "push" /\ ring.size = Cap => Lost < dropped

(* Every step keeps DropInv, if there is one publisher: a second one could *)
(* fill the buffer after the first has looked at its length.               *)
LEMMA NextDropInv ==
  ASSUME NEW p, Publishers = {p}
  PROVE  TypeOK /\ DropInv /\ [Next]_vars => DropInv'
<1> SUFFICES ASSUME TypeOK, DropInv, [Next]_vars PROVE DropInv'
  BY Zenon
<1>0. /\ ring.size \in 0..Cap /\ Len(taken) \in Nat /\ npush \in Nat /\ dropped \in Nat
      /\ pub \in [Publishers -> {"idle", "len", "push", "notify"}]
  BY PipelineAssumption DEF TypeOK, Ring
<1>1. CASE Publish(p) \/ Notify(p)
  BY <1>0, <1>1, Zenon DEF Publish, Notify, DropInv, Lost, bufVars
<1>2. CASE CheckLen(p)
  BY <1>0, <1>2, CapAssumption DEF CheckLen, DropInv, Lost, bufVars
<1>3. CASE Push(p)
  <2>1. /\ ring'.size = IF ring.size < Cap THEN ring.size + 1 ELSE ring.size
        /\ npush' = npush + 1 /\ taken' = taken /\ dropped' = dropped
        /\ pub[p] = "push" /\ pub'[p] # "push"
    BY <1>0, <1>3, Zenon DEF Push, RingPush
  <2>2. QED
    BY <1>0, <2>1, CapAssumption DEF DropInv, Lost
<1>4. CASE Drain
  <2>1. GetAll(ring) \in Seq(1..MaxEvents) /\ Len(GetAll(ring)) = ring.size
    BY GetAllIsSeq, Zenon DEF TypeOK
  <2>2. Len(taken') = Len(taken) + ring.size
    <3>1. taken' = taken \o GetAll(ring) /\ taken \in Seq(1..MaxEvents)
      BY <1>4, Zenon DEF Drain, TypeOK
    <3>2. \A s, t \in Seq(1..MaxEvents) : Len(s \o t) = Len(s) + Len(t)
      OBVIOUS
    <3>3. Len(taken \o GetAll(ring)) = Len(taken) + Len(GetAll(ring))
      BY <2>1, <3>1, <3>2, Zenon
    <3>4. QED
      BY <2>1, <3>1, <3>3, Zenon
  <2>3. ring'.size = 0 /\ npush' = npush /\ dropped' = dropped /\ pub' = pub
    BY <1>4, DrainEmpties, Zenon DEF Drain, pubVars
  <2>4. QED
    BY <1>0, <2>2, <2>3, CapAssumption DEF DropInv, Lost
<1>5. CASE UNCHANGED <<bufVars, dropped, pub>>
  BY <1>5, Zenon DEF DropInv, Lost, bufVars
<1>6. \/ CtxCancel \/ RegisterConsumer \/ UnregisterConsumer \/ RouterStops
      \/ Notified \/ TickerFires \/ ContextDone
      \/ ProcessEvent \/ ProcessNextBatch \/ ProcessEnds \/ ProcessPanics
      \/ UNCHANGED vars
      => UNCHANGED <<bufVars, dropped, pub>>
  BY Zenon DEF CtxCancel, RegisterConsumer, UnregisterConsumer, RouterStops, Notified, TickerFires,
         ContextDone, ProcessEvent, ProcessNextBatch, ProcessEnds, ProcessPanics, vars, pubVars
<1>7. QED
  BY <1>1, <1>2, <1>3, <1>4, <1>5, <1>6, Zenon DEF Next, PublisherNext, ConsumerNext

(* With one publisher, the agent's event collector, no event is lost that  *)
(* eventsDropped does not count (consumer.go:267).                         *)
THEOREM DropsAreCounted ==
  ASSUME NEW p, Publishers = {p}
  PROVE  Spec => []DropsCounted
<1>1. Init => DropInv
  BY CapAssumption DEF Init, RingNew, DropInv, Lost
<1>2. DropInv => DropsCounted
  BY Zenon DEF DropInv, Lost, DropsCounted
<1>3. TypeOK /\ DropInv /\ [Next]_vars => DropInv'
  BY NextDropInv, Zenon
<1>4. QED
  BY <1>1, <1>2, <1>3, TypeCorrect, PTL DEF Spec

=============================================================================
