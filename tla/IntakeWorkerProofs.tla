------------------------ MODULE IntakeWorkerProofs ------------------------
(***************************************************************************)
(* Proofs about the intake worker, for every batch size and number of      *)
(* events, heartbeats and failures.                                        *)
(***************************************************************************)
EXTENDS IntakeWorker, SequenceTheorems, TLAPS

(* Appending adds the element and nothing else. *)
LEMMA RangeAppend ==
  ASSUME NEW S, NEW s \in Seq(S), NEW x \in S
  PROVE  Range(Append(s, x)) = Range(s) \cup {x}
<1>1. Append(s, x) \in Seq(S) /\ Len(Append(s, x)) = Len(s) + 1
  BY AppendProperties
<1>2. Range(Append(s, x)) = {Append(s, x)[i] : i \in 1..(Len(s) + 1)}
  BY <1>1, RangeEquality, Zenon
<1>3. Range(s) = {s[i] : i \in 1..Len(s)}
  BY RangeEquality
<1>4. /\ \A i \in 1..Len(s) : Append(s, x)[i] = s[i]
      /\ Append(s, x)[Len(s) + 1] = x
  BY AppendProperties
<1>5. \A i \in 1..(Len(s) + 1) : i \in 1..Len(s) \/ i = Len(s) + 1
  OBVIOUS
<1>6. \A i \in 1..Len(s) : i \in 1..(Len(s) + 1)
  OBVIOUS
<1>7. Len(s) + 1 \in 1..(Len(s) + 1)
  OBVIOUS
<1>8. QED
  BY <1>2, <1>3, <1>4, <1>5, <1>6, <1>7

(* A sequence has the elements of its head and of its tail. *)
LEMMA RangeHeadTail ==
  ASSUME NEW S, NEW s \in Seq(S), s # <<>>
  PROVE  Range(s) = {Head(s)} \cup Range(Tail(s))
<1>1. /\ Tail(s) \in Seq(S) /\ Len(Tail(s)) = Len(s) - 1 /\ Head(s) = s[1]
      /\ \A i \in 1..(Len(s) - 1) : Tail(s)[i] = s[i + 1]
      /\ Len(s) \in Nat \ {0}
  BY HeadTailProperties
<1>2. Range(Tail(s)) = {Tail(s)[i] : i \in 1..(Len(s) - 1)}
  BY <1>1, RangeEquality, ZenonT(30)
<1>3. Range(s) = {s[i] : i \in 1..Len(s)}
  BY RangeEquality
<1>4. ASSUME NEW y \in Range(s) PROVE y = Head(s) \/ y \in Range(Tail(s))
  <2>1. PICK i \in 1..Len(s) : y = s[i]
    BY <1>3
  <2>2. CASE i = 1
    BY <1>1, <2>1, <2>2
  <2>3. CASE i # 1
    <3>1. i - 1 \in 1..(Len(s) - 1) /\ (i - 1) + 1 = i
      BY <2>3
    <3>2. Tail(s)[i - 1] = s[i]
      BY <1>1, <3>1
    <3>3. QED
      BY <1>2, <2>1, <3>1, <3>2, Zenon
  <2>4. QED
    BY <2>2, <2>3
<1>5. ASSUME NEW y \in Range(Tail(s)) PROVE y \in Range(s)
  <2>1. PICK i \in 1..(Len(s) - 1) : y = Tail(s)[i]
    BY <1>2
  <2>2. i + 1 \in 1..Len(s) /\ y = s[i + 1]
    BY <1>1, <2>1
  <2>3. QED
    BY <1>3, <2>2
<1>6. Head(s) \in Range(s)
  BY <1>1, <1>3
<1>7. QED
  BY <1>4, <1>5, <1>6

-----------------------------------------------------------------------------
(* Types. *)

(* The store closes the channel only when the context is done, and the     *)
(* queue shuts down only when the channel is closed.                       *)
ShutdownOrder ==
  /\ chanClosed => ctxDone
  /\ main \in {"shutdown", "drain", "wait", "done"} => chanClosed
  /\ shuttingDown => main \in {"drain", "wait", "done"}

TypeInv == TypeOK /\ ShutdownOrder

(* A step of the queue or of flushBatch keeps the types of the queue. *)
LEMMA QueueTypes ==
  ASSUME TypeOK, NEW b \in Batches
  PROVE  /\ AddFirst(b) => fresh' \in Seq(Batches)
         /\ AddAgain(b) => again' \subseteq Batches
         /\ AddReady(b) => ready' \in Seq(Batches)
<1> DEFINE B == Batches
<1>1. fresh \in Seq(B) /\ ready \in Seq(B) /\ again \subseteq B /\ b \in B
  BY DEF TypeOK
<1> HIDE DEF B
<1>2. Append(fresh, b) \in Seq(B) /\ Append(ready, b) \in Seq(B)
  BY <1>1
<1>3. QED
  BY <1>1, <1>2, Zenon DEF AddFirst, AddAgain, AddReady, B

(* flushBatch leaves an empty batch, and a queue of batches. *)
LEMMA FlushTypes ==
  ASSUME TypeOK, FlushBatch
  PROVE  batch' = <<>> /\ fresh' \in Seq(Batches)
<1>1. batch \in Batches
  BY DEF TypeOK
<1>2. CASE batch = <<>>
  BY <1>2 DEF FlushBatch, TypeOK
<1>3. CASE batch # <<>>
  BY <1>1, <1>3, QueueTypes DEF FlushBatch
<1>4. QED
  BY <1>2, <1>3

(* Taking the first element leaves a sequence. *)
LEMMA TakeHead ==
  ASSUME NEW s \in Seq(Batches), s # <<>>
  PROVE  Head(s) \in Batches /\ Tail(s) \in Seq(Batches)
<1> DEFINE B == Batches
<1>1. s \in Seq(B)
  OBVIOUS
<1> HIDE DEF B
<1>2. Head(s) \in B /\ Tail(s) \in Seq(B)
  BY <1>1, HeadTailProperties
<1>3. QED
  BY <1>2 DEF B

(* Appending a batch yields a sequence of batches. *)
LEMMA PutLast ==
  ASSUME NEW s \in Seq(Batches), NEW b \in Batches
  PROVE  Append(s, b) \in Seq(Batches)
<1> DEFINE B == Batches
<1> HIDE DEF B
<1>1. \A t \in Seq(B), c \in B : Append(t, c) \in Seq(B)
  OBVIOUS
<1>2. QED
  BY <1>1 DEF B

(* Deltas are numbers. *)
LEMMA BatchesAreIntegers == Batches \subseteq Seq(Int)
<1> DEFINE D == -MaxBeats..MaxEvents
<1>1. D \subseteq Int
  BY IntakeAssumption
<1> HIDE DEF D
<1>2. ASSUME NEW s \in Seq(D) PROVE s \in Seq(Int)
  <2>1. Len(s) \in Nat /\ s \in [1..Len(s) -> D]
    OBVIOUS
  <2>2. \A i \in 1..Len(s) : s[i] \in Int
    BY <1>1, <2>1, Zenon
  <2>3. s \in [1..Len(s) -> Int]
    BY <2>1, <2>2
  <2>4. QED
    BY <2>1, <2>3
<1>3. QED
  BY <1>2 DEF Batches, D

(* No batch is None. *)
LEMMA BatchNotNone == None \notin Batches
BY BatchesAreIntegers, IntakeAssumption

(* What heartbeatWorker adds is a batch. *)
LEMMA HeartbeatIsBatch ==
  ASSUME TypeOK, nbeats < MaxBeats
  PROVE  <<-(nbeats + 1)>> \in Batches
<1>1. -(nbeats + 1) \in -MaxBeats..MaxEvents
  BY IntakeAssumption DEF TypeOK
<1>2. QED
  BY <1>1 DEF Batches

(* The initial state has its type. *)
LEMMA InitTypeInv == Init => TypeInv
<1> SUFFICES ASSUME Init PROVE TypeInv
  OBVIOUS
<1>1. /\ batch \in Batches /\ Len(batch) = 0 /\ fresh \in Seq(Batches) /\ ready \in Seq(Batches)
      /\ wire \in Seq(Batches) /\ arrived \in Seq(Batches)
  BY DEF Init, Batches
<1>2. nevents \in 0..MaxEvents /\ nbeats \in 0..MaxBeats /\ nbreaks \in 0..MaxBreaks
  BY IntakeAssumption DEF Init
<1>3. Len(batch) <= MaxBatchSize /\ Len(batch) < MaxBatchSize
  BY <1>1, IntakeAssumption
<1>4. QED
  BY <1>1, <1>2, <1>3, Zenon DEF Init, TypeInv, TypeOK, ShutdownOrder

(* Every step keeps the types and the order of the shutdown. *)
LEMMA NextTypeInv == TypeInv /\ [Next]_vars => TypeInv'
<1> SUFFICES ASSUME TypeInv, [Next]_vars PROVE TypeInv'
  OBVIOUS
<1> USE DEF TypeInv
<1>0. CASE CtxCancel
  BY <1>0 DEF CtxCancel, TypeOK, ShutdownOrder, batchVars, queueVars, streamVars, pcVars
<1>1. CASE StoreCloses
  BY <1>1 DEF StoreCloses, TypeOK, ShutdownOrder, batchVars, queueVars, streamVars, pcVars
<1>2. CASE Arrive
  <2>1. Head(wire) \in Batches /\ wire' \in Seq(Batches)
    BY <1>2, TakeHead DEF Arrive, TypeOK
  <2>2. arrived' \in Seq(Batches)
    BY <1>2, <2>1, PutLast DEF Arrive, TypeOK
  <2>3. QED
    BY <1>2, <2>1, <2>2 DEF Arrive, TypeOK, ShutdownOrder, envVars, batchVars, queueVars, pcVars
<1>3. CASE StreamBreaks
  <2>1. nbreaks' \in 0..MaxBreaks
    BY <1>3, IntakeAssumption DEF StreamBreaks, TypeOK
  <2>2. wire' \in Seq(Batches)
    BY <1>3 DEF StreamBreaks
  <2>3. QED
    BY <1>3, <2>1, <2>2 DEF StreamBreaks, TypeOK, ShutdownOrder, envVars, batchVars, queueVars,
                            pcVars
<1>4. CASE FreshIsReady
  <2>1. Head(fresh) \in Batches /\ fresh' \in Seq(Batches)
    BY <1>4, TakeHead DEF FreshIsReady, TypeOK
  <2>2. ready' \in Seq(Batches)
    BY <1>4, <2>1, QueueTypes DEF FreshIsReady
  <2>3. QED
    BY <1>4, <2>1, <2>2 DEF FreshIsReady, TypeOK, ShutdownOrder, envVars, batchVars, streamVars,
                            pcVars
<1>5. CASE AgainIsReady
  <2>1. PICK b \in again : AddReady(b) /\ again' = again \ {b}
    BY <1>5 DEF AgainIsReady
  <2>2. ready' \in Seq(Batches)
    BY <2>1, QueueTypes DEF TypeOK
  <2>3. QED
    BY <1>5, <2>1, <2>2 DEF AgainIsReady, TypeOK, ShutdownOrder, envVars, batchVars, streamVars,
                            pcVars
<1>6. CASE ReceiveEvent
  <2>1. nevents' \in 0..MaxEvents /\ nevents + 1 \in -MaxBeats..MaxEvents
    BY <1>6, IntakeAssumption DEF ReceiveEvent, TypeOK
  <2>2. batch' \in Batches /\ Len(batch') = Len(batch) + 1 /\ Len(batch) \in Nat
    BY <1>6, <2>1 DEF ReceiveEvent, TypeOK, Batches
  <2>3. Len(batch') <= MaxBatchSize /\ (main' = "range" => Len(batch') < MaxBatchSize)
    BY <1>6, <2>2, IntakeAssumption DEF ReceiveEvent, TypeOK
  <2>4. QED
    BY <1>6, <2>1, <2>2, <2>3 DEF ReceiveEvent, TypeOK, ShutdownOrder, envVars, queueVars,
                                  streamVars
<1>7. CASE FlushFullBatch \/ FinalFlush \/ TickFlush
  <2>1. batch' = <<>> /\ fresh' \in Seq(Batches)
    BY <1>7, FlushTypes DEF FlushFullBatch, FinalFlush, TickFlush
  <2>2. batch' \in Batches /\ Len(batch') < MaxBatchSize /\ Len(batch') <= MaxBatchSize
    BY <2>1, IntakeAssumption DEF Batches
  <2>3. UNCHANGED <<envVars, nevents, nbeats, again, ready, shuttingDown, streamVars,
                    tickers, streamer, item>>
    BY <1>7 DEF FlushFullBatch, FinalFlush, TickFlush, pcVars
  <2>4. /\ main' \in {"range", "flush", "shutdown", "drain", "wait", "done"}
        /\ main' \in {"shutdown", "drain", "wait", "done"} => chanClosed
        /\ shuttingDown => main' \in {"drain", "wait", "done"}
    BY <1>7 DEF FlushFullBatch, FinalFlush, TickFlush, pcVars, TypeOK, ShutdownOrder
  <2>5. QED
    BY <2>1, <2>2, <2>3, <2>4 DEF TypeOK, ShutdownOrder, envVars, streamVars
<1>8. CASE ShutDownWithDrain \/ Drained \/ StartReturns
  BY <1>8, Zenon DEF ShutDownWithDrain, Drained, StartReturns, TypeOK, ShutdownOrder, envVars,
              batchVars, queueVars, streamVars
<1>9. CASE TickHeartbeat
  <2>1. nbeats' \in 0..MaxBeats
    BY <1>9, IntakeAssumption DEF TickHeartbeat, TypeOK
  <2>2. <<-(nbeats + 1)>> \in Batches
    BY <1>9, HeartbeatIsBatch DEF TickHeartbeat
  <2>3. fresh' \in Seq(Batches)
    BY <1>9, <2>2, QueueTypes DEF TickHeartbeat
  <2>4. QED
    BY <1>9, <2>1, <2>3 DEF TickHeartbeat, TypeOK, ShutdownOrder, envVars, streamVars, pcVars
<1>10. ASSUME NEW t \in tickers, TickerStops(t) PROVE TypeInv'
  BY <1>10 DEF TickerStops, TypeOK, ShutdownOrder, envVars, batchVars, queueVars, streamVars
<1>11. CASE StreamerStops
  <2>1. wire' \in Seq(Batches) /\ arrived' \in Seq(Batches)
    <3> DEFINE B == Batches
    <3>1. wire \in Seq(B) /\ arrived \in Seq(B)
      BY DEF TypeOK
    <3> HIDE DEF B
    <3>2. arrived \o wire \in Seq(B) /\ <<>> \in Seq(B)
      BY <3>1
    <3>3. QED
      BY <1>11, <3>1, <3>2, Zenon DEF StreamerStops, B
  <2>2. QED
    BY <1>11, <2>1 DEF StreamerStops, TypeOK, ShutdownOrder, envVars, batchVars, queueVars
<1>12. CASE StreamerContinues \/ GetShutdown \/ Connect \/ GiveUpConnecting
  <2>1. UNCHANGED <<envVars, batchVars, queueVars, wire, arrived, sent, nbreaks, main, tickers>>
    BY <1>12 DEF StreamerContinues, GetShutdown, Connect, GiveUpConnecting, streamVars
  <2>2. stream' \in {"none", "open", "broken"}
    BY <1>12 DEF StreamerContinues, GetShutdown, Connect, GiveUpConnecting, streamVars, TypeOK
  <2>3. /\ streamer' \in {"loop", "get", "connect", "send", "done"}
        /\ item' \in Batches \cup {None}
        /\ item' # None <=> streamer' \in {"connect", "send"}
    BY <1>12 DEF StreamerContinues, GetShutdown, Connect, GiveUpConnecting, TypeOK
  <2>4. QED
    BY <2>1, <2>2, <2>3 DEF TypeOK, ShutdownOrder, envVars, batchVars, queueVars
<1>13. CASE Get
  <2>1. item' \in Batches /\ ready' \in Seq(Batches)
    BY <1>13, TakeHead DEF Get, TypeOK
  <2>2. QED
    BY <1>13, <2>1, BatchNotNone DEF Get, TypeOK, ShutdownOrder, envVars, batchVars, streamVars
<1>14. CASE SendSucceeds
  <2>1. item \in Batches
    BY <1>14 DEF SendSucceeds, TypeOK
  <2>2. wire' \in Seq(Batches)
    BY <1>14, <2>1, PutLast DEF SendSucceeds, TypeOK
  <2>3. Range(item) \subseteq -MaxBeats..MaxEvents
    BY <2>1, RangeOfSeq, Zenon DEF Batches
  <2>4. QED
    BY <1>14, <2>2, <2>3, Zenon DEF SendSucceeds, TypeOK, ShutdownOrder, envVars, batchVars, queueVars
<1>15. CASE SendFails
  <2>1. item \in Batches
    BY <1>15 DEF SendFails, TypeOK
  <2>2. again' \subseteq Batches
    BY <1>15, <2>1, QueueTypes DEF SendFails
  <2>3. QED
    BY <1>15, <2>2 DEF SendFails, TypeOK, ShutdownOrder, envVars, batchVars
<1>16. CASE UNCHANGED vars
  BY <1>16 DEF vars, TypeOK, ShutdownOrder, envVars, batchVars, queueVars, streamVars, pcVars
<1>17. QED
  BY <1>0, <1>1, <1>2, <1>3, <1>4, <1>5, <1>6, <1>7, <1>8, <1>9, <1>10, <1>11, <1>12, <1>13, <1>14,
     <1>15, <1>16
     DEF Next, QueueNext, MainNext, StreamerNext

(* A batch never exceeds maxBatchSize, although another goroutine may      *)
(* flush between the decision and the flush (worker.go:224).               *)
THEOREM TypeCorrect == Spec => []TypeOK
<1>1. TypeInv => TypeOK
  BY DEF TypeInv
<1>2. QED
  BY <1>1, InitTypeInv, NextTypeInv, PTL DEF Spec

-----------------------------------------------------------------------------
(* Nothing is forgotten. *)

(* The deltas that NothingForgotten speaks of. *)
Held == Range(batch) \cup sent \cup UNION {Range(b) : b \in Pending}

(* Every step keeps NothingForgotten: a batch moves from one place to      *)
(* another, and leaves the worker only by being sent.                      *)
LEMMA NextNothingForgotten == TypeInv /\ NothingForgotten /\ [Next]_vars => NothingForgotten'
<1> SUFFICES ASSUME TypeInv, NothingForgotten, [Next]_vars, ~ctxDone'
             PROVE  1..nevents' \subseteq Held'
  BY DEF NothingForgotten, Held
<1>1. ~ctxDone
  BY DEF Next, CtxCancel, StoreCloses, Arrive, StreamBreaks, QueueNext, FreshIsReady,
         AgainIsReady, MainNext, ReceiveEvent, FlushFullBatch, FinalFlush, ShutDownWithDrain,
         Drained, StartReturns, TickFlush, TickHeartbeat, TickerStops, StreamerNext,
         StreamerStops, StreamerContinues, Get, GetShutdown, Connect, GiveUpConnecting,
         SendSucceeds, SendFails, vars, envVars
<1>2. ~shuttingDown /\ 1..nevents \subseteq Held
  BY <1>1 DEF TypeInv, ShutdownOrder, NothingForgotten, Held
<1>3. /\ fresh \in Seq(Batches) /\ ready \in Seq(Batches) /\ item \in Batches \cup {None}
      /\ batch \in Batches
  BY DEF TypeInv, TypeOK
<1>4. CASE UNCHANGED <<batch, nevents, fresh, again, ready, item, sent>>
  BY <1>2, <1>4 DEF Held, Pending
<1>5. CASE FreshIsReady
  <2>1. Range(fresh) = {Head(fresh)} \cup Range(fresh')
    BY <1>3, <1>5, RangeHeadTail DEF FreshIsReady
  <2>2. Head(fresh) \in Batches
    BY <1>3, <1>5, TakeHead DEF FreshIsReady
  <2>3. Range(ready') = Range(ready) \cup {Head(fresh)}
    BY <1>2, <1>3, <1>5, <2>2, RangeAppend DEF FreshIsReady, AddReady
  <2>4. UNCHANGED <<batch, nevents, again, item, sent>>
    BY <1>5 DEF FreshIsReady, batchVars, streamVars, pcVars
  <2>5. Pending' = Pending
    BY <2>1, <2>3, <2>4, Zenon DEF Pending
  <2>6. QED
    BY <1>2, <2>4, <2>5 DEF Held
<1>6. CASE AgainIsReady
  <2>1. PICK b \in again : AddReady(b) /\ again' = again \ {b}
    BY <1>6 DEF AgainIsReady
  <2>2. b \in Batches
    BY DEF TypeInv, TypeOK
  <2>3. Range(ready') = Range(ready) \cup {b}
    BY <1>2, <1>3, <2>1, <2>2, RangeAppend DEF AddReady
  <2>4. UNCHANGED <<batch, nevents, fresh, item, sent>>
    BY <1>6 DEF AgainIsReady, batchVars, streamVars, pcVars
  <2>5. Pending' = Pending
    BY <2>1, <2>3, <2>4 DEF Pending
  <2>6. QED
    BY <1>2, <2>4, <2>5 DEF Held
<1>7. CASE ReceiveEvent
  <2>1. UNCHANGED <<fresh, again, ready, item, sent>>
    BY <1>7 DEF ReceiveEvent, queueVars, streamVars
  <2>2. Range(batch') = Range(batch) \cup {nevents + 1}
    <3>1. batch \in Seq(Int) /\ nevents + 1 \in Int
      BY <1>3, BatchesAreIntegers DEF TypeInv, TypeOK
    <3>2. QED
      BY <1>7, <3>1, RangeAppend DEF ReceiveEvent
  <2>3. Held' = Held \cup {nevents + 1}
    BY <2>1, <2>2, Zenon DEF Held, Pending
  <2>4. 1..nevents' = 1..nevents \cup {nevents + 1}
    BY <1>7 DEF ReceiveEvent, TypeInv, TypeOK
  <2>5. QED
    BY <1>2, <2>3, <2>4
<1>8. CASE FlushFullBatch \/ FinalFlush \/ TickFlush
  <2>1. FlushBatch /\ UNCHANGED <<nevents, again, ready, item, sent>>
    BY <1>8 DEF FlushFullBatch, FinalFlush, TickFlush, streamVars, pcVars
  <2>2. CASE batch = <<>>
    BY <1>2, <2>1, <2>2 DEF FlushBatch, Held, Pending
  <2>3. CASE batch # <<>>
    <3>1. fresh' = Append(fresh, batch)
      BY <1>2, <2>1, <2>3, Zenon DEF FlushBatch, AddFirst
    <3>2. Range(fresh') = Range(fresh) \cup {batch}
      BY <1>3, <3>1, RangeAppend
    <3>3. Pending' = Pending \cup {batch}
      BY <2>1, <3>2, Zenon DEF Pending
    <3>4. Held \subseteq Held'
      BY <2>1, <3>3 DEF Held
    <3>5. QED
      BY <1>2, <2>1, <3>4
  <2>4. QED
    BY <2>2, <2>3
<1>9. CASE TickHeartbeat
  <2>1. UNCHANGED <<batch, nevents, again, ready, item, sent>>
    BY <1>9 DEF TickHeartbeat, streamVars, pcVars
  <2>2. <<-(nbeats + 1)>> \in Batches
    BY <1>9, HeartbeatIsBatch DEF TypeInv, TickHeartbeat
  <2>3. Range(fresh') = Range(fresh) \cup {<<-(nbeats + 1)>>}
    BY <1>2, <1>3, <1>9, <2>2, RangeAppend DEF TickHeartbeat, AddFirst
  <2>4. Pending \subseteq Pending'
    BY <2>1, <2>3, Zenon DEF Pending
  <2>5. Held \subseteq Held'
    BY <2>1, <2>4 DEF Held
  <2>6. QED
    BY <1>2, <2>1, <2>5
<1>10. CASE Get
  <2>1. Range(ready) = {item'} \cup Range(ready')
    BY <1>3, <1>10, RangeHeadTail DEF Get
  <2>2. item' \in Batches /\ item = None
    BY <1>3, <1>10, TakeHead DEF Get, TypeInv, TypeOK
  <2>3. UNCHANGED <<batch, nevents, fresh, again, sent>>
    BY <1>10 DEF Get, batchVars, streamVars
  <2>4. Pending' = Pending
    BY <2>1, <2>2, <2>3, BatchNotNone DEF Pending
  <2>5. QED
    BY <1>2, <2>3, <2>4 DEF Held
<1>11. CASE SendSucceeds
  <2>1. /\ UNCHANGED <<batch, nevents, fresh, again, ready>>
        /\ sent' = sent \cup Range(item) /\ item' = None
    BY <1>11 DEF SendSucceeds, batchVars, queueVars
  <2>2. Pending \subseteq Pending' \cup {item}
    BY <2>1 DEF Pending
  <2>3. Held \subseteq Held'
    BY <2>1, <2>2 DEF Held
  <2>4. QED
    BY <1>2, <2>1, <2>3
<1>12. CASE SendFails
  <2>1. /\ UNCHANGED <<batch, nevents, fresh, ready, sent>>
        /\ again' = again \cup {item} /\ item' = None
    BY <1>2, <1>12 DEF SendFails, AddAgain, batchVars
  <2>2. Pending \subseteq Pending'
    BY <2>1 DEF Pending
  <2>3. Held \subseteq Held'
    BY <2>1, <2>2, SMTT(30) DEF Held
  <2>4. QED
    BY <1>2, <2>1, <2>3
<1>13. \/ CtxCancel \/ StoreCloses \/ Arrive \/ StreamBreaks \/ ShutDownWithDrain \/ Drained
       \/ StartReturns \/ StreamerStops \/ StreamerContinues \/ GetShutdown \/ Connect
       \/ (\E t \in tickers : TickerStops(t)) \/ UNCHANGED vars
       => UNCHANGED <<batch, nevents, fresh, again, ready, item, sent>>
  BY DEF CtxCancel, StoreCloses, Arrive, StreamBreaks, ShutDownWithDrain, Drained, StartReturns,
         StreamerStops, StreamerContinues, GetShutdown, Connect, TickerStops, vars,
         batchVars, queueVars, streamVars, pcVars
<1>14. ~GiveUpConnecting
  BY <1>1 DEF GiveUpConnecting
<1>15. QED
  BY <1>4, <1>5, <1>6, <1>7, <1>8, <1>9, <1>10, <1>11, <1>12, <1>13, <1>14
     DEF Next, QueueNext, MainNext, StreamerNext

(* Until the context is done the worker loses no event, whatever fails and *)
(* however goroutines interleave (worker.go:356).                          *)
THEOREM WorkerForgetsNothing == Spec => []NothingForgotten
<1>1. Init => NothingForgotten
  BY DEF Init, NothingForgotten
<1>2. QED
  BY <1>1, InitTypeInv, NextTypeInv, NextNothingForgotten, PTL DEF Spec

-----------------------------------------------------------------------------
(* Order. *)

Counts == 0..MaxEvents

(* Batch b takes a receiver that has the events up to m to those up to n. *)
EventLink(b, m, n) == m <= n /\ b = [j \in 1..(n - m) |-> m + j]

BeatLink(b, m, n) == m = n /\ Len(b) = 1 /\ b[1] < 0

Link(b, m, n) == EventLink(b, m, n) \/ BeatLink(b, m, n)

(* The same for a queue of batches. *)
Chain(q, m, n) ==
  \E cut \in [0..Len(q) -> Counts] :
    cut[0] = m /\ cut[Len(q)] = n /\ \A i \in 1..Len(q) : Link(q[i], cut[i - 1], cut[i])

(* The batches of q are in order and bring the events up to a. *)
InOrder(q, a) ==
  /\ \A i \in DOMAIN q : \A j \in DOMAIN q[i] :
       q[i][j] > 0 => EventsBefore(q, i, j) = 1..(q[i][j] - 1)
  /\ \A n \in 1..MaxEvents : n <= a <=> \E k \in DOMAIN q : \E l \in DOMAIN q[k] : q[k][l] = n

(* An empty queue leads nowhere. *)
LEMMA ChainEmpty == ASSUME NEW a \in Counts PROVE Chain(<<>>, a, a)
<1> DEFINE cut == [i \in 0..0 |-> a]
<1>1. cut \in [0..0 -> Counts] /\ cut[0] = a
  OBVIOUS
<1> HIDE DEF cut
<1>2. QED
  BY <1>1 DEF Chain

(* An empty queue ends where it began. *)
LEMMA ChainOfNone == ASSUME NEW a, NEW b, Chain(<<>>, a, b) PROVE a = b
BY DEF Chain

(* A batch that continues the queue. *)
LEMMA ChainAppend ==
  ASSUME NEW q \in Seq(Batches), NEW x \in Batches, NEW a, NEW b \in Counts, NEW c \in Counts,
         Chain(q, a, b), Link(x, b, c)
  PROVE  Chain(Append(q, x), a, c)
<1>1. PICK cut \in [0..Len(q) -> Counts] :
        cut[0] = a /\ cut[Len(q)] = b /\ \A i \in 1..Len(q) : Link(q[i], cut[i - 1], cut[i])
  BY DEF Chain
<1> DEFINE cat == [i \in 0..(Len(q) + 1) |-> IF i = Len(q) + 1 THEN c ELSE cut[i]]
<1>2. Len(q) \in Nat /\ Len(Append(q, x)) = Len(q) + 1
  <2> DEFINE B == Batches
  <2> HIDE DEF B
  <2>1. \A t \in Seq(B), e \in B : Len(t) \in Nat /\ Len(Append(t, e)) = Len(t) + 1
    OBVIOUS
  <2>2. QED
    BY <2>1 DEF B
<1>3. /\ \A i \in 1..Len(q) : Append(q, x)[i] = q[i]
      /\ Append(q, x)[Len(q) + 1] = x
  <2> DEFINE B == Batches
  <2> HIDE DEF B
  <2>1. \A t \in Seq(B), e \in B : /\ \A i \in 1..Len(t) : Append(t, e)[i] = t[i]
                                   /\ Append(t, e)[Len(t) + 1] = e
    OBVIOUS
  <2>2. QED
    BY <2>1 DEF B
<1>4. cat \in [0..(Len(q) + 1) -> Counts] /\ cat[0] = a /\ cat[Len(q) + 1] = c
  BY <1>1, <1>2
<1>5. ASSUME NEW i \in 1..(Len(q) + 1) PROVE Link(Append(q, x)[i], cat[i - 1], cat[i])
  <2>1. CASE i = Len(q) + 1
    BY <1>1, <1>2, <1>3, <2>1
  <2>2. CASE i # Len(q) + 1
    <3>1. i \in 1..Len(q) /\ cat[i - 1] = cut[i - 1] /\ cat[i] = cut[i]
      BY <1>2, <2>2
    <3>2. QED
      BY <1>1, <1>3, <3>1
  <2>3. QED
    BY <2>1, <2>2
<1> HIDE DEF cat
<1>6. QED
  BY <1>2, <1>4, <1>5 DEF Chain

(* The first batch of a queue, and the rest. *)
LEMMA ChainTail ==
  ASSUME NEW q \in Seq(Batches), q # <<>>, NEW a, NEW c, Chain(q, a, c)
  PROVE  \E b \in Counts : Link(Head(q), a, b) /\ Chain(Tail(q), b, c)
<1>1. PICK cut \in [0..Len(q) -> Counts] :
        cut[0] = a /\ cut[Len(q)] = c /\ \A i \in 1..Len(q) : Link(q[i], cut[i - 1], cut[i])
  BY DEF Chain
<1>2. /\ Len(q) \in Nat \ {0} /\ Len(Tail(q)) = Len(q) - 1 /\ Head(q) = q[1]
      /\ \A i \in 1..(Len(q) - 1) : Tail(q)[i] = q[i + 1]
  BY HeadTailProperties
<1> DEFINE rest == [i \in 0..(Len(q) - 1) |-> cut[i + 1]]
<1>3. /\ rest \in [0..(Len(q) - 1) -> Counts] /\ rest[0] = cut[1] /\ rest[Len(q) - 1] = c
      /\ cut[1] \in Counts
  BY <1>1, <1>2, SMTT(30)
<1>4. ASSUME NEW i \in 1..(Len(q) - 1) PROVE Link(Tail(q)[i], rest[i - 1], rest[i])
  <2>1. i + 1 \in 1..Len(q) /\ (i + 1) - 1 = i /\ rest[i - 1] = cut[i] /\ rest[i] = cut[i + 1]
    BY <1>2
  <2>2. Link(q[i + 1], cut[(i + 1) - 1], cut[i + 1])
    BY <1>1, <2>1
  <2>3. QED
    BY <1>2, <2>1, <2>2
<1>5. Link(Head(q), a, cut[1])
  <2>1. 1 \in 1..Len(q) /\ 1 - 1 = 0
    BY <1>2
  <2>2. Link(q[1], cut[1 - 1], cut[1])
    BY <1>1, <2>1
  <2>3. QED
    BY <1>1, <1>2, <2>1, <2>2
<1> HIDE DEF rest
<1>6. Chain(Tail(q), cut[1], c)
  BY <1>2, <1>3, <1>4, Zenon DEF Chain
<1>7. QED
  BY <1>3, <1>5, <1>6

(* A batch that continues what was sent keeps it in order. *)
LEMMA InOrderAppend ==
  ASSUME NEW q \in Seq(Batches), NEW x \in Batches, NEW a \in Counts, NEW b \in Counts,
         InOrder(q, a), Link(x, a, b)
  PROVE  InOrder(Append(q, x), b)
<1> DEFINE Q == Append(q, x)
           n0 == Len(q)
<1>1. /\ n0 \in Nat /\ DOMAIN q = 1..n0 /\ DOMAIN Q = 1..(n0 + 1)
      /\ Q[n0 + 1] = x /\ \A i \in 1..n0 : Q[i] = q[i]
  <2> DEFINE B == Batches
  <2> HIDE DEF B
  <2>1. \A t \in Seq(B), e \in B :
          /\ Len(t) \in Nat /\ DOMAIN t = 1..Len(t) /\ DOMAIN Append(t, e) = 1..(Len(t) + 1)
          /\ Append(t, e)[Len(t) + 1] = e /\ \A i \in 1..Len(t) : Append(t, e)[i] = t[i]
    OBVIOUS
  <2>2. QED
    BY <2>1 DEF B
<1>2. a \in Int /\ b \in Int /\ a <= b /\ 0 <= a /\ b <= MaxEvents /\ MaxEvents \in Nat
  BY IntakeAssumption DEF Counts, Link, EventLink, BeatLink
<1>3. EventLink(x, a, b) => DOMAIN x = 1..(b - a) /\ \A l \in 1..(b - a) : x[l] = a + l
  BY DEF EventLink
<1>4. ~EventLink(x, a, b) => a = b /\ DOMAIN x = 1..1 /\ x[1] \in Int /\ x[1] < 0
  <2>1. x \in Seq(Int)
    BY BatchesAreIntegers
  <2>2. QED
    BY <2>1 DEF Link, BeatLink
<1> HIDE DEF Q, n0
<1>5. \A n \in 1..MaxEvents : n <= a <=> \E k \in 1..n0 : \E l \in DOMAIN Q[k] : Q[k][l] = n
  BY <1>1 DEF InOrder
<1>6. ASSUME NEW n \in 1..MaxEvents
      PROVE  n <= b <=> \E k \in DOMAIN Q : \E l \in DOMAIN Q[k] : Q[k][l] = n
  <2>1. (\E k \in DOMAIN Q : \E l \in DOMAIN Q[k] : Q[k][l] = n)
          <=> n <= a \/ \E l \in DOMAIN x : x[l] = n
    BY <1>1, <1>5
  <2>2. CASE EventLink(x, a, b)
    <3>1. ASSUME n <= b, ~(n <= a) PROVE \E l \in DOMAIN x : x[l] = n
      <4>1. n - a \in 1..(b - a) /\ a + (n - a) = n
        BY <1>2, <3>1
      <4>2. x[n - a] = n
        BY <1>3, <2>2, <4>1
      <4>3. QED
        BY <1>3, <2>2, <4>1, <4>2
    <3>2. ASSUME NEW l \in DOMAIN x, x[l] = n PROVE n <= b
      BY <1>2, <1>3, <2>2, <3>2
    <3>3. QED
      BY <1>2, <2>1, <3>1, <3>2
  <2>3. CASE ~EventLink(x, a, b)
    BY <1>4, <2>1, <2>3
  <2>4. QED
    BY <2>2, <2>3
<1>7. ASSUME NEW i \in DOMAIN Q, NEW j \in DOMAIN Q[i], Q[i][j] > 0
      PROVE  EventsBefore(Q, i, j) = 1..(Q[i][j] - 1)
  <2>1. CASE i \in 1..n0
    <3>1. \A k \in 1..i : Q[k] = q[k]
      BY <1>1, <2>1
    <3>2. EventsBefore(Q, i, j) = EventsBefore(q, i, j)
      BY <3>1 DEF EventsBefore
    <3>3. QED
      BY <1>1, <1>7, <2>1, <3>2 DEF InOrder
  <2>2. CASE i = n0 + 1
    <3>1. EventLink(x, a, b)
      BY <1>1, <1>4, <1>7, <2>2
    <3>2. Q[i] = x /\ j \in 1..(b - a) /\ Q[i][j] = a + j
      BY <1>1, <1>3, <2>2, <3>1, Zenon
    <3>3. ASSUME NEW n \in 1..MaxEvents
          PROVE  (\E k \in 1..i : \E l \in DOMAIN Q[k] : Q[k][l] = n /\ (k < i \/ l < j))
                   <=> n <= a \/ \E l \in 1..(b - a) : a + l = n /\ l < j
      <4>1. i \in Int /\ \A k \in 1..i : k = i \/ k \in 1..n0
        BY <1>1, <2>2
      <4>2. i \in 1..i /\ ~(i < i) /\ \A k \in 1..n0 : k \in 1..i /\ k < i
        BY <1>1, <2>2
      <4>3. (\E k \in 1..i : \E l \in DOMAIN Q[k] : Q[k][l] = n /\ (k < i \/ l < j))
              <=> \/ \E k \in 1..n0 : \E l \in DOMAIN Q[k] : Q[k][l] = n
                  \/ \E l \in DOMAIN Q[i] : Q[i][l] = n /\ l < j
        BY <4>1, <4>2, Zenon
      <4>4. (\E l \in DOMAIN Q[i] : Q[i][l] = n /\ l < j)
              <=> \E l \in 1..(b - a) : a + l = n /\ l < j
        BY <1>3, <3>1, <3>2
      <4>5. QED
        BY <1>5, <4>3, <4>4
    <3>4. ASSUME NEW n \in 1..MaxEvents
          PROVE  (n <= a \/ \E l \in 1..(b - a) : a + l = n /\ l < j) <=> n <= a + j - 1
      <4>1. ASSUME n <= a + j - 1, ~(n <= a) PROVE \E l \in 1..(b - a) : a + l = n /\ l < j
        <5>1. n - a \in 1..(b - a) /\ a + (n - a) = n /\ n - a < j
          BY <1>2, <3>2, <4>1
        <5>2. QED
          BY <5>1
      <4>2. ASSUME n <= a PROVE n <= a + j - 1
        BY <1>2, <3>2, <4>2
      <4>3. ASSUME NEW l \in 1..(b - a), a + l = n, l < j PROVE n <= a + j - 1
        BY <1>2, <3>2, <4>3
      <4>4. QED
        BY <4>1, <4>2, <4>3
    <3>5. a + j - 1 <= MaxEvents
      BY <1>2, <3>2
    <3>6. EventsBefore(Q, i, j) = {n \in 1..MaxEvents : n <= a + j - 1}
      BY <3>3, <3>4 DEF EventsBefore
    <3>7. QED
      BY <1>2, <3>2, <3>5, <3>6
  <2>3. QED
    BY <1>1, <2>1, <2>2
<1>8. QED
  BY <1>6, <1>7 DEF InOrder, Q

-----------------------------------------------------------------------------

(* The streamer may still send what it takes from the queue. *)
CanSend == ~(streamer = "done" \/ (streamer = "loop" /\ ctxDone))

ItemLink(a, b) == IF item = None THEN a = b ELSE Link(item, a, b)

(* While the queue accepts batches, those that wait and w.batch continue   *)
(* with all the events received.                                           *)
RestInOrder(c) ==
  ~shuttingDown => \E d \in Counts : Chain(fresh, c, d) /\ EventLink(batch, d, nevents)

(* What the streamer will send continues what it has sent. *)
QueueInOrder(a) ==
  CanSend => \E b, c \in Counts : ItemLink(a, b) /\ Chain(ready, b, c) /\ RestInOrder(c)

OrderInv ==
  nbreaks = 0 =>
    /\ again = {} /\ stream # "broken"
    /\ \E a \in Counts : InOrder(arrived \o wire, a) /\ QueueInOrder(a)

(* Batches that cross the wire stay in order. *)
LEMMA Crossing ==
  ASSUME NEW u \in Seq(Batches), NEW v \in Seq(Batches), v # <<>>
  PROVE  Append(u, Head(v)) \o Tail(v) = u \o v
<1> DEFINE B == Batches
<1> HIDE DEF B
<1>1. \A s, t \in Seq(B) : t # <<>> => Append(s, Head(t)) \o Tail(t) = s \o t
  <2> TAKE s, t \in Seq(B)
  <2> HAVE t # <<>>
  <2>1. /\ Len(s) \in Nat /\ Len(t) \in Nat \ {0} /\ Tail(t) \in Seq(B) /\ Len(Tail(t)) = Len(t) - 1
        /\ Append(s, Head(t)) \in Seq(B) /\ Len(Append(s, Head(t))) = Len(s) + 1
    OBVIOUS
  <2>2. /\ Append(s, Head(t)) \o Tail(t) \in Seq(B) /\ s \o t \in Seq(B)
        /\ Len(Append(s, Head(t)) \o Tail(t)) = Len(s \o t)
    BY <2>1
  <2>3. ASSUME NEW i \in 1..Len(s \o t) PROVE (Append(s, Head(t)) \o Tail(t))[i] = (s \o t)[i]
    <3>1. CASE i <= Len(s)
      BY <2>1, <3>1
    <3>2. CASE i = Len(s) + 1
      BY <2>1, <3>2
    <3>3. CASE i > Len(s) + 1
      BY <2>1, <3>3
    <3>4. QED
      BY <2>1, <3>1, <3>2, <3>3
  <2>4. QED
    BY <2>2, <2>3, SeqEqual
<1>2. QED
  BY <1>1 DEF B

(* Sending appends to all that was sent. *)
LEMMA Sending ==
  ASSUME NEW u \in Seq(Batches), NEW v \in Seq(Batches), NEW x \in Batches
  PROVE  u \o v \in Seq(Batches) /\ u \o Append(v, x) = Append(u \o v, x) /\ (u \o v) \o <<>> = u \o v
<1> DEFINE B == Batches
<1> HIDE DEF B
<1>1. \A s, t \in Seq(B), e \in B : s \o t \in Seq(B) /\ s \o Append(t, e) = Append(s \o t, e) /\ (s \o t) \o <<>> = s \o t
  OBVIOUS
<1>2. QED
  BY <1>1 DEF B

(* Flushing moves w.batch to the end of the queue. *)
LEMMA FlushInOrder ==
  ASSUME TypeOK, FlushBatch, UNCHANGED <<shuttingDown, nevents>>, NEW c \in Counts, RestInOrder(c)
  PROVE  RestInOrder(c)'
<1> SUFFICES ASSUME ~shuttingDown
             PROVE  \E d \in Counts : Chain(fresh', c, d) /\ EventLink(batch', d, nevents)
  BY DEF RestInOrder
<1>1. PICK d \in Counts : Chain(fresh, c, d) /\ EventLink(batch, d, nevents)
  BY DEF RestInOrder
<1>2. nevents \in Counts /\ EventLink(<<>>, nevents, nevents) /\ fresh \in Seq(Batches) /\ batch \in Batches
  BY DEF TypeOK, Counts, EventLink
<1>3. CASE batch = <<>>
  <2>1. d = nevents
    <3>1. d \in Nat /\ nevents \in Nat /\ d <= nevents /\ DOMAIN batch = 1..(nevents - d)
      BY <1>1, <1>2 DEF EventLink, Counts
    <3>2. 1 \notin DOMAIN batch
      BY <1>3
    <3>3. QED
      BY <3>1, <3>2
  <2>2. QED
    BY <1>1, <1>2, <1>3, <2>1 DEF FlushBatch
<1>4. CASE batch # <<>>
  <2>1. fresh' = Append(fresh, batch) /\ batch' = <<>>
    BY <1>4, Zenon DEF FlushBatch, AddFirst
  <2>2. Chain(fresh', c, nevents)
    BY <1>1, <1>2, <2>1, ChainAppend DEF Link
  <2>3. QED
    BY <1>2, <2>1, <2>2
<1>5. QED
  BY <1>3, <1>4

(* One more event continues w.batch. *)
LEMMA ReceiveInOrder ==
  ASSUME TypeOK, ReceiveEvent, NEW c \in Counts, RestInOrder(c)
  PROVE  RestInOrder(c)'
<1> SUFFICES ASSUME ~shuttingDown
             PROVE  \E d \in Counts : Chain(fresh, c, d) /\ EventLink(batch', d, nevents')
  BY DEF RestInOrder, ReceiveEvent, queueVars
<1>1. PICK d \in Counts : Chain(fresh, c, d) /\ EventLink(batch, d, nevents)
  BY DEF RestInOrder
<1>2. d \in Nat /\ nevents \in Nat /\ d <= nevents /\ nevents' = nevents + 1 /\ batch' = Append(batch, nevents + 1)
  BY <1>1 DEF EventLink, Counts, ReceiveEvent, TypeOK
<1>3. Append([j \in 1..(nevents - d) |-> d + j], nevents + 1) = [j \in 1..((nevents + 1) - d) |-> d + j]
  <2> DEFINE u == [j \in 1..(nevents - d) |-> d + j]
             v == [j \in 1..((nevents + 1) - d) |-> d + j]
  <2>1. u \in Seq(Int) /\ Len(u) = nevents - d /\ v \in Seq(Int) /\ Len(v) = (nevents + 1) - d
    BY <1>2
  <2>2. \A i \in 1..(nevents - d) : u[i] = d + i
    OBVIOUS
  <2>3. \A i \in 1..((nevents + 1) - d) : v[i] = d + i
    OBVIOUS
  <2> HIDE DEF u, v
  <2>4. /\ Append(u, nevents + 1) \in Seq(Int) /\ Len(Append(u, nevents + 1)) = (nevents + 1) - d
        /\ \A i \in 1..(nevents - d) : Append(u, nevents + 1)[i] = d + i
        /\ Append(u, nevents + 1)[(nevents - d) + 1] = nevents + 1
    <3>1. nevents + 1 \in Int
      BY <1>2
    <3>2. /\ Append(u, nevents + 1) \in Seq(Int) /\ Len(Append(u, nevents + 1)) = Len(u) + 1
          /\ \A i \in 1..Len(u) : Append(u, nevents + 1)[i] = u[i]
          /\ Append(u, nevents + 1)[Len(u) + 1] = nevents + 1
      BY <2>1, <3>1, AppendProperties
    <3>3. (nevents - d) + 1 = (nevents + 1) - d
      BY <1>2
    <3>4. QED
      BY <2>1, <2>2, <3>2, <3>3
  <2>5. ASSUME NEW i \in 1..((nevents + 1) - d) PROVE Append(u, nevents + 1)[i] = v[i]
    <3>1. CASE i = (nevents - d) + 1
      BY <1>2, <2>3, <2>4, <3>1
    <3>2. CASE i # (nevents - d) + 1
      <4>1. i \in 1..(nevents - d)
        BY <1>2, <3>2
      <4>2. QED
        BY <2>3, <2>4, <4>1
    <3>3. QED
      BY <3>1, <3>2, Zenon
  <2>6. Append(u, nevents + 1) = v
    BY <2>1, <2>4, <2>5, SeqEqual
  <2>7. QED
    BY <2>6, Zenon DEF u, v
<1>4. EventLink(batch', d, nevents')
  BY <1>1, <1>2, <1>3 DEF EventLink
<1>5. QED
  BY <1>1, <1>4

(* Every step keeps the batches in order. *)
LEMMA NextOrderInv == TypeInv /\ OrderInv /\ [Next]_vars => OrderInv'
<1> SUFFICES ASSUME TypeInv, OrderInv, [Next]_vars, nbreaks' = 0
             PROVE  /\ again' = {} /\ stream' # "broken"
                    /\ \E a \in Counts : InOrder((arrived \o wire)', a) /\ QueueInOrder(a)'
  BY DEF OrderInv
<1>1. nbreaks = 0 /\ ~StreamBreaks
  <2>1. ~StreamBreaks
    BY IntakeAssumption DEF StreamBreaks, TypeInv, TypeOK
  <2>2. QED
    BY <2>1, Zenon
       DEF Next, CtxCancel, StoreCloses, Arrive, QueueNext, FreshIsReady,
           AgainIsReady, MainNext, ReceiveEvent, FlushFullBatch, FinalFlush, ShutDownWithDrain,
           Drained, StartReturns, TickFlush, TickHeartbeat, TickerStops, StreamerNext,
           StreamerStops, StreamerContinues, Get, GetShutdown, Connect, GiveUpConnecting,
           SendSucceeds, SendFails, vars, streamVars
<1>2. PICK a \in Counts : again = {} /\ stream # "broken" /\ InOrder(arrived \o wire, a) /\ QueueInOrder(a)
  BY <1>1 DEF OrderInv
<1>3. /\ arrived \in Seq(Batches) /\ wire \in Seq(Batches) /\ ready \in Seq(Batches)
      /\ fresh \in Seq(Batches) /\ batch \in Batches /\ item \in Batches \cup {None} /\ TypeOK
      /\ item # None <=> streamer \in {"connect", "send"}
  BY DEF TypeInv, TypeOK
<1>4. again' = {} /\ stream' # "broken"
  BY <1>1, <1>2, Zenon
     DEF Next, CtxCancel, StoreCloses, Arrive, QueueNext, FreshIsReady,
         AgainIsReady, MainNext, ReceiveEvent, FlushFullBatch, FinalFlush, ShutDownWithDrain,
         Drained, StartReturns, TickFlush, TickHeartbeat, TickerStops, StreamerNext,
         StreamerStops, StreamerContinues, Get, GetShutdown, Connect, GiveUpConnecting,
         SendSucceeds, SendFails, vars, streamVars, queueVars, pcVars, batchVars
<1>5. ASSUME (arrived \o wire)' = arrived \o wire, CanSend' => CanSend,
             ASSUME CanSend' PROVE \A b, c \in Counts :
               ItemLink(a, b) /\ Chain(ready, b, c) /\ RestInOrder(c)
                 => \E b1, c1 \in Counts : (ItemLink(a, b1) /\ Chain(ready, b1, c1) /\ RestInOrder(c1))'
      PROVE  \E e \in Counts : InOrder((arrived \o wire)', e) /\ QueueInOrder(e)'
  <2>1. InOrder((arrived \o wire)', a)
    BY <1>2, <1>5
  <2>2. QueueInOrder(a)'
    BY <1>2, <1>5 DEF QueueInOrder
  <2>3. QED
    BY <2>1, <2>2
<1>6. CASE \/ CtxCancel \/ StoreCloses \/ Drained \/ StartReturns \/ (\E t \in tickers : TickerStops(t))
           \/ StreamerContinues \/ GetShutdown \/ Connect \/ UNCHANGED vars
  <2>1. UNCHANGED <<arrived, wire, item, ready, fresh, batch, nevents, shuttingDown>>
    BY <1>6 DEF CtxCancel, StoreCloses, Drained, StartReturns, TickerStops, StreamerContinues,
                GetShutdown, Connect, vars, batchVars, queueVars, streamVars, pcVars
  <2>2. CanSend' => CanSend
    BY <1>6 DEF CtxCancel, StoreCloses, Drained, StartReturns, TickerStops, StreamerContinues,
                GetShutdown, Connect, vars, envVars, pcVars, CanSend
  <2>3. QED
    BY <1>4, <1>5, <2>1, <2>2, ZenonT(30) DEF ItemLink, RestInOrder
<1>7. CASE ShutDownWithDrain
  <2>1. UNCHANGED <<arrived, wire, item, ready, ctxDone, streamer>> /\ shuttingDown'
    BY <1>7 DEF ShutDownWithDrain, envVars, streamVars
  <2>2. QED
    BY <1>4, <1>5, <2>1, Zenon DEF ItemLink, RestInOrder, CanSend
<1>8. CASE Arrive
  <2>1. /\ (arrived \o wire)' = arrived \o wire
        /\ UNCHANGED <<ctxDone, streamer, item, ready, fresh, batch, nevents, shuttingDown>>
    BY <1>3, <1>8, Crossing DEF Arrive, envVars, pcVars, queueVars, batchVars
  <2>2. QED
    BY <1>4, <1>5, <2>1, Zenon DEF ItemLink, RestInOrder, CanSend
<1>9. CASE StreamerStops \/ GiveUpConnecting
  <2>1. ~CanSend'
    BY <1>9 DEF StreamerStops, GiveUpConnecting, CanSend, envVars
  <2>2. (arrived \o wire)' = arrived \o wire
    <3>1. CASE UNCHANGED <<arrived, wire>>
      BY <3>1
    <3>2. CASE arrived' = arrived \o wire /\ wire' = <<>>
      <4>1. arrived \o wire \in Seq(Batches)
        BY <1>3, Sending
      <4>2. (arrived \o wire) \o <<>> = arrived \o wire
        BY <4>1, ConcatEmptySeq
      <4>3. QED
        BY <3>2, <4>2
    <3>3. QED
      BY <1>9, <3>1, <3>2, SMTT(30) DEF StreamerStops, GiveUpConnecting, streamVars
  <2>3. QED
    BY <1>4, <1>5, <2>1, <2>2, Zenon
<1>10. CASE FreshIsReady
  <2>1. /\ UNCHANGED <<arrived, wire, ctxDone, streamer, item, batch, nevents, shuttingDown>>
        /\ fresh # <<>> /\ fresh' = Tail(fresh)
        /\ ready' = IF shuttingDown THEN ready ELSE Append(ready, Head(fresh))
    BY <1>10 DEF FreshIsReady, AddReady, envVars, streamVars, pcVars, batchVars
  <2>2. ASSUME NEW b \in Counts, NEW c \in Counts, ItemLink(a, b), Chain(ready, b, c), RestInOrder(c)
        PROVE  \E b1, c1 \in Counts : (ItemLink(a, b1) /\ Chain(ready, b1, c1) /\ RestInOrder(c1))'
    <3>1. CASE shuttingDown
      BY <2>1, <2>2, <3>1 DEF ItemLink, RestInOrder
    <3>2. CASE ~shuttingDown
      <4>1. PICK d \in Counts : Chain(fresh, c, d) /\ EventLink(batch, d, nevents)
        BY <2>2, <3>2 DEF RestInOrder
      <4>2. PICK c1 \in Counts : Link(Head(fresh), c, c1) /\ Chain(Tail(fresh), c1, d)
        BY <1>3, <2>1, <4>1, ChainTail
      <4>3. Chain(ready', b, c1)
        BY <1>3, <2>1, <2>2, <3>2, <4>2, ChainAppend, TakeHead
      <4>4. RestInOrder(c1)'
        BY <2>1, <4>1, <4>2 DEF RestInOrder
      <4>5. ItemLink(a, b)'
        BY <2>1, <2>2 DEF ItemLink
      <4>6. QED
        BY <4>3, <4>4, <4>5
    <3>3. QED
      BY <3>1, <3>2
  <2>3. QED
    BY <1>4, <1>5, <2>1, <2>2, Zenon DEF CanSend
<1>11. CASE ReceiveEvent \/ FlushFullBatch \/ FinalFlush \/ TickFlush
  <2>1. UNCHANGED <<arrived, wire, ctxDone, streamer, item, ready, shuttingDown>>
    BY <1>11 DEF ReceiveEvent, FlushFullBatch, FinalFlush, TickFlush, envVars, streamVars, queueVars, pcVars
  <2>2. ASSUME NEW c \in Counts, RestInOrder(c) PROVE RestInOrder(c)'
    BY <1>3, <1>11, <2>1, <2>2, ReceiveInOrder, FlushInOrder DEF FlushFullBatch, FinalFlush, TickFlush
  <2>3. QED
    BY <1>4, <1>5, <2>1, <2>2, Zenon DEF ItemLink, CanSend
<1>12. CASE TickHeartbeat
  <2>1. /\ UNCHANGED <<arrived, wire, ctxDone, streamer, item, ready, batch, nevents, shuttingDown>>
        /\ AddFirst(<<-(nbeats + 1)>>)
    BY <1>12 DEF TickHeartbeat, envVars, streamVars, pcVars
  <2>2. PICK x \in Batches : x = <<-(nbeats + 1)>>
    BY <1>3, <1>12, HeartbeatIsBatch DEF TickHeartbeat
  <2>3. \A d \in Counts : Link(x, d, d)
    <3>1. Len(x) = 1 /\ x[1] < 0
      BY <1>3, <2>2 DEF TypeOK
    <3>2. QED
      BY <3>1 DEF Link, BeatLink
  <2>4. ASSUME NEW c \in Counts, RestInOrder(c) PROVE RestInOrder(c)'
    <3> SUFFICES ASSUME ~shuttingDown
                 PROVE  \E d \in Counts : Chain(fresh', c, d) /\ EventLink(batch, d, nevents)
      BY <2>1 DEF RestInOrder
    <3>1. PICK d \in Counts : Chain(fresh, c, d) /\ EventLink(batch, d, nevents)
      BY <2>4 DEF RestInOrder
    <3>2. fresh' = Append(fresh, x)
      BY <2>1, <2>2 DEF AddFirst
    <3>3. Chain(fresh', c, d)
      BY <1>3, <2>3, <3>1, <3>2, ChainAppend
    <3>4. QED
      BY <3>1, <3>3
  <2>5. QED
    BY <1>4, <1>5, <2>1, <2>4, Zenon DEF ItemLink, CanSend
<1>13. CASE Get
  <2>1. /\ UNCHANGED <<arrived, wire, fresh, batch, nevents, shuttingDown>>
        /\ item = None /\ ready # <<>> /\ item' = Head(ready) /\ ready' = Tail(ready) /\ CanSend
    BY <1>3, <1>13 DEF Get, batchVars, streamVars, CanSend
  <2>2. item' # None
    BY <1>3, <2>1, TakeHead, BatchNotNone
  <2>3. ASSUME NEW b \in Counts, NEW c \in Counts, ItemLink(a, b), Chain(ready, b, c), RestInOrder(c)
        PROVE  \E b1, c1 \in Counts : (ItemLink(a, b1) /\ Chain(ready, b1, c1) /\ RestInOrder(c1))'
    <3>1. a = b
      BY <2>1, <2>3 DEF ItemLink
    <3>2. PICK b1 \in Counts : Link(Head(ready), a, b1) /\ Chain(Tail(ready), b1, c)
      BY <1>3, <2>1, <2>3, <3>1, ChainTail
    <3>3. ItemLink(a, b1)' /\ Chain(ready', b1, c) /\ RestInOrder(c)'
      BY <2>1, <2>2, <2>3, <3>2 DEF ItemLink, RestInOrder
    <3>4. QED
      BY <3>3
  <2>4. QED
    BY <1>4, <1>5, <2>1, <2>3, Zenon
<1>14. CASE SendSucceeds
  <2>1. /\ UNCHANGED <<arrived, ready, fresh, batch, nevents, shuttingDown>> /\ CanSend
        /\ item \in Batches /\ item # None /\ wire' = Append(wire, item) /\ item' = None
    BY <1>3, <1>14, BatchNotNone DEF SendSucceeds, batchVars, queueVars, CanSend
  <2>2. PICK b, c \in Counts : ItemLink(a, b) /\ Chain(ready, b, c) /\ RestInOrder(c)
    BY <1>2, <2>1 DEF QueueInOrder
  <2>3. arrived \o wire \in Seq(Batches) /\ (arrived \o wire)' = Append(arrived \o wire, item)
    BY <1>3, <2>1, Sending
  <2>4. InOrder((arrived \o wire)', b)
    BY <1>2, <2>1, <2>2, <2>3, InOrderAppend, ZenonT(30) DEF ItemLink
  <2>5. QueueInOrder(b)'
    BY <2>1, <2>2 DEF QueueInOrder, ItemLink, RestInOrder
  <2>6. QED
    BY <1>4, <2>4, <2>5
<1>15. ~AgainIsReady /\ ~SendFails
  BY <1>2 DEF AgainIsReady, SendFails
<1>16. QED
  BY <1>1, <1>6, <1>7, <1>8, <1>9, <1>10, <1>11, <1>12, <1>13, <1>14, <1>15
     DEF Next, QueueNext, MainNext, StreamerNext

(* Until a stream fails the service receives every event once, in the      *)
(* order of the store's events and without gaps, although three goroutines *)
(* fill the queue and the queue delays its batches (worker.go:224).        *)
THEOREM OrderUntilFailure == Spec => []InOrderUntilFailure
<1>1. Init => OrderInv
  <2> SUFFICES ASSUME Init PROVE OrderInv
    OBVIOUS
  <2>1. 0 \in Counts /\ arrived \o wire = <<>>
    BY IntakeAssumption DEF Init, Counts
  <2>2. InOrder(<<>>, 0)
    BY DEF InOrder
  <2>3. EventLink(<<>>, 0, 0)
    BY DEF EventLink
  <2>4. QueueInOrder(0)
    BY <2>1, <2>3, ChainEmpty DEF Init, QueueInOrder, ItemLink, RestInOrder
  <2>5. QED
    BY <2>1, <2>2, <2>4 DEF Init, OrderInv
<1>2. OrderInv => InOrderUntilFailure
  BY DEF OrderInv, InOrder, InOrderUntilFailure
<1>3. QED
  BY <1>1, <1>2, InitTypeInv, NextTypeInv, NextOrderInv, PTL DEF Spec

=============================================================================
