---------------------------- MODULE IntakeWorker ----------------------------
(***************************************************************************)
(* The intake worker (internal/intake/worker.go): it turns the events of a *)
(* store subscription into deltas, collects them in batches, and sends the *)
(* batches to the service on a stream that it replaces when it fails.      *)
(*                                                                         *)
(* A delta is the number of its event; a batch is a sequence of deltas.    *)
(* The rate-limiting work queue is external.  A batch added to it waits    *)
(* first.  The delays of batches added for the first time do not change    *)
(* their order; a batch added again after a failure waits for any time.    *)
(* An add to a queue that shuts down has no effect, and neither has the    *)
(* end of a wait.                                                          *)
(***************************************************************************)
EXTENDS Integers, Sequences, Functions

CONSTANTS
  MaxBatchSize,  \* maxBatchSize
  MaxEvents,     \* bound on the events of the subscription
  MaxBeats,      \* bound on the heartbeats
  MaxBreaks,     \* bound on the streams that fail
  None           \* no batch

ASSUME IntakeAssumption ==
  /\ MaxBatchSize \in Nat \ {0}
  /\ MaxEvents \in Nat /\ MaxBeats \in Nat /\ MaxBreaks \in Nat
  /\ None \notin Seq(Int)

VARIABLES
  ctxDone,       \* the context is done
  chanClosed,    \* the store has closed the subscription's channel
  nevents,       \* number of events received from it
  main,          \* where Start is
  tickers,       \* the goroutines with a ticker that have not returned
  batch,         \* w.batch
  fresh,         \* queue: batches that wait since they were added first
  again,         \* queue: batches that wait since they were added again
  ready,         \* queue: batches that Get returns
  shuttingDown,  \* queue: ShutDownWithDrain was called
  streamer,      \* where the streamer is
  item,          \* the batch it is processing
  stream,        \* w.stream: "none", "open", or "broken" (its context or the
                 \* connection has ended and the worker has not noticed)
  wire,          \* batches sent on the stream that have not arrived
  arrived,       \* history: batches the service has received
  sent,          \* history: deltas for which Send has returned nil
  nbreaks,       \* history: number of streams that failed
  nbeats         \* history: number of heartbeats

envVars == <<ctxDone, chanClosed>>
batchVars == <<nevents, batch, nbeats>>
queueVars == <<fresh, again, ready, shuttingDown>>
streamVars == <<stream, wire, arrived, sent, nbreaks>>
pcVars == <<main, tickers, streamer, item>>
vars == <<envVars, batchVars, queueVars, streamVars, pcVars>>

Init ==
  /\ ctxDone = FALSE /\ chanClosed = FALSE
  /\ nevents = 0 /\ batch = <<>> /\ nbeats = 0
  /\ fresh = <<>> /\ again = {} /\ ready = <<>> /\ shuttingDown = FALSE
  /\ stream = "none" /\ wire = <<>> /\ arrived = <<>> /\ sent = {} /\ nbreaks = 0
  /\ main = "range" /\ tickers = {"flush", "heartbeat"} /\ streamer = "loop" /\ item = None

-----------------------------------------------------------------------------
(* The context, the store, which closes its subscriptions when the context *)
(* is done (the channel counts as closed once it is empty, too), and the   *)
(* service.                                                                *)

CtxCancel ==
  /\ ~ctxDone
  /\ ctxDone' = TRUE
  /\ UNCHANGED <<chanClosed, batchVars, queueVars, streamVars, pcVars>>

StoreCloses ==
  /\ ctxDone /\ ~chanClosed
  /\ chanClosed' = TRUE
  /\ UNCHANGED <<ctxDone, batchVars, queueVars, streamVars, pcVars>>

Arrive ==
  /\ stream = "open" /\ wire # <<>>
  /\ arrived' = Append(arrived, Head(wire))
  /\ wire' = Tail(wire)
  /\ UNCHANGED <<envVars, batchVars, queueVars, stream, sent, nbreaks, pcVars>>

(* The stream's maximal age is over, or the connection fails: what has not *)
(* arrived is lost.                                                        *)
StreamBreaks ==
  /\ stream = "open" /\ nbreaks < MaxBreaks
  /\ stream' = "broken"
  /\ wire' = <<>>
  /\ nbreaks' = nbreaks + 1
  /\ UNCHANGED <<envVars, batchVars, queueVars, arrived, sent, pcVars>>

-----------------------------------------------------------------------------
(* The work queue. *)

AddFirst(b) == fresh' = IF shuttingDown THEN fresh ELSE Append(fresh, b)

AddAgain(b) == again' = IF shuttingDown THEN again ELSE again \cup {b}

AddReady(b) == ready' = IF shuttingDown THEN ready ELSE Append(ready, b)

FreshIsReady ==
  /\ fresh # <<>>
  /\ AddReady(Head(fresh))
  /\ fresh' = Tail(fresh)
  /\ UNCHANGED <<envVars, batchVars, again, shuttingDown, streamVars, pcVars>>

AgainIsReady ==
  /\ \E b \in again : AddReady(b) /\ again' = again \ {b}
  /\ UNCHANGED <<envVars, batchVars, fresh, shuttingDown, streamVars, pcVars>>

-----------------------------------------------------------------------------
(* Start, batchFlusher and heartbeatWorker. *)

FlushBatch ==
  /\ batch' = <<>>
  /\ IF batch = <<>> THEN UNCHANGED fresh ELSE AddFirst(batch)

ReceiveEvent ==
  /\ main = "range" /\ ~chanClosed
  /\ nevents < MaxEvents
  /\ nevents' = nevents + 1
  /\ batch' = Append(batch, nevents + 1)
  /\ main' = IF Len(batch') >= MaxBatchSize THEN "flush" ELSE "range"
  /\ UNCHANGED <<envVars, nbeats, queueVars, streamVars, tickers, streamer, item>>

FlushFullBatch ==
  /\ main = "flush"
  /\ FlushBatch
  /\ main' = "range"
  /\ UNCHANGED <<envVars, nevents, nbeats, again, ready, shuttingDown, streamVars,
                 tickers, streamer, item>>

FinalFlush ==
  /\ main = "range" /\ chanClosed
  /\ FlushBatch
  /\ main' = "shutdown"
  /\ UNCHANGED <<envVars, nevents, nbeats, again, ready, shuttingDown, streamVars,
                 tickers, streamer, item>>

ShutDownWithDrain ==
  /\ main = "shutdown"
  /\ shuttingDown' = TRUE
  /\ main' = "drain"
  /\ UNCHANGED <<envVars, batchVars, fresh, again, ready, streamVars, tickers, streamer, item>>

Drained ==
  /\ main = "drain"
  /\ item = None
  /\ main' = "wait"
  /\ UNCHANGED <<envVars, batchVars, queueVars, streamVars, tickers, streamer, item>>

StartReturns ==
  /\ main = "wait"
  /\ tickers = {} /\ streamer = "done"
  /\ main' = "done"
  /\ UNCHANGED <<envVars, batchVars, queueVars, streamVars, tickers, streamer, item>>

(* Mutant: a tick leaves a batch that is not full alone. *)
TickFlushFull ==
  /\ "flush" \in tickers
  /\ Len(batch) >= MaxBatchSize
  /\ FlushBatch
  /\ UNCHANGED <<envVars, nevents, nbeats, again, ready, shuttingDown, streamVars, pcVars>>

TickFlush ==
  /\ "flush" \in tickers
  /\ FlushBatch
  /\ UNCHANGED <<envVars, nevents, nbeats, again, ready, shuttingDown, streamVars, pcVars>>

(* A heartbeat is a batch of one delta that belongs to no event. *)
TickHeartbeat ==
  /\ "heartbeat" \in tickers
  /\ nbeats < MaxBeats
  /\ nbeats' = nbeats + 1
  /\ AddFirst(<<-(nbeats + 1)>>)
  /\ UNCHANGED <<envVars, nevents, batch, again, ready, shuttingDown, streamVars, pcVars>>

TickerStops(t) ==
  /\ ctxDone /\ t \in tickers
  /\ tickers' = tickers \ {t}
  /\ UNCHANGED <<envVars, batchVars, queueVars, streamVars, main, streamer, item>>

-----------------------------------------------------------------------------
(* streamer and sendDelta. *)

(* Mutant: the streamer returns only if it has a stream to close. *)
StreamerStopsWithStream ==
  /\ streamer = "loop" /\ ctxDone
  /\ stream # "none"
  /\ stream' = "none"
  /\ IF stream = "open" THEN wire' = <<>> /\ arrived' = arrived \o wire
                        ELSE UNCHANGED <<wire, arrived>>
  /\ streamer' = "done"
  /\ UNCHANGED <<envVars, batchVars, queueVars, sent, nbreaks, main, tickers, item>>

(* CloseAndRecv waits for the answer of the service to what was sent. *)
StreamerStops ==
  /\ streamer = "loop" /\ ctxDone
  /\ stream' = "none"
  /\ IF stream = "open" THEN wire' = <<>> /\ arrived' = arrived \o wire
                        ELSE UNCHANGED <<wire, arrived>>
  /\ streamer' = "done"
  /\ UNCHANGED <<envVars, batchVars, queueVars, sent, nbreaks, main, tickers, item>>

StreamerContinues ==
  /\ streamer = "loop" /\ ~ctxDone
  /\ streamer' = "get"
  /\ UNCHANGED <<envVars, batchVars, queueVars, streamVars, main, tickers, item>>

Get ==
  /\ streamer = "get"
  /\ ready # <<>>
  /\ item' = Head(ready)
  /\ ready' = Tail(ready)
  /\ streamer' = IF stream = "none" THEN "connect" ELSE "send"
  /\ UNCHANGED <<envVars, batchVars, fresh, again, shuttingDown, streamVars, main, tickers>>

GetShutdown ==
  /\ streamer = "get"
  /\ ready = <<>> /\ shuttingDown
  /\ streamer' = "loop"
  /\ UNCHANGED <<envVars, batchVars, queueVars, streamVars, main, tickers, item>>

Connect ==
  /\ streamer = "connect"
  /\ stream' = "open"
  /\ streamer' = "send"
  /\ UNCHANGED <<envVars, batchVars, queueVars, wire, arrived, sent, nbreaks, main, tickers, item>>

(* The batch is not queued again. *)
GiveUpConnecting ==
  /\ streamer = "connect" /\ ctxDone
  /\ streamer' = "loop"
  /\ item' = None
  /\ UNCHANGED <<envVars, batchVars, queueVars, streamVars, main, tickers>>

(* Mutant: the batch is queued again after every send. *)
SendSucceedsRepeats ==
  /\ streamer = "send" /\ stream = "open"
  /\ wire' = Append(wire, item)
  /\ sent' = sent \cup Range(item)
  /\ AddAgain(item)
  /\ streamer' = "loop"
  /\ item' = None
  /\ UNCHANGED <<envVars, batchVars, fresh, ready, shuttingDown, stream, arrived, nbreaks,
                 main, tickers>>

SendSucceeds ==
  /\ streamer = "send" /\ stream = "open"
  /\ wire' = Append(wire, item)
  /\ sent' = sent \cup Range(item)
  /\ streamer' = "loop"
  /\ item' = None
  /\ UNCHANGED <<envVars, batchVars, queueVars, stream, arrived, nbreaks, main, tickers>>

(* Mutant: the stream is reset and the batch is not queued again. *)
SendFailsForgets ==
  /\ streamer = "send" /\ stream = "broken"
  /\ stream' = "none"
  /\ streamer' = "loop"
  /\ item' = None
  /\ UNCHANGED <<envVars, batchVars, queueVars, wire, arrived, sent, nbreaks, main, tickers>>

SendFails ==
  /\ streamer = "send" /\ stream = "broken"
  /\ stream' = "none"
  /\ AddAgain(item)
  /\ streamer' = "loop"
  /\ item' = None
  /\ UNCHANGED <<envVars, batchVars, fresh, ready, shuttingDown, wire, arrived, sent, nbreaks,
                 main, tickers>>

-----------------------------------------------------------------------------

QueueNext == FreshIsReady \/ AgainIsReady

MainNext == ReceiveEvent \/ FlushFullBatch \/ FinalFlush \/ ShutDownWithDrain \/ Drained
              \/ StartReturns

StreamerNext == StreamerStops \/ StreamerContinues \/ Get \/ GetShutdown \/ Connect
                  \/ GiveUpConnecting \/ SendSucceeds \/ SendFails

Next ==
  \/ CtxCancel \/ StoreCloses \/ Arrive \/ StreamBreaks
  \/ QueueNext
  \/ MainNext
  \/ TickFlush \/ TickHeartbeat \/ \E t \in tickers : TickerStops(t)
  \/ StreamerNext

Spec == Init /\ [][Next]_vars

-----------------------------------------------------------------------------

Batches == Seq(-MaxBeats..MaxEvents)

(* The state has its type; a batch is never larger than maxBatchSize,      *)
(* although the decision to flush and the flush are two steps.             *)
TypeOK ==
  /\ ctxDone \in BOOLEAN /\ chanClosed \in BOOLEAN /\ shuttingDown \in BOOLEAN
  /\ nevents \in 0..MaxEvents /\ nbeats \in 0..MaxBeats /\ nbreaks \in 0..MaxBreaks
  /\ batch \in Batches /\ Len(batch) <= MaxBatchSize
  /\ main = "range" => Len(batch) < MaxBatchSize
  /\ fresh \in Seq(Batches) /\ again \subseteq Batches /\ ready \in Seq(Batches)
  /\ wire \in Seq(Batches) /\ arrived \in Seq(Batches)
  /\ sent \subseteq -MaxBeats..MaxEvents
  /\ stream \in {"none", "open", "broken"}
  /\ main \in {"range", "flush", "shutdown", "drain", "wait", "done"}
  /\ tickers \subseteq {"flush", "heartbeat"}
  /\ streamer \in {"loop", "get", "connect", "send", "done"}
  /\ item \in Batches \cup {None}
  /\ item # None <=> streamer \in {"connect", "send"}

(* The batches that are in the queue or being sent. *)
Pending == Range(fresh) \cup again \cup Range(ready) \cup ({item} \ {None})

(* Until the worker shuts down, every event it has received is in the      *)
(* batch, in the queue, being sent, or was sent, whatever fails.           *)
NothingForgotten ==
  ~ctxDone => 1..nevents \subseteq Range(batch) \cup sent \cup UNION {Range(b) : b \in Pending}

(* The events whose deltas precede the j-th delta of batch i. *)
EventsBefore(q, i, j) ==
  {n \in 1..MaxEvents : \E k \in 1..i : \E l \in DOMAIN q[k] : q[k][l] = n /\ (k < i \/ l < j)}

(* As long as no stream has failed, the service receives the deltas in the *)
(* order of the store's events, once and without gaps: the events before   *)
(* that of a delta, and only they, have been sent before it.               *)
InOrderUntilFailure ==
  nbreaks = 0 =>
    LET q == arrived \o wire
    IN  \A i \in DOMAIN q : \A j \in DOMAIN q[i] :
          q[i][j] > 0 => EventsBefore(q, i, j) = 1..(q[i][j] - 1)

-----------------------------------------------------------------------------

(* Every goroutine that can run does, waits and tickers end, the store     *)
(* closes its channels, and the service can be reached again and again.    *)
(* The done case of a select is not neglected for ever.                    *)
FairSpec ==
  /\ Spec
  /\ WF_vars(StoreCloses) /\ WF_vars(Arrive)
  /\ WF_vars(FreshIsReady) /\ WF_vars(AgainIsReady)
  /\ WF_vars(FlushFullBatch \/ FinalFlush \/ ShutDownWithDrain \/ Drained \/ StartReturns)
  /\ WF_vars(TickFlush)
  /\ \A t \in {"flush", "heartbeat"} : WF_vars(TickerStops(t))
  /\ WF_vars(StreamerNext)

(* An event that was received is sent, or the worker is shutting down,     *)
(* however many streams fail before.                                       *)
EventsSent == \A n \in 1..MaxEvents : nevents >= n ~> n \in sent \/ ctxDone

(* Start returns once the context is done. *)
Terminates == ctxDone ~> main = "done"

=============================================================================
