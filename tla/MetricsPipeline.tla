-------------------------- MODULE MetricsPipeline --------------------------
(***************************************************************************)
(* The way of a metric event from a publisher to the OpenTelemetry         *)
(* exporter: MetricsRouter (internal/metrics/router.go), the consumer's    *)
(* buffer and its goroutine (internal/metrics/consumers/otel/buffer.go,    *)
(* consumer.go).                                                           *)
(*                                                                         *)
(* Publish calls HandleEvent of the registered consumer with the router's  *)
(* read lock held.  HandleEvent looks at the buffer's length, pushes, and  *)
(* notifies the consumer's goroutine once the threshold is reached.  The   *)
(* goroutine drains the buffer when notified, when its ticker fires and    *)
(* when the context is done.  Events are numbered in the order they are    *)
(* pushed.                                                                 *)
(***************************************************************************)
EXTENDS RingBuffer, FiniteSets

CONSTANTS
  Publishers,       \* goroutines that call Publish
  ExportBatchSize,  \* threshold of the notification and size of a batch
  MaxEvents         \* bound on the events pushed

ASSUME PipelineAssumption ==
  /\ ExportBatchSize \in Nat \ {0}
  /\ MaxEvents \in Nat
  /\ Zero \notin Nat

VARIABLES
  ctxDone,     \* the context is done
  registered,  \* the router knows the consumer
  closed,      \* the router is closed
  pub,         \* where each publisher is
  ring,        \* the buffer
  notify,      \* a notification is pending
  dropped,     \* eventsDropped
  consumer,    \* where the consumer's goroutine is
  cause,       \* why it drains
  batch,       \* the events of the batch it is working on
  rest,        \* the events drained that follow the batch
  healthy,     \* it has not panicked
  npush,       \* number of events pushed
  taken,       \* history: everything drained
  handled,     \* history: everything handed to the transformer
  atCancel     \* history: npush when the context was cancelled

ctxVars == <<ctxDone, atCancel>>
routerVars == <<registered, closed>>
bufVars == <<ring, npush, taken>>
pubVars == <<pub, notify, dropped>>
consVars == <<consumer, cause, batch, rest, healthy, handled>>
vars == <<ctxVars, routerVars, bufVars, pubVars, consVars>>

Init ==
  /\ ctxDone = FALSE
  /\ registered = FALSE
  /\ closed = FALSE
  /\ pub = [p \in Publishers |-> "idle"]
  /\ ring = RingNew
  /\ notify = FALSE
  /\ dropped = 0
  /\ consumer = "select"
  /\ cause = "tick"
  /\ batch = <<>>
  /\ rest = <<>>
  /\ healthy = TRUE
  /\ npush = 0
  /\ taken = <<>>
  /\ handled = <<>>
  /\ atCancel = 0

CtxCancel ==
  /\ ~ctxDone
  /\ ctxDone' = TRUE
  /\ atCancel' = npush
  /\ UNCHANGED <<routerVars, bufVars, pubVars, consVars>>

-----------------------------------------------------------------------------
(* The router.  Its lock is held for reading while a publisher is in       *)
(* Publish, and for writing only within one of the actions below.          *)

CanLock == \A p \in Publishers : pub[p] = "idle"

RegisterConsumer ==
  /\ ~registered
  /\ CanLock
  /\ registered' = TRUE
  /\ UNCHANGED <<ctxVars, closed, bufVars, pubVars, consVars>>

UnregisterConsumer ==
  /\ registered
  /\ CanLock
  /\ registered' = FALSE
  /\ UNCHANGED <<ctxVars, closed, bufVars, pubVars, consVars>>

RouterStops ==
  /\ ctxDone
  /\ ~closed
  /\ CanLock
  /\ closed' = TRUE
  /\ UNCHANGED <<ctxVars, registered, bufVars, pubVars, consVars>>

(* A closed router returns an error and one without a consumer does        *)
(* nothing.                                                                *)
Publish(p) ==
  /\ pub[p] = "idle"
  /\ ~closed /\ registered
  /\ npush < MaxEvents
  /\ pub' = [pub EXCEPT ![p] = "len"]
  /\ UNCHANGED <<ctxVars, routerVars, bufVars, notify, dropped, consVars>>

-----------------------------------------------------------------------------
(* HandleEvent. *)

(* Mutant: an overflow is counted one event too late. *)
CheckLenLate(p) ==
  /\ pub[p] = "len"
  /\ dropped' = IF ring.size > Cap THEN dropped + 1 ELSE dropped
  /\ pub' = [pub EXCEPT ![p] = "push"]
  /\ UNCHANGED <<ctxVars, routerVars, bufVars, notify, consVars>>

CheckLen(p) ==
  /\ pub[p] = "len"
  /\ dropped' = IF ring.size >= Cap THEN dropped + 1 ELSE dropped
  /\ pub' = [pub EXCEPT ![p] = "push"]
  /\ UNCHANGED <<ctxVars, routerVars, bufVars, notify, consVars>>

(* Mutant: the goroutine is notified one event too late. *)
PushNotifiesLate(p) ==
  /\ pub[p] = "push"
  /\ npush < MaxEvents
  /\ ring' = RingPush(ring, npush + 1)
  /\ npush' = npush + 1
  /\ pub' = [pub EXCEPT ![p] = IF ring'.size > ExportBatchSize THEN "notify" ELSE "idle"]
  /\ UNCHANGED <<ctxVars, routerVars, taken, notify, dropped, consVars>>

Push(p) ==
  /\ pub[p] = "push"
  /\ npush < MaxEvents
  /\ ring' = RingPush(ring, npush + 1)
  /\ npush' = npush + 1
  /\ pub' = [pub EXCEPT ![p] = IF ring'.size >= ExportBatchSize THEN "notify" ELSE "idle"]
  /\ UNCHANGED <<ctxVars, routerVars, taken, notify, dropped, consVars>>

(* The send does not block: a notification may be pending already.         *)
Notify(p) ==
  /\ pub[p] = "notify"
  /\ notify' = TRUE
  /\ pub' = [pub EXCEPT ![p] = "idle"]
  /\ UNCHANGED <<ctxVars, routerVars, bufVars, dropped, consVars>>

PublisherNext(p) == CheckLen(p) \/ Push(p) \/ Notify(p)

-----------------------------------------------------------------------------
(* processEvents. *)

Notified ==
  /\ consumer = "select"
  /\ notify
  /\ notify' = FALSE
  /\ consumer' = "drain"
  /\ cause' = "notify"
  /\ UNCHANGED <<ctxVars, routerVars, bufVars, pub, dropped, batch, rest, healthy, handled>>

(* Mutant: a tick is ignored below the threshold. *)
TickerAboveThreshold ==
  /\ consumer = "select"
  /\ ring.size >= ExportBatchSize
  /\ consumer' = "drain"
  /\ cause' = "tick"
  /\ UNCHANGED <<ctxVars, routerVars, bufVars, pubVars, batch, rest, healthy, handled>>

TickerFires ==
  /\ consumer = "select"
  /\ consumer' = "drain"
  /\ cause' = "tick"
  /\ UNCHANGED <<ctxVars, routerVars, bufVars, pubVars, batch, rest, healthy, handled>>

(* Mutant: the goroutine returns without a last drain. *)
ContextDoneReturns ==
  /\ consumer = "select"
  /\ ctxDone
  /\ consumer' = "stopped"
  /\ cause' = "done"
  /\ UNCHANGED <<ctxVars, routerVars, bufVars, pubVars, batch, rest, healthy, handled>>

ContextDone ==
  /\ consumer = "select"
  /\ ctxDone
  /\ consumer' = "drain"
  /\ cause' = "done"
  /\ UNCHANGED <<ctxVars, routerVars, bufVars, pubVars, batch, rest, healthy, handled>>

(* Where the first batch of the events ends: after a notification they are *)
(* processed in batches of ExportBatchSize, otherwise in one.              *)
BatchEnd(events) ==
  IF cause = "notify" /\ Len(events) > ExportBatchSize THEN ExportBatchSize ELSE Len(events)

NextBatch(events) ==
  /\ batch' = SubSeq(events, 1, BatchEnd(events))
  /\ rest' = SubSeq(events, BatchEnd(events) + 1, Len(events))

Drain ==
  /\ consumer = "drain"
  /\ NextBatch(GetAll(ring))
  /\ taken' = taken \o GetAll(ring)
  /\ ring' = IF ring.size = 0 THEN ring ELSE RingClear(ring)
  /\ consumer' = "process"
  /\ UNCHANGED <<ctxVars, routerVars, npush, pubVars, cause, healthy, handled>>

(* One that fails is counted as an error and not tried again.              *)
ProcessEvent ==
  /\ consumer = "process"
  /\ batch # <<>>
  /\ handled' = Append(handled, Head(batch))
  /\ batch' = Tail(batch)
  /\ UNCHANGED <<ctxVars, routerVars, bufVars, pubVars, consumer, cause, rest, healthy>>

(* A panic is recovered, and ends the goroutine. *)
ProcessPanics ==
  /\ consumer = "process"
  /\ batch # <<>>
  /\ consumer' = "stopped"
  /\ healthy' = FALSE
  /\ UNCHANGED <<ctxVars, routerVars, bufVars, pubVars, cause, batch, rest, handled>>

ProcessNextBatch ==
  /\ consumer = "process"
  /\ batch = <<>> /\ rest # <<>>
  /\ NextBatch(rest)
  /\ UNCHANGED <<ctxVars, routerVars, bufVars, pubVars, consumer, cause, healthy, handled>>

ProcessEnds ==
  /\ consumer = "process"
  /\ batch = <<>> /\ rest = <<>>
  /\ consumer' = IF cause = "done" THEN "stopped" ELSE "select"
  /\ UNCHANGED <<ctxVars, routerVars, bufVars, pubVars, cause, batch, rest, healthy, handled>>

ConsumerNext ==
  \/ Notified \/ TickerFires \/ ContextDone
  \/ Drain
  \/ ProcessEvent \/ ProcessNextBatch \/ ProcessEnds

Next ==
  \/ CtxCancel
  \/ RegisterConsumer \/ UnregisterConsumer \/ RouterStops
  \/ \E p \in Publishers : Publish(p) \/ PublisherNext(p)
  \/ ConsumerNext \/ ProcessPanics

Spec == Init /\ [][Next]_vars

-----------------------------------------------------------------------------

(* The state has its type; in particular the buffer never holds more than  *)
(* its capacity, and no zero value of the array counts as an event.        *)
TypeOK ==
  /\ ctxDone \in BOOLEAN /\ registered \in BOOLEAN /\ closed \in BOOLEAN
  /\ pub \in [Publishers -> {"idle", "len", "push", "notify"}]
  /\ ring \in Ring(1..MaxEvents)
  /\ notify \in BOOLEAN /\ dropped \in Nat
  /\ consumer \in {"select", "drain", "process", "stopped"}
  /\ cause \in {"notify", "tick", "done"}
  /\ batch \in Seq(1..MaxEvents) /\ rest \in Seq(1..MaxEvents)
  /\ healthy \in BOOLEAN
  /\ npush \in 0..MaxEvents /\ atCancel \in 0..npush
  /\ taken \in Seq(1..MaxEvents) /\ handled \in Seq(1..MaxEvents)

Queue == INSTANCE EventQueue WITH queue <- GetAll(ring), Events <- 1..MaxEvents

(* The buffer is a queue of the latest events: it loses an event only to a *)
(* newer one when it is full, and always the oldest, and it is drained in  *)
(* the order of publication, however its positions wrap around.            *)
ImplementsQueue == Queue!Spec

(* Once the threshold is reached the consumer is about to drain, or will   *)
(* find a notification: none is lost although the send does not block and  *)
(* happens after the buffer's lock was released.                           *)
NoLostWakeup ==
  ring.size >= ExportBatchSize /\ (\A p \in Publishers : pub[p] # "notify")
    => notify \/ consumer = "drain"

(* What was drained is processed in order and without gaps, in whatever    *)
(* batches, unless processing has panicked.                                *)
BatchesComplete == healthy => handled \o batch \o rest = taken

(* "Process any remaining events" (consumer.go:396): when the consumer has *)
(* stopped, no event published before the context was cancelled is left.   *)
FinalDrain ==
  consumer = "stopped" /\ healthy => \A i \in 1..ring.size : GetAll(ring)[i] > atCancel

(* With one publisher, as in the agent, eventsDropped is at least the      *)
(* number of events lost, although the length is checked before the push   *)
(* and the consumer may drain in between.                                  *)
DropsCounted == npush - Len(taken) - ring.size <= dropped

-----------------------------------------------------------------------------

(* Goroutines that can run do; the ticker fires again and again; the done  *)
(* case of the select is not neglected for ever.                           *)
FairSpec ==
  /\ Spec
  /\ \A p \in Publishers : WF_vars(PublisherNext(p))
  /\ WF_vars(ConsumerNext)
  /\ SF_vars(ContextDone)
  /\ WF_vars(RouterStops)

(* An event that is in the buffer is processed, or lost to newer ones,     *)
(* unless the consumer stops.                                              *)
EventsProcessed ==
  \A n \in 1..MaxEvents :
    npush >= n ~> \/ consumer = "stopped"
                  \/ \E i \in DOMAIN handled : handled[i] >= n

=============================================================================
