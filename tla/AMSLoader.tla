----------------------------- MODULE AMSLoader -----------------------------
(***************************************************************************)
(* The configuration loader that watches the Antimetal management service  *)
(* (internal/config/ams.go, subscription.go).                              *)
(*                                                                         *)
(* The stream goroutine keeps a stream to the service open, processes the  *)
(* objects of each response (ConfigCache!ProcessConfig), sends each to the *)
(* subscribers and answers the response with an ACK or a NACK.  The        *)
(* lifecycle goroutine expires configurations and sends them, holding the  *)
(* cache's lock.  Watch adds a subscriber and starts a goroutine that      *)
(* sends it the configurations cached at that time.  Close cancels the     *)
(* goroutines, waits for them and closes every subscriber's channel.       *)
(***************************************************************************)
EXTENDS ConfigCache, Subscriptions, Functions

CONSTANTS
  Responses,     \* the responses of the service, sequences of objects
  MaxResponses   \* bound on the number of responses

ASSUME LoaderAssumption ==
  /\ Responses \subseteq Seq(Objects)
  /\ MaxResponses \in Nat

VARIABLES
  aged,        \* maxStreamAge has passed since runStream began
  stream,      \* where the stream goroutine is
  response,    \* the response it is working on
  configs,     \* the objects of it still to be processed
  rejected,    \* one of its objects was in error
  instance,    \* the instance being sent
  streamTodo,  \* subscribers to which it has still to be sent
  nresp,       \* number of responses received
  lifecycle,   \* where the lifecycle goroutine is
  expired,     \* the expired instance being sent
  lifeTodo,    \* subscribers to which it has still to be sent
  watch,       \* where each call of Watch is
  pending,     \* the cached instances it has still to send
  cancelled,   \* the loader's context is done
  closing,     \* where Close is
  panicked,    \* the process died on a send to a closed channel
  acked,       \* history: the objects acknowledged
  gone         \* history: the instances expired

respVars == <<response, configs, rejected, nresp, acked>>
sendVars == <<instance, streamTodo>>
streamVars == <<aged, stream, respVars, sendVars>>
lifeVars == <<lifecycle, expired, lifeTodo, gone>>
watchVars == <<subs, watch, pending>>
closeVars == <<subsClosed, cancelled, closing, panicked>>
others == <<lifeVars, watchVars, chanVars, closeVars>>
vars == <<cacheVars, streamVars, others>>

Init ==
  /\ CacheInit
  /\ SubsInit
  /\ aged = FALSE
  /\ stream = "manage"
  /\ response = <<>>
  /\ configs = <<>>
  /\ rejected = FALSE
  /\ instance = None
  /\ streamTodo = <<>>
  /\ nresp = 0
  /\ lifecycle = "tick"
  /\ expired = None
  /\ lifeTodo = <<>>
  /\ watch = [w \in Watchers |-> "none"]
  /\ pending = [w \in Watchers |-> {}]
  /\ cancelled = FALSE
  /\ closing = "open"
  /\ panicked = FALSE
  /\ acked = {}
  /\ gone = {}

Alive == ~crashed /\ ~panicked

-----------------------------------------------------------------------------
Cached(k) == Instance(k, cache[k].version, cache[k].ok, FALSE)

(* Locks that are held while a goroutine waits: the read lock of the       *)
(* subscriptions by a goroutine in subscriptions.send, and the lock of the *)
(* cache by the lifecycle goroutine there.                                 *)
SubsLocked == stream = "send" \/ lifecycle = "send"

CacheLocked == lifecycle = "send"

-----------------------------------------------------------------------------
(* The stream goroutine. *)

ManageStream ==
  /\ Alive
  /\ stream = "manage"
  /\ stream' = IF cancelled THEN "done" ELSE "connect"
  /\ aged' = FALSE
  /\ UNCHANGED <<cacheVars, respVars, sendVars, others>>

(* WatchConfig succeeds.  It need not, the service may be down.  The       *)
(* deadline of its context was set when runStream began, before the first  *)
(* attempt.                                                                *)
Connect ==
  /\ Alive
  /\ stream = "connect"
  /\ ~aged /\ ~cancelled
  /\ stream' = "initial"
  /\ UNCHANGED <<cacheVars, aged, respVars, sendVars, others>>

(* Mutant: runStream does not look at the loader's context.                *)
ConnectOrHang ==
  /\ Alive
  /\ stream = "connect"
  /\ cancelled /\ aged
  /\ stream' = "manage"
  /\ UNCHANGED <<cacheVars, aged, respVars, sendVars, others>>

GiveUpConnecting ==
  /\ Alive
  /\ stream = "connect"
  /\ cancelled
  /\ stream' = "manage"
  /\ UNCHANGED <<cacheVars, aged, respVars, sendVars, others>>

(* stream.Send may fail whatever the state of the stream seems to be. *)
SendInitialRequest ==
  /\ Alive
  /\ stream = "initial"
  /\ ~CacheLocked
  /\ stream' \in {"recv", "manage"}
  /\ UNCHANGED <<cacheVars, aged, respVars, sendVars, others>>

(* stream.Recv returns an error. *)
StreamEnds ==
  /\ Alive
  /\ stream = "recv"
  /\ stream' = "manage"
  /\ UNCHANGED <<cacheVars, aged, respVars, sendVars, others>>

Recv(resp) ==
  /\ Alive
  /\ stream = "recv"
  /\ ~aged /\ ~cancelled
  /\ nresp < MaxResponses
  /\ nresp' = nresp + 1
  /\ response' = resp
  /\ configs' = resp
  /\ rejected' = FALSE
  /\ stream' = IF resp = <<>> THEN "ack" ELSE "process"
  /\ UNCHANGED <<cacheVars, aged, acked, sendVars, others>>

(* Mutant: only the last object of a response counts as an error.          *)
StreamProcessLast ==
  /\ Alive
  /\ stream = "process"
  /\ ~CacheLocked
  /\ LET obj == Head(configs)
     IN  /\ ProcessConfig(obj)
         /\ instance' = Instance(obj.key, obj.version, IsAccepted(obj), FALSE)
         /\ rejected' = ~IsAccepted(obj)
  /\ configs' = Tail(configs)
  /\ stream' = "processed"
  /\ UNCHANGED <<aged, response, streamTodo, nresp, acked, others>>

StreamProcess ==
  /\ Alive
  /\ stream = "process"
  /\ ~CacheLocked
  /\ LET obj == Head(configs)
     IN  /\ ProcessConfig(obj)
         /\ instance' = Instance(obj.key, obj.version, IsAccepted(obj), FALSE)
         /\ rejected' = (rejected \/ ~IsAccepted(obj))
  /\ configs' = Tail(configs)
  /\ stream' = "processed"
  /\ UNCHANGED <<aged, response, streamTodo, nresp, acked, others>>

(* Mutant: subscribers that still wait for the cached ones are skipped.    *)
StreamSendsToInitialized ==
  /\ Alive
  /\ stream = "processed"
  /\ stream' = "send"
  /\ streamTodo' = SelectSeq(subs, LAMBDA w : watch[w] = "done")
  /\ UNCHANGED <<cacheVars, aged, respVars, instance, others>>

(* subscriptions.send takes its read lock after the cache's lock has been  *)
(* released.                                                               *)
StreamSendBegins ==
  /\ Alive
  /\ stream = "processed"
  /\ stream' = "send"
  /\ streamTodo' = SendTodo
  /\ UNCHANGED <<cacheVars, aged, respVars, instance, others>>

StreamSend ==
  /\ Alive
  /\ stream = "send"
  /\ streamTodo # <<>>
  /\ SendTo(Head(streamTodo), instance)
  /\ streamTodo' = Tail(streamTodo)
  /\ UNCHANGED <<cacheVars, aged, stream, respVars, instance,
                 lifeVars, watchVars, closeVars>>

StreamSendEnds ==
  /\ Alive
  /\ stream = "send"
  /\ streamTodo = <<>>
  /\ stream' = IF configs = <<>> THEN "ack" ELSE "process"
  /\ instance' = None
  /\ UNCHANGED <<cacheVars, aged, respVars, streamTodo, others>>

(* The answer is an ACK unless an object was rejected.  When stream.Send   *)
(* fails the stream is given up.                                           *)
Ack ==
  /\ Alive
  /\ stream = "ack"
  /\ stream' \in {"recv", "manage"}
  /\ acked' = IF stream' = "recv" /\ ~rejected THEN acked \cup Range(response) ELSE acked
  /\ response' = <<>>
  /\ rejected' = FALSE
  /\ UNCHANGED <<cacheVars, aged, configs, nresp, sendVars, others>>

StreamNext ==
  \/ ManageStream
  \/ Connect
  \/ GiveUpConnecting
  \/ SendInitialRequest
  \/ StreamEnds
  \/ \E resp \in Responses : Recv(resp)
  \/ StreamProcess
  \/ StreamSendBegins
  \/ StreamSend
  \/ StreamSendEnds
  \/ Ack

-----------------------------------------------------------------------------
(* The lifecycle goroutine. *)

LifecyclePop ==
  /\ Alive
  /\ lifecycle = "tick"
  /\ PopExpired
  /\ lifecycle' = "popped"
  /\ UNCHANGED <<streamVars, expired, lifeTodo, gone, watchVars, chanVars, closeVars>>

(* The entry is deleted, whatever version it holds by now, and sent with   *)
(* the lock of the cache held.                                             *)
LifecycleDelete ==
  /\ Alive
  /\ lifecycle = "popped"
  /\ DeletePopped
  /\ IF cache[popped] = None
     THEN /\ lifecycle' = "tick"
          /\ UNCHANGED <<expired, lifeTodo, gone>>
     ELSE /\ lifecycle' = "send"
          /\ expired' = [Cached(popped) EXCEPT !.expired = TRUE]
          /\ lifeTodo' = SendTodo
          /\ gone' = gone \cup {expired'}
  /\ UNCHANGED <<streamVars, watchVars, chanVars, closeVars>>

LifecycleSend ==
  /\ Alive
  /\ lifecycle = "send"
  /\ lifeTodo # <<>>
  /\ SendTo(Head(lifeTodo), expired)
  /\ lifeTodo' = Tail(lifeTodo)
  /\ UNCHANGED <<cacheVars, streamVars, lifecycle, expired, gone, watchVars, closeVars>>

LifecycleSendEnds ==
  /\ Alive
  /\ lifecycle = "send"
  /\ lifeTodo = <<>>
  /\ lifecycle' = "tick"
  /\ expired' = None
  /\ UNCHANGED <<cacheVars, streamVars, lifeTodo, gone, watchVars, chanVars, closeVars>>

LifecycleStops ==
  /\ Alive
  /\ lifecycle = "tick"
  /\ cancelled
  /\ lifecycle' = "done"
  /\ UNCHANGED <<cacheVars, streamVars, expired, lifeTodo, gone, watchVars, chanVars, closeVars>>

LifecycleNext ==
  \/ LifecyclePop
  \/ LifecycleDelete
  \/ LifecycleSend
  \/ LifecycleSendEnds
  \/ LifecycleStops

-----------------------------------------------------------------------------
(* Watch. *)

WatchAdd(w) ==
  /\ Alive
  /\ watch[w] = "none"
  /\ ~SubsLocked
  /\ IF subsClosed
     THEN /\ watch' = [watch EXCEPT ![w] = "nil"]
          /\ subs' = subs
     ELSE /\ watch' = [watch EXCEPT ![w] = "added"]
          /\ subs' = Append(subs, w)
  /\ UNCHANGED <<cacheVars, streamVars, lifeVars, pending, chanVars, closeVars>>

(* wg.Add and the go statement. *)
WatchStart(w) ==
  /\ Alive
  /\ watch[w] = "added"
  /\ watch' = [watch EXCEPT ![w] = "list"]
  /\ UNCHANGED <<cacheVars, streamVars, lifeVars, subs, pending, chanVars, closeVars>>

(* ListConfigs takes the filters as Watch got them: an unset status        *)
(* matches every configuration.                                            *)
ListConfigs(f) == {inst \in {Cached(k) : k \in {j \in Keys : cache[j] # None}} : Matches(inst, f)}

WatchList(w) ==
  /\ Alive
  /\ watch[w] = "list"
  /\ ~CacheLocked
  /\ pending' = [pending EXCEPT ![w] = ListConfigs(Filter[w])]
  /\ watch' = [watch EXCEPT ![w] = "send"]
  /\ UNCHANGED <<cacheVars, streamVars, lifeVars, subs, chanVars, closeVars>>

(* The instances are sent in the order of Go's maps, which is any. *)
WatchSend(w) ==
  /\ Alive
  /\ watch[w] = "send"
  /\ \E inst \in pending[w] :
       IF subsClosed
       THEN /\ panicked' = TRUE
            /\ UNCHANGED <<chanVars, pending>>
       ELSE /\ SendOn(w, inst)
            /\ pending' = [pending EXCEPT ![w] = @ \ {inst}]
            /\ panicked' = panicked
  /\ UNCHANGED <<cacheVars, streamVars, lifeVars, subs, watch,
                 subsClosed, cancelled, closing>>

WatchDone(w) ==
  /\ Alive
  /\ watch[w] = "send"
  /\ pending[w] = {}
  /\ watch' = [watch EXCEPT ![w] = "done"]
  /\ UNCHANGED <<cacheVars, streamVars, lifeVars, subs, pending, chanVars, closeVars>>

WatchReceive(w) ==
  /\ Alive
  /\ Receive(w)
  /\ UNCHANGED <<cacheVars, streamVars, lifeVars, watchVars, left, sent, closeVars>>

WatchLeave(w) ==
  /\ Alive
  /\ watch[w] \notin {"none", "nil"}
  /\ Leave(w)
  /\ UNCHANGED <<cacheVars, streamVars, lifeVars, watchVars, queued, sent, closeVars>>

WatchNext(w) == WatchStart(w) \/ WatchList(w) \/ WatchSend(w) \/ WatchDone(w)

-----------------------------------------------------------------------------
(* Close. *)

Close ==
  /\ Alive
  /\ closing = "open"
  /\ closing' = "wait"
  /\ cancelled' = TRUE
  /\ UNCHANGED <<cacheVars, streamVars, lifeVars, watchVars, chanVars, subsClosed, panicked>>

(* wg.Wait: a call of Watch that has not yet added itself is not waited    *)
(* for.                                                                    *)
CloseWait ==
  /\ Alive
  /\ closing = "wait"
  /\ stream = "done" /\ lifecycle = "done"
  /\ \A w \in Watchers : watch[w] \notin {"list", "send"}
  /\ closing' = "waited"
  /\ UNCHANGED <<cacheVars, streamVars, lifeVars, watchVars, chanVars,
                 subsClosed, cancelled, panicked>>

CloseSubs ==
  /\ Alive
  /\ closing = "waited"
  /\ closing' = "closed"
  /\ subsClosed' = TRUE
  /\ UNCHANGED <<cacheVars, streamVars, lifeVars, watchVars, chanVars, cancelled, panicked>>

CloseNext == CloseWait \/ CloseSubs

-----------------------------------------------------------------------------
(* Time. *)

ClockTick ==
  /\ Alive
  /\ Tick
  /\ UNCHANGED <<streamVars, others>>

(* maxStreamAge passes.  Only a call on the stream notices, and only while *)
(* the loader's own context is not done.                                   *)
StreamAges ==
  /\ Alive
  /\ stream \in {"connect", "recv"}
  /\ ~aged /\ ~cancelled
  /\ aged' = TRUE
  /\ UNCHANGED <<cacheVars, stream, respVars, sendVars, others>>

Next ==
  \/ StreamNext
  \/ LifecycleNext
  \/ \E w \in Watchers : WatchAdd(w) \/ WatchNext(w) \/ WatchReceive(w) \/ WatchLeave(w)
  \/ Close
  \/ CloseNext
  \/ ClockTick
  \/ StreamAges

Spec == Init /\ [][Next]_vars

-----------------------------------------------------------------------------

InstanceRecord ==
  [key : Keys, version : Int \cup {BadVersion}, ok : BOOLEAN, expired : BOOLEAN]

(* Every variable has a value of its type. *)
TypeOK ==
  /\ CacheTypeOK
  /\ {aged, rejected, subsClosed, cancelled, panicked} \subseteq BOOLEAN
  /\ stream \in {"manage", "connect", "initial", "recv", "process", "processed", "send", "ack", "done"}
  /\ response \in Seq(Objects) /\ configs \in Seq(Objects)
  /\ nresp \in 0..MaxResponses
  /\ lifecycle \in {"tick", "popped", "send", "done"}
  /\ instance \in InstanceRecord \cup {None} /\ expired \in InstanceRecord \cup {None}
  /\ streamTodo \in Seq(Watchers) /\ lifeTodo \in Seq(Watchers) /\ subs \in Seq(Watchers)
  /\ watch \in [Watchers -> {"none", "nil", "added", "list", "send", "done"}]
  /\ pending \in [Watchers -> SUBSET InstanceRecord]
  /\ queued \in [Watchers -> 0..ChanCap]
  /\ left \subseteq Watchers
  /\ sent \in [Watchers -> SUBSET InstanceRecord]
  /\ closing \in {"open", "wait", "waited", "closed"}
  /\ acked \subseteq Objects
  /\ gone \subseteq InstanceRecord

(* What the service was told is accepted is cached and valid, in that      *)
(* version or a later one, unless the lifecycle goroutine has deleted it,  *)
(* be it because of the deadline of a version before: a response is        *)
(* acknowledged only if every object in it was.                            *)
AckedIsCached ==
  \A obj \in acked :
    /\ obj.version # BadVersion
    /\ \/ cache[obj.key] # None /\ cache[obj.key].ok /\ cache[obj.key].version >= obj.version
       \/ \E inst \in gone : inst.key = obj.key /\ inst.ok /\ inst.version >= obj.version

OnItsWay(inst, w) ==
  \/ inst \in pending[w]
  \/ stream = "processed" /\ instance = inst
  \/ stream = "send" /\ instance = inst /\ w \in Range(streamTodo)
  \/ lifecycle = "send" /\ expired = inst /\ w \in Range(lifeTodo)

Delivered(inst, w) == inst \in sent[w] \/ OnItsWay(inst, w)

(* "Instances received on the channel SHOULD have at minimum AT LEAST ONCE *)
(* semantics" (types.go:76): whatever is cached has been sent to a         *)
(* subscriber whose filter it matches, or is on its way, although Watch    *)
(* adds the subscriber and lists the cache in two steps.                   *)
AtLeastOnce ==
  \A w \in Range(subs) : watch[w] \notin {"added", "list"} /\ Alive =>
    \A k \in Keys : cache[k] # None /\ Matches(Cached(k), SubFilter(w))
                       => Delivered(Cached(k), w)

-----------------------------------------------------------------------------
(* Liveness. *)

(* Every goroutine that can run is run.  No attempt to connect need ever   *)
(* succeed, and stream.Recv need not return before its context is done.    *)
(* The environment may call Watch and Close, or not.                       *)
GoroutineFairness ==
  /\ WF_vars(/\ StreamNext
             /\ stream = "connect" => cancelled
             /\ stream = "recv" => aged \/ cancelled)
  /\ WF_vars(LifecycleNext)
  /\ \A w \in Watchers : WF_vars(WatchNext(w))
  /\ WF_vars(CloseNext)

(* A subscriber receives until it leaves. *)
SubscribersReceive == \A w \in Watchers : WF_vars(WatchReceive(w))

FairSpec == Spec /\ GoroutineFairness /\ SubscribersReceive

(* A goroutine waits forever for a subscriber that has left its channel    *)
(* full.                                                                   *)
SendStuck ==
  \/ stream = "send" /\ streamTodo # <<>> /\ Unreceived(Head(streamTodo), instance)
  \/ lifecycle = "send" /\ lifeTodo # <<>> /\ Unreceived(Head(lifeTodo), expired)
  \/ \E w \in left : watch[w] = "send" /\ pending[w] # {} /\ queued[w] = ChanCap

(* Close returns with all channels closed, whatever the goroutines were    *)
(* doing and whatever locks they held or waited for when it was called.    *)
(* One thing alone can keep it from returning: none of the sends of send   *)
(* and Watch looks at the context, so that one to a full channel whose     *)
(* subscriber has left, as collectorManager does when the agent stops,     *)
(* never ends.                                                             *)
CloseReturns == cancelled ~> (closing = "closed" \/ ~Alive \/ SendStuck)

=============================================================================
