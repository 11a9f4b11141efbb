--------------------------- MODULE K8sController ---------------------------
(***************************************************************************)
(* The Kubernetes controller (internal/kubernetes/agent): the informers'   *)
(* event handlers put events into a rate-limited queue; one worker takes   *)
(* them out and writes the objects into the resource store, and what       *)
(* failed with a retryable error comes back later.                         *)
(*                                                                         *)
(* The API server, the informers and the queue are external.  The queue    *)
(* delays what is added: events that are new keep their order, an event    *)
(* that is added again waits for any length of time.  No one else writes   *)
(* these resources, and a relationship asked for with subject, object and  *)
(* predicate is found exactly if it is there (StoreDB): the relationships  *)
(* of the store are a set.                                                 *)
(***************************************************************************)
EXTENDS K8sGenerate, FiniteSets

CONSTANTS
  Versions,    \* the contents each object has, one after the other
  Settings,    \* the command lines and environments the agent starts in
  MaxDeletes,  \* bound: how many objects are deleted
  MaxRelists,  \* bound: how many deletions a watch misses
  MaxFaults    \* bound: how many calls on the store fail

Objects == DOMAIN Versions

(* The cluster is no object of the API server. *)
ASSUME VersionsAssumption ==
  \A o \in Objects : /\ Len(Versions[o]) \in Nat
                    /\ \A v \in 1..Len(Versions[o]) : Versions[o][v].kind # "Cluster"

Kinds == {Versions[o][1].kind : o \in Objects}

VARIABLES
  setting,   \* the command line and the environment
  made,      \* the API server: how many versions an object has had
  alive,     \*   and the objects that exist
  known,     \* the informers: the version they have of an object, 0 if none
  watched,   \*   and the kinds that have an event handler
  pc,        \* where Start is
  cluster,   \* the indexer's clusterName
  cancelled, \* the manager's context is done
  worker,    \* where indexWorker is
  queue,     \* the events that can be taken
  waiting,   \* the events that were added again and are not due yet
  shut,      \* the queue is shut down
  store,     \* the resources in the store
  rels,      \* the relationships in the store
  dropped,   \* the events given up after an error
  deletes, relists, faults

vars == <<setting, made, alive, known, watched, pc, cluster, cancelled, worker, queue, waiting, shut,
          store, rels, dropped, deletes, relists, faults>>

server   == <<made, alive, deletes>>
informer == <<known, watched, relists>>
control  == <<setting, pc, cluster, cancelled, worker>>
work     == <<queue, waiting, shut>>
index    == <<store, rels, dropped, faults>>

Init ==
  /\ setting \in Settings
  /\ made = [o \in Objects |-> 0] /\ alive = {}
  /\ known = [o \in Objects |-> 0] /\ watched = {}
  /\ pc = "setup" /\ cluster = "" /\ cancelled = FALSE /\ worker = "off"
  /\ queue = <<>> /\ waiting = {} /\ shut = FALSE
  /\ store = <<>> /\ rels = {} /\ dropped = {}
  /\ deletes = 0 /\ relists = 0 /\ faults = 0

-----------------------------------------------------------------------------
(* The cluster, while there is an agent to see it. *)

Up == pc \notin {"failed", "ended"}

(* An object is created, changed, or created again. *)
Apply(o) ==
  /\ Up /\ made[o] < Len(Versions[o])
  /\ made' = [made EXCEPT ![o] = @ + 1]
  /\ alive' = alive \cup {o}
  /\ UNCHANGED <<deletes, informer, control, work, index>>

Destroy(o) ==
  /\ Up /\ o \in alive /\ deletes < MaxDeletes
  /\ alive' = alive \ {o}
  /\ deletes' = deletes + 1
  /\ UNCHANGED <<made, informer, control, work, index>>

(* The handlers' common part: AddRateLimited, which a queue that is shut   *)
(* down ignores.                                                           *)
Handle(typ, o, v) ==
  queue' = IF shut THEN queue ELSE Append(queue, [typ |-> typ, obj |-> o, ver |-> v])

Watched(o) == Up /\ Versions[o][1].kind \in watched

OnAdd(o) ==
  /\ Watched(o) /\ o \in alive /\ known[o] = 0
  /\ known' = [known EXCEPT ![o] = made[o]]
  /\ Handle("add", o, made[o])
  /\ UNCHANGED <<server, watched, relists, control, waiting, shut, index>>

OnUpdate(o) ==
  /\ Watched(o) /\ o \in alive /\ known[o] \notin {0, made[o]}
  /\ known' = [known EXCEPT ![o] = made[o]]
  /\ Handle("update", o, made[o])
  /\ UNCHANGED <<server, watched, relists, control, waiting, shut, index>>

OnDelete(o) ==
  /\ Watched(o) /\ o \notin alive /\ known[o] # 0
  /\ known' = [known EXCEPT ![o] = 0]
  /\ Handle("delete", o, known[o])
  /\ UNCHANGED <<server, watched, relists, control, waiting, shut, index>>

(* A deletion that the watch missed is found by a relist; the handler gets *)
(* a tombstone, which is no object, and ignores it.                        *)
OnTombstone(o) ==
  /\ Watched(o) /\ o \notin alive /\ known[o] # 0
  /\ relists < MaxRelists /\ relists' = relists + 1
  /\ known' = [known EXCEPT ![o] = 0]
  /\ UNCHANGED <<server, watched, control, work, index>>

-----------------------------------------------------------------------------
(* The controller's life. *)

(* The store after UpdateResource, which also adds what is not there. *)
UpdateResource(ref, rsrc) == [r \in DOMAIN store \cup {ref} |-> IF r = ref THEN rsrc ELSE store[r]]

(* SetupWithManager: without a provider the agent does not start. *)
SetupWithManager ==
  /\ pc = "setup"
  /\ pc' = IF GetProvider(setting.flags, setting.env) = Failed THEN "failed" ELSE "start"
  /\ UNCHANGED <<server, informer, setting, cluster, cancelled, worker, work, index>>

(* Start as far as LoadClusterInfo; the API server or the store may fail.  *)
Start ==
  /\ pc = "start"
  /\ LET p == GetProvider(setting.flags, setting.env)
         c == ClusterResource(p, setting.env)
     IN  \/ /\ c # Failed
            /\ pc' = "sync" /\ cluster' = c.uid
            /\ store' = UpdateResource(ClusterRef(c.uid), c)
            /\ UNCHANGED faults
         \/ /\ c = Failed
            /\ pc' = "failed"
            /\ UNCHANGED <<cluster, store, faults>>
         \/ /\ faults < MaxFaults /\ faults' = faults + 1
            /\ pc' = "failed"
            /\ UNCHANGED <<cluster, store>>
  /\ UNCHANGED <<server, informer, setting, cancelled, worker, work, rels, dropped>>

(* syncCache, one kind after the other in any order. *)
SyncCache(k) ==
  /\ pc = "sync"
  /\ watched' = watched \cup {k}
  /\ IF watched' = Kinds THEN pc' = "run" /\ worker' = "loop" ELSE UNCHANGED <<pc, worker>>
  /\ UNCHANGED <<server, known, relists, setting, cluster, cancelled, work, index>>

(* The time is up, or the manager stops; handlers that are registered stay *)
(* so.                                                                     *)
SyncCacheFails ==
  /\ pc = "sync"
  /\ pc' = "failed"
  /\ UNCHANGED <<server, informer, setting, cluster, cancelled, worker, work, index>>

Cancel ==
  /\ Up /\ ~cancelled /\ cancelled' = TRUE
  /\ UNCHANGED <<server, informer, setting, pc, cluster, worker, work, index>>

(* Mutant: Start waits for the worker without waking it. *)
ShutdownForgetsQueue ==
  /\ pc = "run" /\ cancelled
  /\ pc' = "wait"
  /\ UNCHANGED <<server, informer, setting, cluster, cancelled, worker, work, index>>

Shutdown ==
  /\ pc = "run" /\ cancelled
  /\ pc' = "wait" /\ shut' = TRUE /\ waiting' = {}
  /\ UNCHANGED <<server, informer, setting, cluster, cancelled, worker, queue, index>>

StartReturns ==
  /\ pc = "wait" /\ worker = "ended"
  /\ pc' = "ended"
  /\ UNCHANGED <<server, informer, setting, cluster, cancelled, worker, work, index>>

-----------------------------------------------------------------------------
(* The worker. *)

(* indexWorker: the context first, then the queue. *)
IndexWorker ==
  /\ worker = "loop"
  /\ worker' = IF cancelled THEN "ended" ELSE "get"
  /\ UNCHANGED <<server, informer, setting, pc, cluster, cancelled, work, index>>

(* Get on an empty queue returns when the queue is shut down. *)
GetShutdown ==
  /\ worker = "get" /\ queue = <<>> /\ shut
  /\ worker' = "loop"
  /\ UNCHANGED <<server, informer, setting, pc, cluster, cancelled, work, index>>

(* The retryable error. *)
AddRateLimited(ev) == waiting' = IF shut THEN waiting ELSE waiting \cup {ev}

(* Mutant: relationships that could not be written are forgotten. *)
UpdateForgets(ev) ==
  LET g   == Generate(store, cluster, Versions[ev.obj][ev.ver])
      ref == Ref(Versions[ev.obj][ev.ver])
  IN  \/ /\ g = Retry
         /\ AddRateLimited(ev)
         /\ UNCHANGED <<store, rels, dropped, faults>>
      \/ /\ g = Failed
         /\ dropped' = dropped \cup {ev}
         /\ UNCHANGED <<waiting, store, rels, faults>>
      \/ /\ g \notin {Failed, Retry}
         /\ store' = UpdateResource(ref, g.rsrc)
         /\ \/ rels' = rels \cup g.rels /\ UNCHANGED faults
            \/ faults < MaxFaults /\ faults' = faults + 1 /\ UNCHANGED rels
         /\ UNCHANGED <<waiting, dropped>>

(* indexer.Update.  A failure to write the resource is final, one to read  *)
(* or write the relationships is not.                                      *)
Update(ev) ==
  LET g   == Generate(store, cluster, Versions[ev.obj][ev.ver])
      ref == Ref(Versions[ev.obj][ev.ver])
  IN  \/ /\ g = Retry
         /\ AddRateLimited(ev)
         /\ UNCHANGED <<store, rels, dropped, faults>>
      \/ /\ g = Failed
         /\ dropped' = dropped \cup {ev}
         /\ UNCHANGED <<waiting, store, rels, faults>>
      \/ /\ g \notin {Failed, Retry}
         /\ \/ /\ store' = UpdateResource(ref, g.rsrc)
               /\ rels' = rels \cup g.rels
               /\ UNCHANGED <<waiting, dropped, faults>>
            \/ /\ faults < MaxFaults /\ faults' = faults + 1
               /\ dropped' = dropped \cup {ev}
               /\ UNCHANGED <<waiting, store, rels>>
            \/ /\ faults < MaxFaults /\ faults' = faults + 1
               /\ store' = UpdateResource(ref, g.rsrc)
               /\ AddRateLimited(ev)
               /\ UNCHANGED <<rels, dropped>>

(* indexer.Delete: the resource and all of its relationships; an error is  *)
(* final.                                                                  *)
Delete(ev) ==
  LET ref == Ref(Versions[ev.obj][ev.ver])
  IN  \/ /\ store' = [r \in DOMAIN store \ {ref} |-> store[r]]
         /\ rels' = {x \in rels : ref \notin {x.subj, x.obj}}
         /\ UNCHANGED <<waiting, dropped, faults>>
      \/ /\ faults < MaxFaults /\ faults' = faults + 1
         /\ dropped' = dropped \cup {ev}
         /\ UNCHANGED <<waiting, store, rels>>

(* indexObjects. *)
IndexObjects ==
  /\ worker = "get" /\ queue # <<>>
  /\ LET ev == Head(queue) IN IF ev.typ = "delete" THEN Delete(ev) ELSE Update(ev)
  /\ queue' = Tail(queue)
  /\ worker' = "loop"
  /\ UNCHANGED <<server, informer, setting, pc, cluster, cancelled, shut>>

(* The delay of a retry is over. *)
Due(ev) ==
  /\ ev \in waiting
  /\ waiting' = waiting \ {ev}
  /\ queue' = Append(queue, ev)
  /\ UNCHANGED <<server, informer, control, shut, index>>

Over ==
  /\ pc \in {"failed", "ended"}
  /\ UNCHANGED vars

Informer(o) == OnAdd(o) \/ OnUpdate(o) \/ OnDelete(o)

StartStep == Start \/ (\E k \in Kinds \ watched : SyncCache(k)) \/ Shutdown \/ StartReturns

WorkerStep == IndexWorker \/ GetShutdown \/ IndexObjects

Next ==
  \/ SetupWithManager \/ StartStep \/ SyncCacheFails \/ Cancel \/ WorkerStep
  \/ \E o \in Objects : Apply(o) \/ Destroy(o) \/ Informer(o) \/ OnTombstone(o)
  \/ \E ev \in waiting : Due(ev)
  \/ Over

(* The goroutines of Start and of the worker run, the informers deliver    *)
(* what has happened and the delay of a retry ends.                        *)
Spec ==
  /\ Init /\ [][Next]_vars
  /\ WF_<<pc, watched>>(SetupWithManager \/ StartStep)
  /\ WF_worker(WorkerStep)
  /\ \A o \in Objects : WF_known(Informer(o))
  /\ \A o \in Objects : \A v \in DOMAIN Versions[o] :
       WF_waiting(\E ev \in waiting : ev.obj = o /\ ev.ver = v /\ Due(ev))

-----------------------------------------------------------------------------
(* Properties. *)

(* Containment joins resources that are in the store, whatever is deleted, *)
(* retried or applied late: a pod is written only when its node is there,  *)
(* the cluster is written first, and the deletion of a resource takes its  *)
(* relationships with it.  (The other relationships may dangle.)           *)
ContainmentJoinsResources ==
  \A x \in rels : x.pred \in {"Contains", "ContainedBy"} => {x.subj, x.obj} \subseteq DOMAIN store

(* The event for the object as it is now was given up. *)
GivenUp(o) == \E ev \in dropped : ev.obj = o /\ ev.ver = made[o]

Indexed(o) ==
  LET g == Generate(store, cluster, Versions[o][made[o]])
  IN  g \notin {Failed, Retry} => Ref(Versions[o][made[o]]) \in DOMAIN store /\ g.rels \subseteq rels

Running == pc \in {"setup", "start", "sync", "run"} /\ ~cancelled

(* As long as nothing is deleted, every object gets into the store with    *)
(* the relationships of its latest version and stays there, in whatever    *)
(* order pods and nodes arrive and although relationships fail to be       *)
(* written.  Left out are an object whose own write failed, one with an    *)
(* owner of a kind that is not known, and a pod on a node that is not in   *)
(* the store because the node's own write failed.                          *)
EventuallyIndexed ==
  [](Running /\ deletes = 0) => <>[](pc = "run" /\ \A o \in alive : GivenUp(o) \/ Indexed(o))

(* Start returns when the context is done, also with the worker blocked on *)
(* an empty queue or with work left.                                       *)
StopsWhenCancelled == cancelled ~> pc \in {"failed", "ended"}

=============================================================================
