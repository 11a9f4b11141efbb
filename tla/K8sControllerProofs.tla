------------------------ MODULE K8sControllerProofs ------------------------
(***************************************************************************)
(* Proofs about the Kubernetes controller, for all objects with all their  *)
(* versions, all settings and any number of deletions, relists and faults. *)
(***************************************************************************)
EXTENDS K8sController, SequenceTheorems, TLAPS

Containment == {"Contains", "ContainedBy"}

(* Containment among some relationships joins only members of a set. *)
Joins(rs, refs) == \A x \in rs : x.pred \in Containment => x.subj \in refs /\ x.obj \in refs

-----------------------------------------------------------------------------
(* What the generators say of containment. *)

(* Relationships both ways join the two they are made for, and are not     *)
(* containment unless their predicates are (generate.go:366).              *)
LEMMA BothWaysJoin ==
  ASSUME NEW a, NEW b, NEW pred, NEW back, NEW refs,
         (pred \in Containment \/ back \in Containment) => a \in refs /\ b \in refs
  PROVE  Joins(BothWays(a, pred, back, b), refs)
BY DEF Joins, BothWays, Rel

(* genBase relates an object by containment to its cluster only; owners    *)
(* are related by ownership (generate.go:314).                             *)
LEMMA GenBaseJoins ==
  ASSUME NEW c, NEW o
  PROVE  Joins(GenBase(c, o).rels, {ClusterRef(c), Ref(o)})
<1> DEFINE refs == {ClusterRef(c), Ref(o)}
<1>1. Joins(BothWays(ClusterRef(c), "Contains", "ContainedBy", Ref(o)), refs)
  BY BothWaysJoin
<1>2. ASSUME NEW w PROVE Joins(BothWays(<<w.kind, o.ns, w.name>>, "Owns", "OwnedBy", Ref(o)), refs)
  BY BothWaysJoin, Zenon DEF Containment
<1>3. GenBase(c, o).rels =
        BothWays(ClusterRef(c), "Contains", "ContainedBy", Ref(o))
        \cup UNION {BothWays(<<w.kind, o.ns, w.name>>, "Owns", "OwnedBy", Ref(o)) : w \in Range(o.owners)}
  BY Zenon DEF GenBase
<1>4. QED
  BY <1>1, <1>2, <1>3, Zenon DEF Joins

(* genPod relates a pod by containment to its cluster and to a node that   *)
(* is in the store (generate.go:81).                                       *)
LEMMA GenPodJoins ==
  ASSUME NEW st, NEW c, NEW o, GenPod(st, c, o) # Retry
  PROVE  Joins(GenPod(st, c, o).rels, {ClusterRef(c), Ref(o)} \cup DOMAIN st)
<1> DEFINE base   == GenBase(c, o)
           node   == <<"Node", "", o.node>>
           claims == UNION {BothWays(<<"PersistentVolumeClaim", o.ns, cl>>, "AttachedTo", "VolumeMount", Ref(o)) :
                              cl \in Range(o.claims)}
           refs   == {ClusterRef(c), Ref(o)} \cup DOMAIN st
<1>1. Joins(base.rels, refs)
  BY GenBaseJoins, Zenon DEF Joins
<1>2. Joins(claims, refs)
  <2>1. ASSUME NEW cl
        PROVE  Joins(BothWays(<<"PersistentVolumeClaim", o.ns, cl>>, "AttachedTo", "VolumeMount", Ref(o)), refs)
    BY BothWaysJoin DEF Containment
  <2>2. QED
    BY <2>1, Zenon DEF Joins
<1>3. CASE o.node = ""
  <2>1. GenPod(st, c, o).rels = base.rels \cup claims
    BY <1>3, Zenon DEF GenPod, GenBase
  <2>2. QED
    BY <1>1, <1>2, <2>1, Zenon DEF Joins
<1>4. CASE o.node # ""
  <2>1. node \in DOMAIN st
    BY <1>4, Zenon DEF GenPod
  <2>2. GenPod(st, c, o).rels = base.rels \cup BothWays(node, "Contains", "ContainedBy", Ref(o)) \cup claims
    BY <1>4, <2>1, Zenon DEF GenPod, GenBase, Located
  <2>3. Joins(BothWays(node, "Contains", "ContainedBy", Ref(o)), refs)
    <3>1. node \in refs /\ Ref(o) \in refs
      BY <2>1, Zenon
    <3> HIDE DEF node, refs
    <3>2. QED
      BY <3>1, BothWaysJoin, Zenon
  <2>4. QED
    BY <1>1, <1>2, <2>2, <2>3, Zenon DEF Joins
<1>5. QED
  BY <1>3, <1>4, Zenon

(* Whatever generate makes of an object, containment joins the object, its *)
(* cluster and what is in the store (generate.go:25).                      *)
LEMMA GenerateJoins ==
  ASSUME NEW st, NEW c, NEW o, Generate(st, c, o) \notin {Failed, Retry}
  PROVE  Joins(Generate(st, c, o).rels, {ClusterRef(c), Ref(o)} \cup DOMAIN st)
<1> DEFINE refs == {ClusterRef(c), Ref(o)} \cup DOMAIN st
<1>1. Joins(GenBase(c, o).rels, refs)
  BY GenBaseJoins, Zenon DEF Joins
<1>2. ASSUME NEW region, NEW zone PROVE Joins(Located(GenBase(c, o), region, zone).rels, refs)
  <2>1. Located(GenBase(c, o), region, zone).rels = GenBase(c, o).rels
    BY Zenon DEF Located, GenBase
  <2>2. QED
    BY <1>1, <2>1, Zenon
<1>3. Joins(GenPersistentVolumeClaim(c, o).rels, refs)
  <2>1. CASE o.volume = ""
    BY <1>1, <2>1, Zenon DEF GenPersistentVolumeClaim
  <2>2. CASE o.volume # ""
    <3> DEFINE bound == BothWays(Ref(o), "ClaimsFrom", "BoundBy", <<"PersistentVolume", "", o.volume>>)
    <3>1. GenPersistentVolumeClaim(c, o).rels = GenBase(c, o).rels \cup bound
      BY <2>2, Zenon DEF GenPersistentVolumeClaim, GenBase
    <3>2. Joins(bound, refs)
      <4>1. ~("ClaimsFrom" \in Containment \/ "BoundBy" \in Containment)
        BY Zenon DEF Containment
      <4> HIDE DEF refs
      <4>2. QED
        BY <4>1, BothWaysJoin, Zenon
    <3>3. QED
      BY <1>1, <3>1, <3>2, Zenon DEF Joins
  <2>3. QED
    BY <2>1, <2>2, Zenon
<1>4. GenPod(st, c, o) # Retry => Joins(GenPod(st, c, o).rels, refs)
  BY GenPodJoins, Zenon
<1>5. \/ Generate(st, c, o) = GenPod(st, c, o)
      \/ Generate(st, c, o) = GenNode(c, o)
      \/ Generate(st, c, o) = GenPersistentVolume(c, o)
      \/ Generate(st, c, o) = GenPersistentVolumeClaim(c, o)
      \/ Generate(st, c, o) = GenBase(c, o)
  BY DEF Generate
<1>6. QED
  BY <1>1, <1>2, <1>3, <1>4, <1>5, Zenon DEF GenNode, GenPersistentVolume

-----------------------------------------------------------------------------
(* The inductive invariant. *)

Events ==
  {ev \in [typ : {"add", "update", "delete"}, obj : Objects, ver : Nat \ {0}] : ev.ver <= Len(Versions[ev.obj])}

(* Events are about versions that objects have had. *)
EventsOK ==
  /\ made \in [Objects -> Nat] /\ known \in [Objects -> Nat]
  /\ \A o \in Objects : known[o] <= made[o] /\ made[o] <= Len(Versions[o])
  /\ alive \subseteq Objects
  /\ \A o \in alive : made[o] # 0
  /\ queue \in Seq(Events)
  /\ waiting \subseteq Events

(* The worker runs only after the cluster was written. *)
ClusterIndexed ==
  /\ worker # "off" => pc \in {"run", "wait", "ended"}
  /\ pc \in {"sync", "run", "wait", "ended"} => ClusterRef(cluster) \in DOMAIN store

K8sInv == EventsOK /\ ClusterIndexed /\ Joins(rels, DOMAIN store)

(* The state of the first action: no events and no relationships. *)
LEMMA InitInv == Init => K8sInv
<1> SUFFICES ASSUME Init PROVE K8sInv
  BY Zenon
<1>1. EventsOK
  <2>1. queue \in Seq(Events)
    BY EmptySeq, Zenon DEF Init
  <2>2. /\ made \in [Objects -> Nat] /\ known \in [Objects -> Nat]
        /\ alive = {} /\ waiting = {}
    BY Zenon DEF Init
  <2>3. \A o \in Objects : known[o] = 0 /\ made[o] = 0
    BY Zenon DEF Init
  <2>4. QED
    BY <2>1, <2>2, <2>3, VersionsAssumption DEF EventsOK
<1>2. ClusterIndexed /\ Joins(rels, DOMAIN store)
  BY Zenon DEF Init, ClusterIndexed, Joins
<1>3. QED
  BY <1>1, <1>2, Zenon DEF K8sInv

(* An event's reference is not the cluster's. *)
LEMMA EventNotCluster ==
  ASSUME NEW ev \in Events
  PROVE  Ref(Versions[ev.obj][ev.ver]) # ClusterRef(cluster)
<1>1. ev.obj \in Objects /\ ev.ver \in 1..Len(Versions[ev.obj])
  BY VersionsAssumption DEF Events
<1>2. Versions[ev.obj][ev.ver].kind # "Cluster"
  BY <1>1, VersionsAssumption, Zenon
<1>3. QED
  BY <1>2, Zenon DEF Ref, ClusterRef

(* AddRateLimited adds to the waiting events only. *)
LEMMA AddRateLimitedEvents ==
  ASSUME NEW ev \in Events, waiting \subseteq Events, AddRateLimited(ev)
  PROVE  waiting' \subseteq Events
BY Zenon DEF AddRateLimited

(* Update keeps containment among what is in the store (indexer.go:70). *)
LEMMA UpdateKeeps ==
  ASSUME NEW ev \in Events, Update(ev), UNCHANGED cluster,
         Joins(rels, DOMAIN store), ClusterRef(cluster) \in DOMAIN store, waiting \subseteq Events
  PROVE  /\ Joins(rels, DOMAIN store)' /\ ClusterRef(cluster)' \in DOMAIN store'
         /\ waiting' \subseteq Events
<1> DEFINE o   == Versions[ev.obj][ev.ver]
           g   == Generate(store, cluster, o)
           ref == Ref(o)
<1>1. CASE UNCHANGED <<store, rels>> /\ (AddRateLimited(ev) \/ UNCHANGED waiting)
  BY <1>1, AddRateLimitedEvents, Zenon DEF Joins
<1>2. CASE store' = UpdateResource(ref, g.rsrc) /\ UNCHANGED rels /\ AddRateLimited(ev)
  <2>1. DOMAIN store' = {ref} \cup DOMAIN store
    BY <1>2, Zenon DEF UpdateResource
  <2>2. QED
    BY <1>2, <2>1, AddRateLimitedEvents, Zenon DEF Joins
<1>3. CASE /\ g \notin {Failed, Retry} /\ store' = UpdateResource(ref, g.rsrc)
           /\ rels' = rels \cup g.rels /\ UNCHANGED waiting
  <2>1. DOMAIN store' = {ref} \cup DOMAIN store
    BY <1>3, Zenon DEF UpdateResource
  <2>2. Joins(g.rels, {ClusterRef(cluster), ref} \cup DOMAIN store)
    BY <1>3, GenerateJoins, Zenon
  <2>3. {ClusterRef(cluster), ref} \cup DOMAIN store = DOMAIN store'
    BY <2>1, Zenon
  <2> HIDE DEF g, ref
  <2>4. Joins(g.rels, DOMAIN store')
    BY <2>2, <2>3, Zenon
  <2>5. Joins(rels, DOMAIN store')
    BY <2>1, Zenon DEF Joins
  <2>6. QED
    BY <1>3, <2>1, <2>4, <2>5, Zenon DEF Joins
<1>4. QED
  BY <1>1, <1>2, <1>3, Zenon DEF Update

(* Delete takes the relationships of a resource with it (indexer.go:105).  *)
LEMMA DeleteKeeps ==
  ASSUME NEW ev \in Events, Delete(ev), UNCHANGED cluster,
         Joins(rels, DOMAIN store), ClusterRef(cluster) \in DOMAIN store, waiting \subseteq Events
  PROVE  /\ Joins(rels, DOMAIN store)' /\ ClusterRef(cluster)' \in DOMAIN store'
         /\ waiting' \subseteq Events
<1> DEFINE ref == Ref(Versions[ev.obj][ev.ver])
<1>1. ref # ClusterRef(cluster)
  BY EventNotCluster, Zenon
<1> HIDE DEF ref
<1>2. CASE /\ store' = [r \in DOMAIN store \ {ref} |-> store[r]]
           /\ rels' = {x \in rels : ref \notin {x.subj, x.obj}}
           /\ UNCHANGED waiting
  <2>1. DOMAIN store' = DOMAIN store \ {ref}
    BY <1>2, Zenon
  <2>2. Joins(rels', DOMAIN store')
    BY <1>2, <2>1, Zenon DEF Joins
  <2>3. QED
    BY <1>1, <1>2, <2>1, <2>2, Zenon DEF Joins, ClusterRef
<1>3. CASE UNCHANGED <<store, rels, waiting>>
  BY <1>3, Zenon DEF Joins
<1>4. QED
  BY <1>2, <1>3, Zenon DEF Delete, ref

(* The handlers put events about versions of objects into the queue.       *)
LEMMA HandleEvents ==
  ASSUME NEW typ \in {"add", "update", "delete"}, NEW o \in Objects, NEW v \in Nat \ {0},
         v <= Len(Versions[o]), queue \in Seq(Events), Handle(typ, o, v)
  PROVE  queue' \in Seq(Events)
<1> DEFINE ev == [typ |-> typ, obj |-> o, ver |-> v]
<1>1. ev \in Events
  BY Zenon DEF Events
<1> HIDE DEF ev
<1>2. queue' = queue \/ queue' = Append(queue, ev)
  BY Zenon DEF Handle, ev
<1>3. QED
  BY <1>1, <1>2

(* An informer's handler that queues an event keeps what is known of the   *)
(* events (handler.go).                                                    *)
LEMMA InformerEvents ==
  ASSUME EventsOK, NEW o \in Objects, Informer(o) \/ OnTombstone(o)
  PROVE  EventsOK'
<1> USE DEF EventsOK
<1>1. made[o] \in Nat /\ known[o] \in Nat /\ known[o] <= made[o] /\ made[o] <= Len(Versions[o])
  BY Zenon
<1>2. Len(Versions[o]) \in Nat
  BY VersionsAssumption, Zenon
<1>3. UNCHANGED <<made, alive, waiting>>
  BY Zenon DEF Informer, OnAdd, OnUpdate, OnDelete, OnTombstone, server, work
<1>4. CASE OnAdd(o) \/ OnUpdate(o)
  <2>1. /\ known' = [known EXCEPT ![o] = made[o]] /\ made[o] # 0
        /\ Handle("add", o, made[o]) \/ Handle("update", o, made[o])
    BY <1>4, Zenon DEF OnAdd, OnUpdate
  <2>2. queue' \in Seq(Events)
    BY <1>1, <2>1, HandleEvents, Zenon
  <2>3. QED
    BY <1>1, <1>3, <2>1, <2>2
<1>5. CASE OnDelete(o)
  <2>1. known' = [known EXCEPT ![o] = 0] /\ known[o] # 0 /\ Handle("delete", o, known[o])
    BY <1>5, Zenon DEF OnDelete
  <2>2. queue' \in Seq(Events)
    BY <1>1, <1>2, <2>1, HandleEvents
  <2>3. QED
    BY <1>1, <1>3, <2>1, <2>2
<1>6. CASE OnTombstone(o)
  BY <1>1, <1>3, <1>6 DEF OnTombstone, work
<1>7. QED
  BY <1>4, <1>5, <1>6, Zenon DEF Informer

(* Every step of the controller and of the cluster keeps the invariant. *)
LEMMA NextInv == K8sInv /\ [Next]_vars => K8sInv'
<1> SUFFICES ASSUME K8sInv, [Next]_vars PROVE K8sInv'
  BY Zenon
<1> USE DEF K8sInv
<1>1. CASE UNCHANGED <<made, alive, known, queue, waiting, store, rels, cluster>> /\ ClusterIndexed'
  BY <1>1, Zenon DEF EventsOK, Joins
<1>2. CASE \/ SetupWithManager \/ SyncCacheFails \/ Cancel \/ StartReturns \/ IndexWorker \/ GetShutdown
           \/ (\E k \in Kinds \ watched : SyncCache(k)) \/ Over \/ UNCHANGED vars
  <2>1. UNCHANGED <<made, alive, known, queue, waiting, store, rels, cluster>>
    BY <1>2, Zenon DEF SetupWithManager, SyncCacheFails, Cancel, StartReturns, IndexWorker, GetShutdown, SyncCache,
                Over, vars, server, informer, work, index
  <2>2. ClusterIndexed'
    BY <1>2, <2>1, Zenon DEF ClusterIndexed, ClusterRef, SetupWithManager, SyncCacheFails, Cancel, StartReturns,
                      IndexWorker, GetShutdown, SyncCache, Over, vars
  <2>3. QED
    BY <1>1, <2>1, <2>2, Zenon
<1>3. CASE Start
  <2>1. EventsOK'
    BY <1>3, Zenon DEF Start, EventsOK, server, informer, work
  <2>2. UNCHANGED rels /\ DOMAIN store \subseteq DOMAIN store'
    BY <1>3, Zenon DEF Start, UpdateResource
  <2>3. Joins(rels, DOMAIN store)'
    BY <2>2, Zenon DEF Joins
  <2>4. ClusterIndexed'
    BY <1>3, Zenon DEF Start, ClusterIndexed, ClusterRef, UpdateResource
  <2>5. QED
    BY <2>1, <2>3, <2>4, Zenon
<1>4. CASE Shutdown
  <2>1. EventsOK'
    BY <1>4, Zenon DEF Shutdown, EventsOK, server, informer
  <2>2. ClusterIndexed' /\ Joins(rels, DOMAIN store)'
    BY <1>4, Zenon DEF Shutdown, ClusterIndexed, ClusterRef, Joins, index
  <2>3. QED
    BY <2>1, <2>2, Zenon
<1>5. CASE IndexObjects
  <2> DEFINE ev == Head(queue)
  <2>1. queue \in Seq(Events) /\ queue # <<>> /\ waiting \subseteq Events
    BY <1>5, Zenon DEF IndexObjects, EventsOK
  <2>2. ev \in Events /\ Tail(queue) \in Seq(Events)
    BY <2>1, HeadTailProperties, Zenon
  <2>3. /\ pc \in {"run", "wait", "ended"} /\ ClusterRef(cluster) \in DOMAIN store
        /\ UNCHANGED <<made, alive, known, pc, cluster>> /\ queue' = Tail(queue)
        /\ Delete(ev) \/ Update(ev)
    BY <1>5, Zenon DEF IndexObjects, ClusterIndexed, server, informer
  <2> HIDE DEF ev
  <2>4. /\ Joins(rels, DOMAIN store)' /\ ClusterRef(cluster)' \in DOMAIN store'
        /\ waiting' \subseteq Events
    BY <2>1, <2>2, <2>3, UpdateKeeps, DeleteKeeps, Zenon
  <2>5. EventsOK'
    BY <2>2, <2>3, <2>4, Zenon DEF EventsOK
  <2>6. ClusterIndexed'
    BY <2>3, <2>4, Zenon DEF ClusterIndexed
  <2>7. QED
    BY <2>4, <2>5, <2>6, Zenon
<1>6. ASSUME NEW o \in Objects, Apply(o) \/ Destroy(o)
      PROVE  K8sInv'
  <2>1. CASE Apply(o)
    <3>1. /\ made' = [made EXCEPT ![o] = @ + 1] /\ made[o] < Len(Versions[o]) /\ alive' = alive \cup {o}
          /\ UNCHANGED <<known, queue, waiting>>
      BY <2>1, Zenon DEF Apply, informer, work
    <3>2. EventsOK'
      BY <3>1, VersionsAssumption DEF EventsOK
    <3>3. QED
      BY <2>1, <3>2, Zenon DEF Apply, ClusterIndexed, ClusterRef, Joins, control, index
  <2>2. CASE Destroy(o)
    <3>1. EventsOK'
      BY <2>2, Zenon DEF Destroy, EventsOK, informer, work
    <3>2. QED
      BY <2>2, <3>1, Zenon DEF Destroy, ClusterIndexed, ClusterRef, Joins, control, index
  <2>3. QED
    BY <1>6, <2>1, <2>2, Zenon
<1>7. ASSUME NEW o \in Objects, Informer(o) \/ OnTombstone(o)
      PROVE  K8sInv'
  <2>1. EventsOK'
    BY <1>7, InformerEvents, Zenon
  <2>2. UNCHANGED <<pc, cluster, worker, store, rels>>
    BY <1>7, Zenon DEF Informer, OnAdd, OnUpdate, OnDelete, OnTombstone, control, index
  <2>3. QED
    BY <2>1, <2>2, Zenon DEF ClusterIndexed, ClusterRef, Joins
<1>8. ASSUME NEW ev \in waiting, Due(ev)
      PROVE  K8sInv'
  <2>1. EventsOK'
    BY <1>8 DEF Due, EventsOK, server, informer
  <2>2. QED
    BY <1>8, <2>1, Zenon DEF Due, ClusterIndexed, ClusterRef, Joins, control, index
<1>9. QED
  BY <1>2, <1>3, <1>4, <1>5, <1>6, <1>7, <1>8, Zenon DEF Next, StartStep, WorkerStep

(* Whatever the objects, their versions, the deletions and the failures of *)
(* the store: containment joins resources that are in the store            *)
(* (indexer.Update and indexer.Delete, indexer.go:70-113).                 *)
THEOREM ContainmentCorrect == Spec => []ContainmentJoinsResources
<1>1. K8sInv => ContainmentJoinsResources
  BY Zenon DEF K8sInv, Joins, Containment, ContainmentJoinsResources
<1>2. QED
  BY <1>1, InitInv, NextInv, PTL DEF Spec

=============================================================================
