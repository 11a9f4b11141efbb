----------------------------- MODULE Inventory -----------------------------
(***************************************************************************)
(* The hardware manager and the containers manager (internal/hardware and  *)
(* internal/containers), each in its own goroutine, writing their graphs   *)
(* into one resource store while the machine changes under them.           *)
(*                                                                         *)
(* A manager's update collects a snapshot, makes the builder's plan and    *)
(* runs its calls one by one.  addRelationships looks for what is there in *)
(* one step and adds the rest in another.  A call on the store may fail.   *)
(***************************************************************************)
EXTENDS GraphBuilder, TLC

CONSTANTS
  Bad, Failed,
  Machine,     \* what the machine's files hold, in each of its states
  MaxChanges,  \* bound: how often it goes from one state to another
  MaxFaults    \* bound: how many calls on the store fail

HG == INSTANCE HardwareGraph
CG == INSTANCE ContainerGraph
CD == INSTANCE ContainerDiscovery
Id == INSTANCE HostIdentity

Hosts == DOMAIN Machine

-----------------------------------------------------------------------------
(* Snapshots and the plans made of them. *)

(* The metadata of the first three containers is read by the snapshot      *)
(* already, to be logged.                                                  *)
CollectRuntimeSnapshot(h) ==
  LET found == CD!DiscoverAllContainers(h)
  IN  [i \in DOMAIN found |->
         [meta |-> IF i <= 3 THEN CD!ExtractMetadata(h, found[i], CD!Unknown) ELSE CD!Unknown] @@ found[i]]

GetContainers(h, snap) ==
  [i \in DOMAIN snap |-> [snap[i] EXCEPT !.meta = CD!ExtractMetadata(h, snap[i], @)]]

RuntimeSnapshot == [h \in Hosts |-> CollectRuntimeSnapshot(Machine[h])] @@ <<>>

Names == {CG!NewBuilder(Machine[h]) : h \in Hosts}

Boots == {Id!ReadBootTime(Machine[h]) : h \in Hosts}

(* A plan is named by what it is made from: the states of the machine when *)
(* the snapshot was taken and when the rest was read, and the cached boot  *)
(* time or the containers builder's name.  (@@ <<>> is no change: it makes *)
(* TLC tabulate the function.)                                             *)
HwPlan ==
  [k \in Hosts \X Hosts \X Boots |->
     HG!BuildFromSnapshot(Machine[k[2]], k[3], HG!CollectHardwareSnapshot(Machine[k[1]]))] @@ <<>>

(* No processes are collected yet. *)
CtPlan ==
  [k \in Hosts \X Hosts \X Names |->
     CG!BuildFromSnapshot(Machine[k[2]], GetContainers(Machine[k[2]], RuntimeSnapshot[k[1]]), <<>>, k[3])]
  @@ <<>>

-----------------------------------------------------------------------------
VARIABLES
  host,      \* the machine's state
  changes,   \* how often it has changed
  faults,    \* how many calls have failed
  cancelled, \* the context of both managers is done
  spec,      \* the resources in the store, each with its spec
  rels,      \* the bag of the relationships in the store
  bootAt,    \* what proc.BootTime has cached, None before the first call
  sysID,     \* the containers builder's name for the machine
  hw, ct     \* the two managers

vars == <<host, changes, faults, cancelled, spec, rels, bootAt, sysID, hw, ct>>

(* A manager: where its goroutine is, the state its snapshot is from, the  *)
(* plan it is running, how many of its calls are made, the batch between   *)
(* look and add, and the plan of its last successful update (lastUpdate).  *)
NewManager ==
  [pc |-> "update", snap |-> None, plan |-> None, made |-> 0, batch |-> <<>>, last |-> None]

Init ==
  /\ host \in Hosts
  /\ changes = 0 /\ faults = 0 /\ cancelled = FALSE
  /\ spec = <<>> /\ rels = EmptyBag
  /\ bootAt = None
  /\ sysID = CG!NewBuilder(Machine[host])
  /\ hw = NewManager
  /\ ct = NewManager @@ [metrics |-> [containers |-> 0, errors |-> 0]]

-----------------------------------------------------------------------------
(* Running a plan: m is the manager before the call, m2 after it. *)

Finished(m, plan) == m.pc = "build" /\ m.made = Len(plan)

(* The next call. *)
Doing(m, plan, what) == m.pc = "build" /\ m.made < Len(plan) /\ plan[m.made + 1].do = what

Made(m) == [m EXCEPT !.pc = "build", !.made = @ + 1, !.batch = <<>>]

PutResource(m, m2, plan) ==
  /\ Doing(m, plan, "put")
  /\ LET op == plan[m.made + 1]
     IN  spec' = op.ref :> op.spec @@ spec
  /\ m2 = Made(m)
  /\ UNCHANGED rels

LookForEdges(m, m2, plan) ==
  /\ Doing(m, plan, "relate")
  /\ LET new == EdgesToAdd(rels, plan[m.made + 1].edges)
     IN  m2 = IF new = <<>> THEN Made(m) ELSE [m EXCEPT !.pc = "add", !.batch = RelsOf(new)]
  /\ UNCHANGED <<spec, rels>>

AddEdges(m, m2) ==
  /\ m.pc = "add"
  /\ rels' = AddRelationships(rels, m.batch)
  /\ m2 = Made(m)
  /\ UNCHANGED spec

Call(m, m2, plan) == PutResource(m, m2, plan) \/ LookForEdges(m, m2, plan) \/ AddEdges(m, m2)

(* Edges, not a resource, are what the call is about. *)
Relating(m, plan) == m.pc = "add" \/ Doing(m, plan, "relate")

Idle(m) == [m EXCEPT !.pc = "idle", !.snap = None, !.plan = None, !.made = 0, !.batch = <<>>]

(* runPeriodicUpdates: the ticker, or the end of the context. *)
Tick(m, m2) == m.pc = "idle" /\ m2 = [m EXCEPT !.pc = "update"]

Stop(m, m2) == m.pc = "idle" /\ cancelled /\ m2 = [m EXCEPT !.pc = "stopped"]

-----------------------------------------------------------------------------
(* The hardware manager. *)

HwCollect ==
  /\ hw.pc = "update"
  /\ hw' = [hw EXCEPT !.pc = "snapshot", !.snap = host]
  /\ UNCHANGED <<host, changes, faults, cancelled, spec, rels, bootAt, sysID, ct>>

HwBuild ==
  /\ hw.pc = "snapshot"
  /\ bootAt' = Id!BootTime(bootAt, Machine[host])
  /\ hw' = [hw EXCEPT !.pc = "build", !.plan = <<hw.snap, host, bootAt'>>]
  /\ UNCHANGED <<host, changes, faults, cancelled, spec, rels, sysID, ct>>

HwCall ==
  /\ Call(hw, hw', HwPlan[hw.plan])
  /\ UNCHANGED <<host, changes, faults, cancelled, bootAt, sysID, ct>>

(* Mutant: a call that fails ends the goroutine. *)
HwFailStops ==
  /\ Doing(hw, HwPlan[hw.plan], "put") \/ Relating(hw, HwPlan[hw.plan])
  /\ faults < MaxFaults /\ faults' = faults + 1
  /\ hw' = [hw EXCEPT !.pc = "stopped"]
  /\ UNCHANGED <<host, changes, cancelled, spec, rels, bootAt, sysID, ct>>

(* Any call that fails ends the update. *)
HwFail ==
  /\ Doing(hw, HwPlan[hw.plan], "put") \/ Relating(hw, HwPlan[hw.plan])
  /\ faults < MaxFaults /\ faults' = faults + 1
  /\ hw' = Idle(hw)
  /\ UNCHANGED <<host, changes, cancelled, spec, rels, bootAt, sysID, ct>>

HwAbort ==
  /\ Doing(hw, HwPlan[hw.plan], "abort")
  /\ hw' = Idle(hw)
  /\ UNCHANGED <<host, changes, faults, cancelled, spec, rels, bootAt, sysID, ct>>

HwDone ==
  /\ Finished(hw, HwPlan[hw.plan])
  /\ hw' = [Idle(hw) EXCEPT !.last = hw.plan]
  /\ UNCHANGED <<host, changes, faults, cancelled, spec, rels, bootAt, sysID, ct>>

HwTick ==
  /\ Tick(hw, hw')
  /\ UNCHANGED <<host, changes, faults, cancelled, spec, rels, bootAt, sysID, ct>>

HwStop ==
  /\ Stop(hw, hw')
  /\ UNCHANGED <<host, changes, faults, cancelled, spec, rels, bootAt, sysID, ct>>

-----------------------------------------------------------------------------
(* The containers manager. *)

CtCollect ==
  /\ ct.pc = "update"
  /\ ct' = [ct EXCEPT !.pc = "snapshot", !.snap = host]
  /\ UNCHANGED <<host, changes, faults, cancelled, spec, rels, bootAt, sysID, hw>>

CtBuild ==
  /\ ct.pc = "snapshot"
  /\ ct' = [ct EXCEPT !.pc = "build", !.plan = <<ct.snap, host, sysID>>]
  /\ UNCHANGED <<host, changes, faults, cancelled, spec, rels, bootAt, sysID, hw>>

CtCall ==
  /\ Call(ct, ct', CtPlan[ct.plan])
  /\ UNCHANGED <<host, changes, faults, cancelled, bootAt, sysID, hw>>

(* updateMetrics, which every update ends with; the totals, the duration   *)
(* and the time are left out.                                              *)
UpdateMetrics(m, errors) ==
  [m EXCEPT !.metrics = [containers |-> Len(RuntimeSnapshot[m.snap]), errors |-> errors]]

(* A container that cannot be written ends the update; edges that cannot   *)
(* be written are logged.                                                  *)
CtFail ==
  /\ faults < MaxFaults /\ faults' = faults + 1
  /\ \/ Doing(ct, CtPlan[ct.plan], "put") /\ ct' = Idle(UpdateMetrics(ct, 1))
     \/ Relating(ct, CtPlan[ct.plan]) /\ ct' = Made(ct)
  /\ UNCHANGED <<host, changes, cancelled, spec, rels, bootAt, sysID, hw>>

CtDone ==
  /\ Finished(ct, CtPlan[ct.plan])
  /\ ct' = [Idle(UpdateMetrics(ct, 0)) EXCEPT !.last = ct.plan]
  /\ UNCHANGED <<host, changes, faults, cancelled, spec, rels, bootAt, sysID, hw>>

CtTick ==
  /\ Tick(ct, ct')
  /\ UNCHANGED <<host, changes, faults, cancelled, spec, rels, bootAt, sysID, hw>>

CtStop ==
  /\ Stop(ct, ct')
  /\ UNCHANGED <<host, changes, faults, cancelled, spec, rels, bootAt, sysID, hw>>

-----------------------------------------------------------------------------
(* The environment. *)

HostChanges ==
  /\ changes < MaxChanges
  /\ host' \in Hosts \ {host}
  /\ changes' = changes + 1
  /\ UNCHANGED <<faults, cancelled, spec, rels, bootAt, sysID, hw, ct>>

(* The managers look at the context only when idle: before that it may as  *)
(* well not be done yet.                                                   *)
Cancel ==
  /\ ~cancelled /\ cancelled' = TRUE
  /\ "idle" \in {hw.pc, ct.pc}
  /\ UNCHANGED <<host, changes, faults, spec, rels, bootAt, sysID, hw, ct>>

HwStep == HwCollect \/ HwBuild \/ HwCall \/ HwAbort \/ HwDone \/ HwTick
CtStep == CtCollect \/ CtBuild \/ CtCall \/ CtDone \/ CtTick

Stopped == hw.pc = "stopped" /\ ct.pc = "stopped" /\ UNCHANGED vars

Next ==
  \/ HwStep \/ HwFail \/ HwStop
  \/ CtStep \/ CtFail \/ CtStop
  \/ HostChanges \/ Cancel \/ Stopped

(* Both goroutines run, and their tickers go on ticking. *)
Spec == Init /\ [][Next]_vars /\ WF_hw(HwStep) /\ WF_ct(CtStep)

-----------------------------------------------------------------------------
(* Properties. *)

HardwarePreds == {"Contains", "NUMAAffinity", "SocketSharing", "ConnectedTo"}

(* Every relationship of the hardware graph joins two resources that are   *)
(* in the store and that bear the same machine's name, whatever call of an *)
(* update fails and whatever name the machine answers to: the builders     *)
(* write the nodes of a topology before its edges, and take the machine's  *)
(* name once for an update.                                                *)
HardwareEdgesJoinNodes ==
  LET nodes == DOMAIN spec
  IN  \A x \in DOMAIN rels : x.pred \in HardwarePreds =>
        x.subj \in nodes /\ x.obj \in nodes /\ x.subj[2] = x.obj[2]

(* However often the managers write the same graph, interrupted or not,    *)
(* no index holds a relationship twice: addRelationships adds only what    *)
(* GetRelationships does not find.                                         *)
NoDuplicateEdges ==
  \A x \in DOMAIN rels : rels[x] = 1

(* What a plan writes: for each resource the specs it is given, of which   *)
(* two directories with one container's id give it two by turns, and the   *)
(* relationships.                                                          *)
Result(plan) ==
  LET puts == {op \in Range(plan) : op.do = "put"}
      adds == {op \in Range(plan) : op.do = "relate"}
  IN  [nodes |-> [r \in {op.ref : op \in puts} |-> {op.spec : op \in {x \in puts : x.ref = r}}],
       edges |-> UNION {Range(RelsOf(op.edges)) : op \in adds}]

HwResult == [k \in DOMAIN HwPlan |-> Result(HwPlan[k])] @@ <<>>
CtResult == [k \in DOMAIN CtPlan |-> Result(CtPlan[k])] @@ <<>>

(* A plan's result is in the store. *)
Written(result) ==
  /\ \A r \in DOMAIN result.nodes : r \in DOMAIN spec /\ spec[r] \in result.nodes[r]
  /\ result.edges \subseteq DOMAIN rels

(* The store has all of what the machine has now. *)
Inventoried ==
  /\ bootAt # None
  /\ Id!CanonicalName(Machine[host]) # <<>> => Written(HwResult[host, host, bootAt])
  /\ Written(CtResult[host, host, sysID])

(* Once the machine and the store have settled, the graph of what the      *)
(* machine has gets into the store, and stays: an update that failed is    *)
(* made good by the next tick, whatever it left behind.                    *)
EventuallyInventoried == []~cancelled => <>[]Inventoried

=============================================================================
