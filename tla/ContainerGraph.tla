--------------------------- MODULE ContainerGraph ---------------------------
(***************************************************************************)
(* The runtime graph (internal/containers/graph): the nodes and the edges  *)
(* made from the containers and processes of one snapshot.  A container is *)
(* [id, runtime, path, version] of ContainerDiscovery with its metadata    *)
(* meta; a process is [pid, ppid, state, words] and the builder reads its  *)
(* /proc/<pid>/cgroup from h.procCgroup.  systemID is the machine's name   *)
(* at the time when the builder was made.                                  *)
(***************************************************************************)
EXTENDS GraphBuilder

CONSTANTS Bad, Failed

LOCAL Id == INSTANCE HostIdentity
LOCAL HW == INSTANCE HardwareInfo

NewBuilder(h) == IF Id!CanonicalName(h) = <<>> THEN <<"unknown">> ELSE Id!CanonicalName(h)

-----------------------------------------------------------------------------
(* nodes.go *)

ParseCgroupVersion(version) == IF version = 2 THEN "V2" ELSE "V1"

CreateContainerNode(c, systemID) ==
  [ref  |-> <<"container", systemID, c.id>>,
   spec |-> [runtime |-> c.runtime, cgroup |-> ParseCgroupVersion(c.version), path |-> c.path,
             meta |-> c.meta]]

ParseProcessState(state) ==
  IF state \in {"R", "S", "D", "Z", "T", "t", "W", "X", "K", "P"} THEN state ELSE "unknown"

(* A line of the process's cgroup file is the path it names.  A container  *)
(* matches if its id or its own path occurs in one of them.                *)
ProcessMatchesContainer(lines, c) ==
  \E l \in Range(lines) : \/ \E i \in DOMAIN l : l[i].id # None /\ IsPrefix(c.id, l[i].id)
                          \/ IsPrefix(c.path, l)

(* The first match, None if there is none or the process is gone. *)
FindProcessContainer(h, pid, containers) ==
  IF pid \notin DOMAIN h.procCgroup THEN None
  ELSE LET hits == SelectSeq(containers, LAMBDA c : ProcessMatchesContainer(h.procCgroup[pid], c))
       IN  IF hits = <<>> THEN None ELSE Head(hits).id

(* The container is part of the process's own reference. *)
CreateProcessNode(h, p, containers, systemID) ==
  [ref  |-> <<"process", systemID, p.pid, FindProcessContainer(h, p.pid, containers)>>,
   spec |-> [ppid |-> p.ppid, words |-> p.words, state |-> ParseProcessState(p.state)]]

-----------------------------------------------------------------------------
(* relationships.go: each one both ways. *)

BothWays(outer, inner) ==
  <<Edge(outer, "runtime.Contains", inner, [containment |-> "runtime"]),
    Edge(inner, "runtime.ContainedBy", outer, [containment |-> "runtime"])>>

CreateParentOfRelationship(parent, child) == BothWays(parent, child)

CreateContainerProcessRelationship(container, process) == BothWays(container, process)

CreateContainerHardwareRelationship(container, hardware) == BothWays(hardware, container)

-----------------------------------------------------------------------------
(* builder.go *)

(* Nothing says that a core or a node of this number is in the store.  A   *)
(* list that does not parse is only logged.                                *)
HardwareEdges(container, list, kind, systemID) ==
  LET ids == IF list \in {None, <<>>} THEN <<>> ELSE HW!ParseCPUList(list)
  IN  IF ids = Bad THEN <<>>
      ELSE FlattenSeq([i \in DOMAIN ids |->
             CreateContainerHardwareRelationship(container, <<kind, systemID, ids[i]>>)])

CreateContainerCPURelationships(container, cpus, systemID) ==
  Relate(HardwareEdges(container, cpus, "core", systemID))

CreateContainerNUMARelationships(container, mems, systemID) ==
  Relate(HardwareEdges(container, mems, "numa", systemID))

BuildContainerTopology(containers, systemID) ==
  FlattenSeq([i \in DOMAIN containers |->
    LET c == containers[i]
        n == CreateContainerNode(c, systemID)
    IN  <<Put(n)>> \o CreateContainerCPURelationships(n.ref, c.meta.limits.cpus, systemID)
                   \o CreateContainerNUMARelationships(n.ref, c.meta.limits.mems, systemID)])

GetContainerRefFromProcessNamespace(process) ==
  IF process[4] = None THEN None ELSE <<"container", process[2], process[4]>>

(* All processes first.  A pid listed twice keeps its last reference. *)
BuildProcessTopology(h, ps, containers, systemID) ==
  LET node(i) == CreateProcessNode(h, ps[i], containers, systemID)
      refOf(pid) == LET i == CHOOSE i \in DOMAIN ps :
                               /\ ps[i].pid = pid
                               /\ \A j \in DOMAIN ps : ps[j].pid = pid => j <= i
                    IN  node(i).ref
      edges(p) ==
        LET process == refOf(p.pid)
            container == GetContainerRefFromProcessNamespace(process)
        IN  (IF p.ppid # 0 /\ \E q \in Range(ps) : q.pid = p.ppid
             THEN CreateParentOfRelationship(refOf(p.ppid), process) ELSE <<>>)
            \o (IF container # None THEN CreateContainerProcessRelationship(container, process) ELSE <<>>)
  IN  [i \in DOMAIN ps |-> Put(node(i))] \o Relate(FlattenSeq([i \in DOMAIN ps |-> edges(ps[i])]))

BuildFromSnapshot(h, containers, processes, systemID) ==
  BuildContainerTopology(containers, systemID)
  \o (IF processes = <<>> THEN <<>> ELSE BuildProcessTopology(h, processes, containers, systemID))

=============================================================================
