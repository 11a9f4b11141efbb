--------------------------- MODULE HardwareGraph ---------------------------
(***************************************************************************)
(* The hardware graph (internal/hardware/graph): the nodes and the edges   *)
(* made from one hardware snapshot.  A node is [ref, spec]; a reference is *)
(* <<type, system name>> or <<type, system name, id>>, for the names that  *)
(* nodes.go builds with Sprintf.                                           *)
(***************************************************************************)
EXTENDS GraphBuilder

CONSTANTS Bad, Failed

LOCAL Id == INSTANCE HostIdentity
LOCAL HW == INSTANCE HardwareInfo

-----------------------------------------------------------------------------
(* nodes.go *)

(* Only a machine without a name has no system node. *)
CreateSystemNode(h, boot) ==
  [ref  |-> <<"system", Id!CanonicalName(h)>>,
   spec |-> [hostname |-> IF Id!Hostname(h) = Failed THEN "unknown" ELSE Id!Hostname(h),
             system   |-> Id!GetSystemInfo(h, boot),
             tags     |-> {t \in {<<"machine-id", Id!MachineID(h)>>,
                                  <<"system-uuid", Id!SystemUUID(h)>>,
                                  <<"fqdn", Id!FQDN(h)>>} : t[2] # Failed}]]

(* Every logical core is counted as a physical one too. *)
CreateCPUPackageNode(info, physicalID, name) ==
  LET n == Len(SelectSeq(info.cores, LAMBDA c : c["physical id"] = physicalID))
  IN  [ref  |-> <<"package", name, physicalID>>,
       spec |-> [model |-> info.model, physicalCores |-> n, logicalCores |-> n]]

CreateCPUCoreNode(core, name) == [ref |-> <<"core", name, core["processor"]>>, spec |-> core]

(* The memory module has the system's own name. *)
CreateMemoryModuleNode(mem, name) ==
  [ref  |-> <<"memory", name>>,
   spec |-> [bytes |-> mem.total, numa |-> mem.numa.enabled, balancing |-> mem.balancing,
             nodes |-> Len(mem.numa.nodes)]]

CreateNUMANode(numa, name) == [ref |-> <<"numa", name, numa.id>>, spec |-> numa]

CreateDiskDeviceNode(disk, name) == [ref |-> <<"disk", name, disk.device>>, spec |-> disk.props]

CreateDiskPartitionNode(part, device, name) ==
  [ref  |-> <<"partition", name, part.name>>,
   spec |-> [parent |-> device, bytes |-> part.bytes, start |-> part.start]]

(* A word that the protocol has an enum value for, else "unknown". *)
Known(word, words) == IF word \in words THEN word ELSE "unknown"

CreateNetworkInterfaceNode(iface, name) ==
  [ref  |-> <<"interface", name, iface.name>>,
   spec |-> [iface.props EXCEPT
               !.duplex    = Known(@, {"full", "half"}),
               !.operState = Known(@, {"up", "down", "testing", "dormant", "notpresent",
                                       "lowerlayerdown"})]
            @@ [type |-> Known(iface.type, {"ethernet", "wireless", "loopback", "bridge",
                                            "vlan", "bond"})]]

-----------------------------------------------------------------------------
(* relationships.go *)

CreateContainsRelationship(s, o, kind) == Edge(s, "Contains", o, [containment |-> kind])

CreateNUMAAffinityRelationship(s, o, nodeID) == Edge(s, "NUMAAffinity", o, [node |-> nodeID, distance |-> 0])

CreateNUMADistanceRelationship(s, o, target, distance) ==
  Edge(s, "NUMAAffinity", o, [node |-> target, distance |-> distance])

CreateSocketSharingRelationship(s, o, physicalID) ==
  Edge(s, "SocketSharing", o, [socket |-> physicalID])

InferDiskBusType(letters) ==
  LET bus == [nvme |-> "nvme", sd |-> "sata", hd |-> "ide", vd |-> "virtio", xvd |-> "virtio"]
  IN  IF letters \in DOMAIN bus THEN bus[letters] ELSE "unknown"

(* The kernel driver's name is "virtio_net", "usb..." or another one. *)
InferNetworkBusType(iface) ==
  IF iface.type \in {"loopback", "bridge", "vlan", "bond"} THEN "virtual"
  ELSE CASE iface.props.driver = "virtio_net" -> "virtio"
         [] iface.props.driver = "usbnet"     -> "usb"
         [] OTHER                             -> "pci"

(* There is no enum value for "virtual". *)
CreateBusConnectionRelationship(device, system, bus) ==
  Edge(device, "ConnectedTo", system, [bus |-> IF bus = "virtual" THEN "unknown" ELSE bus])

-----------------------------------------------------------------------------
(* builder.go: the nodes of a topology first, then all its edges in one    *)
(* batch.                                                                  *)

BuildCPUTopology(info, system) ==
  LET name    == system[2]
      cores   == info.cores
      opens   == SelectSeq([i \in DOMAIN cores |-> i],
                           LAMBDA i : \A j \in 1..(i - 1) :
                             cores[j]["physical id"] # cores[i]["physical id"])
      package(i) == CreateCPUPackageNode(info, cores[i]["physical id"], name)
      core(i)    == CreateCPUCoreNode(cores[i], name)
      peers(i)   == SelectSeq([j \in DOMAIN cores |-> j],
                              LAMBDA j : j # i /\ cores[j]["physical id"] = cores[i]["physical id"])
  IN  [k \in DOMAIN opens |-> Put(package(opens[k]))]
      \o [i \in DOMAIN cores |-> Put(core(i))]
      \o Relate(
           [k \in DOMAIN opens |-> CreateContainsRelationship(system, package(opens[k]).ref, "physical")]
           \o [i \in DOMAIN cores |-> CreateContainsRelationship(package(i).ref, core(i).ref, "physical")]
           \o FlattenSeq([i \in DOMAIN cores |-> [k \in DOMAIN peers(i) |->
                CreateSocketSharingRelationship(core(i).ref, core(peers(i)[k]).ref,
                                                cores[i]["physical id"])]]))

(* A distance's position in its list is taken for the number of the node   *)
(* it leads to.                                                            *)
BuildMemoryTopology(mem, system) ==
  LET name   == system[2]
      memory == CreateMemoryModuleNode(mem, name)
      nodes  == IF mem.numa.enabled THEN mem.numa.nodes ELSE <<>>
      numa(i) == CreateNUMANode(nodes[i], name)
      others(i) == SelectSeq([k \in DOMAIN nodes[i].distances |-> k - 1],
                             LAMBDA n : n # nodes[i].id /\ \E x \in Range(nodes) : x.id = n)
  IN  <<Put(memory)>> \o [i \in DOMAIN nodes |-> Put(numa(i))]
      \o Relate(
           <<CreateContainsRelationship(system, memory.ref, "physical")>>
           \o [i \in DOMAIN nodes |-> CreateContainsRelationship(system, numa(i).ref, "logical")]
           \o [i \in DOMAIN nodes |-> CreateNUMAAffinityRelationship(memory.ref, numa(i).ref, nodes[i].id)]
           \o FlattenSeq([i \in DOMAIN nodes |-> [k \in DOMAIN others(i) |->
                CreateNUMADistanceRelationship(numa(i).ref, <<"numa", name, others(i)[k]>>, others(i)[k],
                                               nodes[i].distances[others(i)[k] + 1])]]))

BuildDiskTopology(disks, system) ==
  LET name == system[2]
      disk(d)    == CreateDiskDeviceNode(d, name)
      part(d, p) == CreateDiskPartitionNode(p, d.device, name)
  IN  FlattenSeq([i \in DOMAIN disks |->
        <<Put(disk(disks[i]))>>
        \o [k \in DOMAIN disks[i].partitions |-> Put(part(disks[i], disks[i].partitions[k]))]])
      \o Relate(FlattenSeq([i \in DOMAIN disks |->
           <<CreateContainsRelationship(system, disk(disks[i]).ref, "physical"),
             CreateBusConnectionRelationship(disk(disks[i]).ref, system,
                                             InferDiskBusType(disks[i].letters))>>
           \o [k \in DOMAIN disks[i].partitions |->
                 CreateContainsRelationship(disk(disks[i]).ref,
                                            part(disks[i], disks[i].partitions[k]).ref, "partition")]]))

BuildNetworkTopology(ifs, system) ==
  LET iface(i) == CreateNetworkInterfaceNode(ifs[i], system[2])
  IN  [i \in DOMAIN ifs |-> Put(iface(i))]
      \o Relate(FlattenSeq([i \in DOMAIN ifs |->
           <<CreateContainsRelationship(system, iface(i).ref, "physical"),
             CreateBusConnectionRelationship(iface(i).ref, system, InferNetworkBusType(ifs[i]))>>]))

(* Mutant: the edges of a topology before its nodes. *)
BuildEdgesFirst(h, boot, s) ==
  LET system == CreateSystemNode(h, boot)
      plan   == <<Put(system)>> \o (IF s.cpu = None THEN <<>> ELSE BuildCPUTopology(s.cpu, system.ref))
  IN  Reverse(plan)

(* A collector that failed leaves its part of the snapshot None, and its   *)
(* part of the graph as it was.                                            *)
BuildFromSnapshot(h, boot, s) ==
  LET system == CreateSystemNode(h, boot)
  IN  IF system.ref[2] = <<>> THEN <<Abort>>
      ELSE <<Put(system)>>
           \o (IF s.cpu = None THEN <<>> ELSE BuildCPUTopology(s.cpu, system.ref))
           \o (IF s.memory = None THEN <<>> ELSE BuildMemoryTopology(s.memory, system.ref))
           \o (IF s.disks \in {None, <<>>} THEN <<>> ELSE BuildDiskTopology(s.disks, system.ref))
           \o (IF s.net \in {None, <<>>} THEN <<>> ELSE BuildNetworkTopology(s.net, system.ref))

(* manager.go: the four collectors, one after the other.  One that is not  *)
(* registered or fails is passed over.                                     *)
CollectHardwareSnapshot(h) ==
  LET got(available, result) == IF ~available \/ result = Failed THEN None ELSE result
      cpu == got("cpu" \in h.collectors, HW!CollectCPUInfo(h))
  IN  [cpu    |-> IF cpu = None THEN None ELSE cpu.info,
       memory |-> got("memory" \in h.collectors, HW!CollectMemoryInfo(h)),
       disks  |-> got("disk" \in h.collectors, HW!CollectDiskInfo(h)),
       net    |-> got("network" \in h.collectors, HW!CollectNetworkInfo(h))]

=============================================================================
