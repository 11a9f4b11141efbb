---------------------------- MODULE MCInventory ----------------------------
(* A machine of two cores in three states. *)
EXTENDS Inventory

Seg(text, words, id) == [text |-> text, words |-> words, scope |-> FALSE, id |-> id]

Scope(text, words, id) == [text |-> text, words |-> words, scope |-> TRUE, id |-> id]

Dir(path, procs, files) == [path |-> path, procs |-> procs, files |-> files]

Docker  == Seg("docker", {"docker"}, None)
A       == Seg("a", {}, <<"a", "rest">>)
Slice   == Seg("system.slice", {}, None)
BScope  == Scope("cri-containerd-b.scope", {"cri-containerd", "containerd"}, <<"b">>)
Pods    == Seg("machine.slice", {}, None)
CScope  == Scope("libpod-c.scope", {}, <<"c">>)
Conmon  == Scope("libpod-conmon-c.scope", {}, <<"c">>)
Sub(s)  == Seg(s, {}, None)

Piece(text, len, digits) ==
  [text |-> text, len |-> len, letters |-> TRUE, digits |-> digits, other |-> FALSE]

Processor(n, physical) ==
  <<[key |-> "processor", val |-> n], [key |-> "model name", val |-> "cpu"],
    [key |-> "physical id", val |-> physical], [key |-> "core id", val |-> n],
    [key |-> "", val |-> ""]>>

Disk(name, letters, subdirs) ==
  [name |-> name, stem |-> name, letters |-> letters, isDir |-> TRUE, virtual |-> FALSE,
   model |-> "m", sectors |-> 8, rotational |-> "0",
   scheduler |-> [active |-> "none", line |-> "none mq"], subdirs |-> subdirs]

NUMA(id, distances) == [id |-> id, memTotal |-> 2, cpulist |-> <<<<id>>>>, distance |-> distances]

(* Podman runs a container and its monitor in scopes of their own. *)
Unified ==
  <<Dir(<<Docker>>, TRUE, <<>>),
    Dir(<<Docker, A>>, TRUE, ("cpu.weight" :> 100) @@ ("cpu.max" :> <<Bad, 100>>)),
    Dir(<<Docker, A, Sub("init")>>, TRUE, <<>>),
    Dir(<<Pods>>, TRUE, <<>>),
    Dir(<<Pods, CScope>>, TRUE, "cpuset.cpus" :> <<<<0>>>>),
    Dir(<<Pods, Conmon>>, TRUE, "cpuset.cpus" :> <<<<0>>>>),
    Dir(<<Slice>>, TRUE, <<>>),
    Dir(<<Slice, BScope>>, TRUE, ("cpuset.cpus" :> <<<<1>>>>) @@ ("cpuset.mems" :> <<<<0>>>>))>>

Plain ==
  [machineInfo |-> None, machineID |-> "m", dbusMachineID |-> None, productUUID |-> "u",
   hostname |-> "h", cname |-> "h.net", reverse |-> None,
   imds |-> [config |-> TRUE, region |-> "r", accountID |-> "1", instanceID |-> "i-1", instances |-> None],
   stat |-> <<[key |-> "cpu", val |-> 1], [key |-> "btime", val |-> 7]>>, auxv |-> None,
   version |-> [raw |-> "5.8.0", parts |-> <<5, 8, 0>>], osRelease |-> None, usrOSRelease |-> None,
   collectors |-> {"cpu", "memory", "disk", "network"},
   cpuinfo |-> Processor(0, 0) \o Processor(1, 0), minFreq |-> None, maxFreq |-> 3000000,
   nodes |-> <<NUMA(0, <<10>>)>>,
   meminfo |-> <<[key |-> "MemTotal", val |-> 4]>>, cpuDirs |-> <<0, 1>>, numaBalancing |-> TRUE,
   block |-> <<Disk("sda", "sd", <<[disk |-> "sda", name |-> "sda1", sectors |-> 4, start |-> 1]>>)>>,
   net |-> <<>>,
   cgroupControllers |-> TRUE, cgroup |-> Unified,
   docker |-> <<[id |-> <<"a", "rest">>,
                 file |-> [image  |-> [path |-> <<<<"reg", "5000">>, <<"web">>>>, digest |-> None],
                           labels |-> "compose.service" :> <<"web">>]]>>,
   containerd |-> <<[id |-> <<"b">>,
                     file |-> [annotations |-> ("image" :> [path |-> <<<<"db", "1">>>>, digest |-> None])
                        @@ ("pod.name" :> <<Piece("db", 2, FALSE), Piece("7d4f8", 5, TRUE)>>)]]>>,
   crio |-> <<>>, podman |-> [overlay |-> <<>>, vfs |-> <<>>],
   procCgroup |-> <<>>]

(* The metadata service, /proc/stat and /proc/cpuinfo do not answer, a     *)
(* container is gone; a second NUMA node and an interface have come.       *)
Changed ==
  [Plain EXCEPT !.imds.config = FALSE, !.stat = None, !.cpuinfo = None, !.block = <<>>,
                !.nodes = <<NUMA(0, <<10, 20>>), NUMA(1, <<20, 10>>)>>,
                !.net = <<[name |-> "eth0", prefix |-> "eth", isDir |-> TRUE, wireless |-> FALSE,
                           type |-> "1", device |-> TRUE, address |-> "ad", speed |-> 1000,
                           duplex |-> "full", operstate |-> "up", carrier |-> "1",
                           driver |-> "virtio_net"]>>,
                !.docker = <<>>, !.cgroup = SubSeq(@, 1, 3)]

(* Nothing can be read, not even a name. *)
Dark ==
  [Plain EXCEPT !.imds.config = FALSE, !.hostname = None, !.machineID = None, !.productUUID = None,
                !.collectors = {}, !.stat = None, !.cgroup = <<>>]

MCMachine == [plain |-> Plain, changed |-> Changed, dark |-> Dark]

=============================================================================
