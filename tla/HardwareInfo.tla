---------------------------- MODULE HardwareInfo ----------------------------
(***************************************************************************)
(* The four one-shot collectors that read the machine's hardware from      *)
(* /proc and /sys (pkg/performance/collectors/{cpu,memory,disk,network}_   *)
(* info.go), and the helpers they use.                                     *)
(*                                                                         *)
(* A host h is a record with a field for each file or directory read.  The *)
(* value of a file is None when it cannot be opened and Bad where the code *)
(* would fail to parse a number.  A file read line by line is a sequence   *)
(* of [key, val]; a directory is the sequence of its entries, in the order *)
(* ReadDir or Glob lists them.                                             *)
(***************************************************************************)
EXTENDS Integers, Sequences, FiniteSets, SequencesExt

CONSTANTS
  None,    \* a missing file
  Bad,     \* a number that does not parse
  Failed   \* the result of a call that returns an error

(* A file that holds one number: zero stays when it is missing or bad. *)
ReadNumber(f) == IF f \in {None, Bad} THEN 0 ELSE f

(* A file that holds a word, as it is after TrimSpace. *)
ReadWord(f) == IF f = None THEN "" ELSE f

-----------------------------------------------------------------------------
(* pkg/cpu. *)

(* A CPU list is a sequence of parts, each <<cpu>>, <<first, last>> or Bad.*)
(* One bad part or one range that runs backwards rejects the whole list.   *)
ParseCPUList(list) ==
  IF \E i \in DOMAIN list : \/ list[i] = Bad
                            \/ Len(list[i]) = 2 /\ list[i][1] > list[i][2]
  THEN Bad
  ELSE FlattenSeq([i \in DOMAIN list |->
         IF Len(list[i]) = 1 THEN list[i]
         ELSE [k \in 1..(list[i][2] - list[i][1] + 1) |-> list[i][1] + k - 1]])

-----------------------------------------------------------------------------
(* cpu_info.go *)

CoreKeys == {"processor", "physical id", "core id", "cpu MHz"}

NoCore == [k \in CoreKeys |-> 0]

(* One line of /proc/cpuinfo.  a.core is reset only when a processor ends, *)
(* so what a section without a processor number sets is seen by the next.  *)
CPUInfoLine(a, line) ==
  CASE line.key = "" ->
         IF a.inProcessor
         THEN [a EXCEPT !.cores = Append(@, a.core), !.inProcessor = FALSE, !.core = NoCore]
         ELSE a
    [] line.val = Bad -> a
    [] line.key = "processor" ->
         [a EXCEPT !.core["processor"] = line.val, !.inProcessor = TRUE]
    [] line.key \in CoreKeys \ {"processor"} -> [a EXCEPT !.core[line.key] = line.val]
    [] line.key = "model name" -> IF a.model = "" THEN [a EXCEPT !.model = line.val] ELSE a
    [] OTHER -> a

(* The file's sections, the last one with or without an empty line after   *)
(* it, and the number of physical cores: distinct pairs of physical and    *)
(* core id, unless no id says anything.                                    *)
ParseCPUInfo(file) ==
  LET end   == FoldLeft(CPUInfoLine,
                        [cores |-> <<>>, core |-> NoCore, inProcessor |-> FALSE, model |-> ""],
                        file)
      cores == IF end.inProcessor THEN Append(end.cores, end.core) ELSE end.cores
      ids   == {<<c["physical id"], c["core id"]>> : c \in Range(cores)}
  IN  [cores    |-> cores,
       model    |-> end.model,
       logical  |-> Len(cores),
       physical |-> IF ids \subseteq {<<0, 0>>} THEN Len(cores) ELSE Cardinality(ids)]

(* In kHz in sysfs, in MHz in the result. *)
ParseCPUFrequency(h) ==
  [min |-> ReadNumber(h.minFreq) \div 1000, max |-> ReadNumber(h.maxFreq) \div 1000]

CountNUMANodes(h) == IF h.nodes = <<>> THEN 1 ELSE Len(h.nodes)

CollectCPUInfo(h) ==
  IF h.cpuinfo = None THEN Failed
  ELSE [info |-> ParseCPUInfo(h.cpuinfo), MHz |-> ParseCPUFrequency(h),
        numaNodes |-> CountNUMANodes(h)]

-----------------------------------------------------------------------------
(* memory_info.go *)

(* The first MemTotal line whose number parses, in bytes. *)
ParseTotalMemory(file) ==
  LET totals == SelectSeq(file, LAMBDA l : l.key = "MemTotal" /\ l.val # Bad)
  IN  IF totals = <<>> THEN Failed ELSE Head(totals).val * 1024

(* The directory's number, -1 if what follows "node" is not one. *)
ExtractNodeID(dir) == IF dir.id = Bad THEN -1 ELSE dir.id

ParseNodeMemory(dir) == ReadNumber(dir.memTotal) * 1024

(* A list that does not parse leaves the node without CPUs. *)
ParseNodeCPUs(dir) ==
  IF dir.cpulist = None \/ ParseCPUList(dir.cpulist) = Bad THEN <<>> ELSE ParseCPUList(dir.cpulist)

(* The numbers in the order of the file; those that do not parse are left  *)
(* out, and the ones after them move up.                                   *)
ParseNodeDistances(dir) ==
  IF dir.distance = None THEN <<>> ELSE SelectSeq(dir.distance, LAMBDA d : d # Bad)

(* The one node made up when sysfs has none. *)
GetAllCPUs(h) == SelectSeq(h.cpuDirs, LAMBDA c : c # Bad)

ParseNUMAInfo(h, total) ==
  IF h.nodes = <<>>
  THEN [enabled |-> FALSE,
        nodes   |-> IF total = 0 THEN <<>>
                    ELSE <<[id |-> 0, bytes |-> total, cpus |-> GetAllCPUs(h), distances |-> <<10>>]>>]
  ELSE LET dirs == SelectSeq(h.nodes, LAMBDA d : ExtractNodeID(d) >= 0)
       IN  [enabled |-> Len(h.nodes) > 1,
            nodes   |-> [i \in DOMAIN dirs |->
                           [id        |-> ExtractNodeID(dirs[i]),
                            bytes     |-> ParseNodeMemory(dirs[i]),
                            cpus      |-> ParseNodeCPUs(dirs[i]),
                            distances |-> ParseNodeDistances(dirs[i])]]]

CollectMemoryInfo(h) ==
  IF h.meminfo = None \/ ParseTotalMemory(h.meminfo) = Failed THEN Failed
  ELSE [total     |-> ParseTotalMemory(h.meminfo),
        balancing |-> h.numaBalancing,
        numa      |-> ParseNUMAInfo(h, ParseTotalMemory(h.meminfo))]

-----------------------------------------------------------------------------
(* disk_info.go.  An entry's stem is its name without trailing digits and, *)
(* where there were some, without one "p" before them; its letters are     *)
(* those it begins with.                                                   *)

IsPartition(h, e) ==
  e.stem \notin {e.name, ""} /\ \E x \in Range(h.block) : x.name = e.stem

(* Sizes are in sectors of 512 bytes.  Of the schedulers the bracketed one *)
(* is active; without brackets the whole line is taken.                    *)
ParseDiskProperties(e) ==
  [model      |-> ReadWord(e.model),
   bytes      |-> ReadNumber(e.sectors) * 512,
   rotational |-> e.rotational = "1",
   scheduler  |-> IF e.scheduler = None THEN ""
                  ELSE IF e.scheduler.active # "" THEN e.scheduler.active
                  ELSE e.scheduler.line]

ParsePartitions(e) ==
  LET parts == SelectSeq(e.subdirs, LAMBDA s : s.disk = e.name /\ s.name # e.name)
  IN  [i \in DOMAIN parts |-> [name  |-> parts[i].name,
                               bytes |-> ReadNumber(parts[i].sectors) * 512,
                               start |-> ReadNumber(parts[i].start)]]

CollectDiskInfo(h) ==
  IF h.block = None THEN Failed
  ELSE LET disks == SelectSeq(h.block, LAMBDA e : e.isDir /\ ~e.virtual /\ ~IsPartition(h, e))
       IN  [i \in DOMAIN disks |-> [device     |-> disks[i].name,
                                    letters    |-> disks[i].letters,
                                    props      |-> ParseDiskProperties(disks[i]),
                                    partitions |-> ParsePartitions(disks[i])]]

-----------------------------------------------------------------------------
(* network_info.go.  An entry's prefix is the well-known beginning of its  *)
(* name, "" if it has none.                                                *)

TypeOfNumber ==
  [n \in {"1", "772", "776", "778"} |->
     CASE n = "1" -> "ethernet" [] n = "772" -> "loopback" [] OTHER -> "tunnel"]

TypeOfPrefix ==
  [p \in {"eth", "wlan", "tun", "tap", "veth", "docker", "br-", "virbr"} |->
     CASE p = "eth"  -> "ethernet"
       [] p = "wlan" -> "wireless"
       [] p = "tun"  -> "tunnel"
       [] p = "tap"  -> "tap"
       [] p = "veth" -> "virtual"
       [] OTHER      -> "bridge"]

GetInterfaceType(e) ==
  CASE e.wireless                         -> "wireless"
    [] ~e.wireless /\ e.name = "lo"       -> "loopback"
    [] OTHER ->
         IF e.type \in DOMAIN TypeOfNumber THEN TypeOfNumber[e.type]
         ELSE IF e.prefix \in DOMAIN TypeOfPrefix THEN TypeOfPrefix[e.prefix]
         ELSE IF e.device THEN "ethernet" ELSE "virtual"

(* A speed of -1 (link down) counts as none. *)
ParseInterfaceProperties(e) ==
  [mac       |-> ReadWord(e.address),
   speed     |-> IF ReadNumber(e.speed) > 0 THEN e.speed ELSE 0,
   duplex    |-> ReadWord(e.duplex),
   operState |-> ReadWord(e.operstate),
   carrier   |-> e.carrier = "1",
   driver    |-> ReadWord(e.driver)]

CollectNetworkInfo(h) ==
  IF h.net = None THEN Failed
  ELSE LET ifs == SelectSeq(h.net, LAMBDA e : e.isDir)
       IN  [i \in DOMAIN ifs |-> [name  |-> ifs[i].name, type |-> GetInterfaceType(ifs[i]),
                                  props |-> ParseInterfaceProperties(ifs[i])]]

=============================================================================
