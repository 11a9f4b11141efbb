------------------------------ MODULE Samples ------------------------------
(***************************************************************************)
(* What one call of Collect does in the collectors that sample the machine *)
(* (pkg/performance/collectors) and the state they keep between samples to *)
(* report growth instead of totals (pkg/performance/delta.go).             *)
(*                                                                         *)
(* Files are as in HardwareInfo.  A line of columns is [key, vals]; the    *)
(* counters of one CPU, disk, interface or node are its columns in the     *)
(* order of the file.  Statistics are [counters, gauges]: the counters of  *)
(* each of them, and what is not a counter.                                *)
(***************************************************************************)
EXTENDS HardwareInfo

CONSTANTS
  MinInterval, MaxInterval,  \* of DeltaConfig, in seconds
  Word,                      \* the number of values of a uint64
  TopProcesses,              \* how many processes are reported
  CleanupSize                \* processes remembered before stale ones are dropped

ASSUME IntervalsAssumption ==
  MinInterval \in Nat /\ MaxInterval \in Nat /\ MinInterval <= MaxInterval

CD == INSTANCE ContainerDiscovery

Stats(counters, gauges) == [counters |-> counters, gauges |-> gauges]

(* The last line of a key whose value parses decides. *)
Value(file, k) ==
  LET lines == SelectSeq(file, LAMBDA l : l.key = k /\ l.val # Bad)
  IN  IF lines = <<>> THEN 0 ELSE Last(lines).val

Values(file, keys) == [k \in keys |-> Value(file, k)]

Column(vals, i) == IF i <= Len(vals) THEN ReadNumber(vals[i]) ELSE 0

(* Lines by name.  No file names anything twice. *)
ByName(lines, Name(_), E(_)) ==
  [n \in {Name(l) : l \in lines} |-> E(CHOOSE l \in lines : Name(l) = n)]

-----------------------------------------------------------------------------
(* delta.go.  d.last is the snapshot of the previous collection, None if   *)
(* there was none (IsFirst); d.elapsed the time since LastTime.            *)

NewBaseDeltaCollector(mode) == [mode |-> mode, last |-> None, elapsed |-> 0]

HasDeltaState(d) == d.last # None

UpdateDeltaState(d, stats) == [d EXCEPT !.last = stats, !.elapsed = 0]

ShouldCalculateDeltas(d) ==
  d.mode # "disabled" /\ d.last # None /\ d.elapsed \in MinInterval..MaxInterval

CreateDeltaMetadata(d, reset) ==
  [interval |-> IF d.last = None THEN 0 ELSE d.elapsed, first |-> d.last = None, reset |-> reset]

(* Mutant: a counter that went back wraps around. *)
DeltaWraps(current, previous) == [delta |-> (current - previous) % Word, reset |-> current < previous]

CalculateUint64Delta(current, previous) ==
  IF current < previous THEN [delta |-> 0, reset |-> TRUE]
  ELSE [delta |-> current - previous, reset |-> FALSE]

(* The growth of some columns.  After a reset of one of them no rate is    *)
(* reported, but the growth of the others is.                              *)
PopulateMetadata(columns, current, previous, d) ==
  LET field == [i \in columns |-> CalculateUint64Delta(current[i], previous[i])]
      reset == \E i \in columns : field[i].reset
  IN  [grown  |-> [i \in columns |-> field[i].delta],
       perSec |-> [i \in columns |-> IF reset \/ d.elapsed = 0 THEN 0 ELSE field[i].delta \div d.elapsed],
       meta   |-> CreateDeltaMetadata(d, reset)]

(* What is new since the previous sample has no deltas. *)
Deltas(E(_, _, _), current, previous, d) ==
  [n \in DOMAIN current.counters \cap DOMAIN previous.counters |->
     E(current.counters[n], previous.counters[n], d)]

Event(stats, deltas, d) == [stats |-> stats, deltas |-> deltas, state |-> d]

(* The collectors of CPU, memory, TCP and system keep the previous sample  *)
(* when no deltas can be calculated, whatever the reason.                  *)
CollectKeeping(stats, d, E(_, _, _)) ==
  IF stats = Failed THEN Failed
  ELSE IF ShouldCalculateDeltas(d)
  THEN Event(stats, Deltas(E, stats, d.last, d), UpdateDeltaState(d, stats))
  ELSE Event(stats, <<>>, IF d.last = None THEN UpdateDeltaState(d, stats) ELSE d)

(* Those of disk, network and NUMA always take the new one. *)
CollectReplacing(stats, d, E(_, _, _)) ==
  IF stats = Failed THEN Failed
  ELSE Event(stats,
             IF HasDeltaState(d) /\ ShouldCalculateDeltas(d) THEN Deltas(E, stats, d.last, d) ELSE <<>>,
             UpdateDeltaState(d, stats))

-----------------------------------------------------------------------------
(* cpu.go.  l.cpu is the number in a line of /proc/stat, -1 on the line of *)
(* all CPUs, None on a line of another kind, Bad after "cpu" as in cpufreq.*)

CPUColumns == 1..10

CollectCPUStats(h) ==
  IF h.stat = None THEN Failed
  ELSE LET lines == {l \in Range(h.stat) : l.cpu \notin {None, Bad} /\ Len(l.vals) >= 7}
       IN  IF lines = {} THEN Failed
           ELSE Stats(ByName(lines, LAMBDA l : l.cpu,
                             LAMBDA l : [i \in CPUColumns |-> Column(l.vals, i)]), <<>>)

CalculateCPUPercentages(delta) ==
  LET total == FoldFunction(+, 0, delta.grown)
  IN  [i \in CPUColumns |-> IF total > 0 THEN (100 * delta.grown[i]) \div total ELSE 0]

CalculateCPUCoreDeltas(current, previous, d) ==
  LET delta == PopulateMetadata(CPUColumns, current, previous, d)
  IN  [delta EXCEPT !.perSec = IF delta.meta.reset THEN [i \in CPUColumns |-> 0]
                               ELSE CalculateCPUPercentages(delta)]

(* Mutant: every sample replaces the previous one. *)
CollectCPUReplacing(h, d) == CollectReplacing(CollectCPUStats(h), d, CalculateCPUCoreDeltas)

CollectCPU(h, d) == CollectKeeping(CollectCPUStats(h), d, CalculateCPUCoreDeltas)

-----------------------------------------------------------------------------
(* disk.go.  A device has a family: "loop", "dm-", "nvme" (also mmcblk) or *)
(* "std"; p says that its name ends with a p and digits, digit that it     *)
(* ends with a digit.  The ninth column is the I/O in progress.            *)

DiskColumns == 1..11

IsPartitionName(l) ==
  CASE l.family \in {"loop", "dm-"} -> FALSE
    [] l.family = "nvme"            -> l.p
    [] OTHER                        -> l.digit

CollectDiskStats(h) ==
  IF h.diskstats = None THEN Failed
  ELSE LET lines == {l \in Range(h.diskstats) : /\ Len(l.vals) >= 11 /\ ~IsPartitionName(l)
                                                /\ Bad \notin {l.major, l.minor}}
       IN  Stats(ByName(lines, LAMBDA l : l.key, LAMBDA l : [i \in DiskColumns |-> Column(l.vals, i)]),
                 <<>>)

(* Sectors are of 512 bytes, times in milliseconds. *)
CalculatePerformanceMetrics(delta, secs) ==
  [iops         |-> delta.perSec[1] + delta.perSec[5],
   readBytes    |-> delta.perSec[3] * 512,
   writeBytes   |-> delta.perSec[7] * 512,
   utilization  |-> Min({100, (delta.grown[10] * 100) \div (secs * 1000)}),
   queue        |-> delta.grown[11] \div (secs * 1000),
   readLatency  |-> IF delta.grown[1] > 0 THEN delta.grown[4] \div delta.grown[1] ELSE 0,
   writeLatency |-> IF delta.grown[5] > 0 THEN delta.grown[8] \div delta.grown[5] ELSE 0]

CalculateDeviceDeltas(current, previous, d) ==
  LET delta == PopulateMetadata(DiskColumns \ {9}, current, previous, d)
  IN  delta @@ [metrics |-> IF delta.meta.reset \/ d.elapsed = 0 THEN None
                            ELSE CalculatePerformanceMetrics(delta, d.elapsed)]

CollectDisk(h, d) == CollectReplacing(CollectDiskStats(h), d, CalculateDeviceDeltas)

-----------------------------------------------------------------------------
(* network.go.  l.colons counts the colons of a line of /proc/net/dev.     *)

ReadInterfaceMetadata(h, name) ==
  IF name \notin DOMAIN h.sysNet THEN [speed |-> 0, duplex |-> "", operState |-> "", link |-> FALSE]
  ELSE LET e == h.sysNet[name]
       IN  [speed     |-> IF e.speed \in {None, Bad} \/ e.speed < 0 THEN 0 ELSE e.speed,
            duplex    |-> ReadWord(e.duplex),
            operState |-> ReadWord(e.operstate),
            link      |-> e.carrier = "1"]

(* The first two lines are headers. *)
CollectNetworkStats(h) ==
  IF h.netdev = None THEN Failed
  ELSE LET lines == {h.netdev[i] : i \in {j \in 3..Len(h.netdev) : /\ h.netdev[j].colons = 1
                                                                  /\ Len(h.netdev[j].vals) >= 16}}
       IN  Stats(ByName(lines, LAMBDA l : l.key, LAMBDA l : [i \in 1..16 |-> Column(l.vals, i)]),
                 [n \in {l.key : l \in lines} |-> ReadInterfaceMetadata(h, n)])

(* Bytes, packets, errors and drops, received and sent. *)
CalculateInterfaceDeltas(current, previous, d) ==
  PopulateMetadata((1..4) \cup (9..12), current, previous, d)

CollectNetwork(h, d) == CollectReplacing(CollectNetworkStats(h), d, CalculateInterfaceDeltas)

-----------------------------------------------------------------------------
(* memory.go *)

HugePages == {"HugePages_Total", "HugePages_Free", "HugePages_Rsvd", "HugePages_Surp"}

MemoryKeys ==
  HugePages \cup
  {"MemTotal", "MemFree", "MemAvailable", "Buffers", "Cached", "SwapCached", "Active", "Inactive",
   "SwapTotal", "SwapFree", "Dirty", "Writeback", "AnonPages", "Mapped", "Shmem", "Slab",
   "SReclaimable", "SUnreclaim", "KernelStack", "PageTables", "CommitLimit", "Committed_AS",
   "VmallocTotal", "VmallocUsed", "Hugepagesize", "Hugetlb"}

(* From kB; the numbers of huge pages by their size, if that is known. *)
ConvertToBytes(raw) ==
  LET size == raw["Hugepagesize"] * 1024
  IN  [k \in MemoryKeys |-> IF k \notin HugePages THEN raw[k] * 1024
                            ELSE IF size > 0 THEN raw[k] * size ELSE raw[k]]

(* The swap counters stay zero when /proc/vmstat cannot be read. *)
CollectSwapActivity(h) ==
  IF h.vmstat = None THEN <<0, 0>> ELSE <<Value(h.vmstat, "pswpin"), Value(h.vmstat, "pswpout")>>

CollectMemoryStats(h) ==
  IF h.meminfo = None THEN Failed
  ELSE Stats("memory" :> CollectSwapActivity(h), ConvertToBytes(Values(h.meminfo, MemoryKeys)))

CalculateMemoryDeltas(current, previous, d) == PopulateMetadata(1..2, current, previous, d)

CollectMemory(h, d) == CollectKeeping(CollectMemoryStats(h), d, CalculateMemoryDeltas)

-----------------------------------------------------------------------------
(* tcp.go.  A table is a line of names and a line of numbers that begin    *)
(* with the same key; l.vals holds either.                                 *)

SNMPNames ==
  <<"ActiveOpens", "PassiveOpens", "AttemptFails", "EstabResets", "InSegs", "OutSegs", "RetransSegs",
    "InErrs", "OutRsts", "InCsumErrors", "CurrEstab">>

NetstatNames ==
  <<"SyncookiesSent", "SyncookiesRecv", "SyncookiesFailed", "ListenOverflows", "ListenDrops",
    "TCPLostRetransmit", "TCPFastRetrans", "TCPSlowStartRetrans", "TCPTimeouts">>

Table(file, k) == SelectSeq(file, LAMBDA l : l.key = k /\ l.vals # <<>>)

(* The numbers under some names, zero where there is none. *)
Under(t, names) ==
  [i \in DOMAIN names |->
     Value([j \in DOMAIN t[1].vals |-> [key |-> t[1].vals[j], val |-> t[2].vals[j]]], names[i])]

Zeros(names) == [i \in DOMAIN names |-> 0]

ParseSNMP(h) ==
  IF h.snmp = None THEN Failed
  ELSE LET t == Table(h.snmp, "Tcp:")
       IN  IF Len(t) < 2 THEN Failed
           ELSE IF Len(t[1].vals) # Len(t[2].vals) THEN Failed ELSE Under(t, SNMPNames)

(* The extended statistics are optional. *)
ParseNetstat(h) ==
  IF h.netstat = None THEN Zeros(NetstatNames)
  ELSE LET t == Table(h.netstat, "TcpExt:")
       IN  IF Len(t) < 2 THEN Zeros(NetstatNames)
           ELSE IF Len(t[1].vals) # Len(t[2].vals) THEN Zeros(NetstatNames) ELSE Under(t, NetstatNames)

(* A file of connections: the state in each line after the first. *)
CountConnectionsFromFile(file, state) ==
  IF file = None THEN 0 ELSE Cardinality({i \in 2..Len(file) : file[i] = state})

TCPStates == {"ESTABLISHED", "SYN_SENT", "SYN_RECV", "FIN_WAIT1", "FIN_WAIT2", "TIME_WAIT", "CLOSE",
              "CLOSE_WAIT", "LAST_ACK", "LISTEN", "CLOSING"}

CountConnectionStates(h) ==
  [s \in TCPStates |-> CountConnectionsFromFile(h.tcp, s) + CountConnectionsFromFile(h.tcp6, s)]

(* Mutant: without the extended statistics there is no sample. *)
CollectTCPStatsOrFail(h) ==
  IF ParseSNMP(h) = Failed \/ h.netstat = None THEN Failed
  ELSE Stats("tcp" :> (ParseSNMP(h) \o ParseNetstat(h)), CountConnectionStates(h))

CollectTCPStats(h) ==
  IF ParseSNMP(h) = Failed THEN Failed
  ELSE Stats("tcp" :> (ParseSNMP(h) \o ParseNetstat(h)), CountConnectionStates(h))

(* All but the number of connections now established. *)
CalculateTCPDeltas(current, previous, d) ==
  PopulateMetadata((1..20) \ {11}, current, previous, d)

CollectTCP(h, d) == CollectKeeping(CollectTCPStats(h), d, CalculateTCPDeltas)

-----------------------------------------------------------------------------
(* system.go: interrupts and context switches. *)

FirstColumn(h, k) ==
  Value([i \in DOMAIN h.stat |-> [key |-> h.stat[i].key,
                                  val |-> IF h.stat[i].vals = <<>> THEN Bad ELSE h.stat[i].vals[1]]], k)

CollectSystemStats(h) ==
  IF h.stat = None THEN Failed
  ELSE Stats("system" :> <<FirstColumn(h, "intr"), FirstColumn(h, "ctxt")>>, <<>>)

CalculateSystemDeltas(current, previous, d) == PopulateMetadata(1..2, current, previous, d)

CollectSystem(h, d) == CollectKeeping(CollectSystemStats(h), d, CalculateSystemDeltas)

-----------------------------------------------------------------------------
(* load.go: five fields of which the fourth is a pair. *)

(* The first such line, if it is well formed. *)
CollectBlockedProcs(h) ==
  IF h.stat = None THEN 0
  ELSE LET lines == SelectSeq(h.stat, LAMBDA l : l.key = "procs_blocked")
       IN  IF lines = <<>> THEN 0
           ELSE IF Len(Head(lines).vals) # 1 THEN 0 ELSE ReadNumber(Head(lines).vals[1])

CollectLoadStats(h) ==
  IF h.loadavg = None THEN Failed
  ELSE IF Len(h.loadavg) < 5 THEN Failed
  ELSE IF Bad \in {h.loadavg[i] : i \in 1..5} THEN Failed
  ELSE Stats(<<>>, [load    |-> SubSeq(h.loadavg, 1, 3),
                    procs   |-> h.loadavg[4],
                    lastPID |-> h.loadavg[5],
                    uptime  |-> ReadNumber(h.uptime),
                    blocked |-> CollectBlockedProcs(h)])

CollectLoad(h, d) ==
  IF CollectLoadStats(h) = Failed THEN Failed ELSE Event(CollectLoadStats(h), <<>>, d)

-----------------------------------------------------------------------------
(* numa_stats.go.  The directory of nodes is None if there is none and Bad *)
(* if it cannot be read.                                                   *)

DetectNUMANodes(h) ==
  IF h.nodeDir = None THEN {}
  ELSE IF h.nodeDir = Bad THEN Failed ELSE {e \in h.nodeDir : e.id # Bad}

NUMACounters ==
  <<"numa_hit", "numa_miss", "numa_foreign", "interleave_hit", "local_node", "other_node">>

(* A file with nothing but zeros counts as invalid. *)
ReadNodeNumaStat(e) ==
  IF e.numastat = None THEN Failed
  ELSE LET vals == [i \in DOMAIN NUMACounters |-> Value(e.numastat, NUMACounters[i])]
       IN  IF Range(vals) = {0} THEN Failed ELSE vals

ReadNodeMeminfo(e) ==
  LET keys == {"MemFree", "MemUsed", "FilePages", "AnonPages"}
  IN  [k \in keys |-> IF e.meminfo = None THEN 0 ELSE Value(e.meminfo, k) * 1024]

(* A node whose counters cannot be read is left out. *)
CollectNodeStats(nodes) ==
  LET read == {e \in nodes : ReadNodeNumaStat(e) # Failed}
  IN  Stats(ByName(read, LAMBDA e : e.id, ReadNodeNumaStat), ByName(read, LAMBDA e : e.id, ReadNodeMeminfo))

CalculateNUMANodeDeltas(current, previous, d) == PopulateMetadata(1..6, current, previous, d)

(* With fewer than two nodes the state is not touched. *)
CollectNUMA(h, d) ==
  LET nodes == DetectNUMANodes(h)
  IN  IF nodes = Failed THEN Failed
      ELSE IF Cardinality(nodes) > 1
      THEN CollectReplacing(CollectNodeStats(nodes), d, CalculateNUMANodeDeltas)
      ELSE Event(Stats(<<>>, <<>>), <<>>, d)

-----------------------------------------------------------------------------
(* cgroup_cpu.go.  CD!FilesAt gives the files of a container's directory.  *)

Parsed(files, f) == ReadNumber(CD!Content(files, f))

StatOf(files, f) == IF CD!Content(files, f) = None THEN <<>> ELSE CD!Content(files, f)

ParseCPUStat(file) ==
  [periods |-> Value(file, "nr_periods"), throttled |-> Value(file, "nr_throttled"),
   throttledTime |-> Value(file, "throttled_time")]

(* Microseconds in the file, nanoseconds in the sample. *)
ParseCgroupV2CPUStat(file) ==
  [periods |-> Value(file, "nr_periods"), throttled |-> Value(file, "nr_throttled"),
   throttledTime |-> Value(file, "throttled_usec") * 1000, usage |-> Value(file, "usage_usec") * 1000]

(* The usage is in the directory of the same name of another controller.   *)
(* Any file may be missing.                                                *)
ReadCgroupV1CPU(h, c) ==
  LET files == CD!FilesAt(h, c.path)
  IN  ParseCPUStat(StatOf(files, "cpu.stat"))
      @@ [usage  |-> Parsed(CD!FilesAt(h, CD!In(h, c.path, {"cpu"}, "cpuacct")), "cpuacct.usage"),
          shares |-> Parsed(files, "cpu.shares"),
          quota  |-> Parsed(files, "cpu.cfs_quota_us"),
          period |-> Parsed(files, "cpu.cfs_period_us")]

(* cpu.max is <<quota, period>>; a quota of "max" is -1.  A weight is      *)
(* converted to shares.                                                    *)
ReadCgroupV2CPU(h, c) ==
  LET files == CD!FilesAt(h, c.path)
      max   == CD!Content(files, "cpu.max")
      ok    == max # None /\ Len(max) = 2
  IN  IF CD!Content(files, "cpu.stat") = None THEN Failed
      ELSE ParseCgroupV2CPUStat(files["cpu.stat"])
           @@ [quota  |-> IF ok THEN ReadNumber(max[1]) ELSE 0,
               period |-> IF ok THEN ReadNumber(max[2]) ELSE 0,
               shares |-> (Parsed(files, "cpu.weight") * 1024) \div 100]

ContainerCPUStats(h, c) ==
  LET s == IF c.version = 1 THEN ReadCgroupV1CPU(h, c) ELSE ReadCgroupV2CPU(h, c)
  IN  IF s = Failed THEN Failed
      ELSE s @@ [throttlePercent |-> IF s.periods > 0 THEN (s.throttled * 100) \div s.periods ELSE 0]

(* A container that cannot be read is left out.  Without cgroups there is  *)
(* no sample, nor when the context ends before a container is read.        *)
CollectContainers(h, d, subsystem, Read(_, _)) ==
  LET version == CD!DetectCgroupVersion(h)
      found   == CD!DiscoverContainers(h, subsystem, version)
  IN  IF version = Failed \/ found = Failed THEN Failed
      ELSE IF h.cancelled /\ found # <<>> THEN Failed
      ELSE Event(Stats(<<>>, SelectSeq([i \in DOMAIN found |-> Read(h, found[i])], LAMBDA s : s # Failed)),
                 <<>>, d)

CollectCgroupCPU(h, d) == CollectContainers(h, d, "cpu", ContainerCPUStats)

-----------------------------------------------------------------------------
(* cgroup_memory.go *)

MemoryStat(file, rss, cache, mapped) ==
  [rss |-> Value(file, rss), cache |-> Value(file, cache), mapped |-> Value(file, mapped)]
  @@ Values(file, {"swap", "active_anon", "inactive_anon", "active_file", "inactive_file"})

ParseMemoryStat(file) == MemoryStat(file, "rss", "cache", "mapped_file")

ParseCgroupV2MemoryStat(file) == MemoryStat(file, "anon", "file", "file_mapped")

ParseOOMControl(file) ==
  [underOOM |-> \E l \in Range(file) : l.key = "under_oom" /\ l.val = 1, oomKills |-> Value(file, "oom_kill")]

ParseMemoryEvents(file) == [failures |-> Value(file, "max"), oomKills |-> Value(file, "oom_kill")]

(* Without memory.stat the container is skipped; the rest is optional. *)
ReadCgroupV1Memory(h, c) ==
  LET files == CD!FilesAt(h, c.path)
  IN  IF CD!Content(files, "memory.stat") = None THEN Failed
      ELSE ParseMemoryStat(files["memory.stat"]) @@ ParseOOMControl(StatOf(files, "memory.oom_control"))
           @@ [usage    |-> Parsed(files, "memory.usage_in_bytes"),
               limit    |-> Parsed(files, "memory.limit_in_bytes"),
               peak     |-> Parsed(files, "memory.max_usage_in_bytes"),
               failures |-> Parsed(files, "memory.failcnt")]

(* A limit of "max" is the largest number, and no percentage is of it. *)
ReadCgroupV2Memory(h, c) ==
  LET files == CD!FilesAt(h, c.path)
      max   == CD!Content(files, "memory.max")
  IN  IF CD!Content(files, "memory.stat") = None THEN Failed
      ELSE ParseCgroupV2MemoryStat(files["memory.stat"])
           @@ ParseMemoryEvents(StatOf(files, "memory.events"))
           @@ [usage |-> Parsed(files, "memory.current"),
               limit |-> IF max = -1 THEN Word - 1 ELSE ReadNumber(max),
               peak  |-> Parsed(files, "memory.peak")]

ContainerMemoryStats(h, c) ==
  LET s == IF c.version = 1 THEN ReadCgroupV1Memory(h, c) ELSE ReadCgroupV2Memory(h, c)
  IN  IF s = Failed THEN Failed
      ELSE s @@ [usagePercent |-> IF s.limit \in 1..((Word - 1) \div 2 - 1)
                                  THEN (s.usage * 100) \div s.limit ELSE 0,
                 cachePercent |-> IF s.usage > 0 THEN (s.cache * 100) \div s.usage ELSE 0]

CollectCgroupMemory(h, d) == CollectContainers(h, d, "memory", ContainerMemoryStats)

-----------------------------------------------------------------------------
(* process.go.  h.procs are the entries of /proc in order; e.pid is Bad on *)
(* what is no process, e.stat None once the process is gone and Bad if the *)
(* line has no command in it; stat.fields counts what follows the command. *)
(* The state is [last, elapsed]: the CPU time of every process seen, and   *)
(* the time since.                                                         *)

UserHZ(h) == IF h.userHZ = None THEN 100 ELSE h.userHZ

(* The subtraction is one of uint64. *)
ReadMinimalStats(h, e, d) ==
  IF e.stat \in {None, Bad} THEN Failed
  ELSE IF e.stat.fields < 13 THEN Failed
  ELSE LET time == ReadNumber(e.stat.utime) + ReadNumber(e.stat.stime)
           secs == IF d.elapsed = 0 THEN 1 ELSE d.elapsed
           used == IF e.pid \in DOMAIN d.last THEN (time - d.last[e.pid]) % Word ELSE 0
       IN  [pid |-> e.pid, time |-> time, used |-> used, percent |-> (used * 100) \div (UserHZ(h) * secs)]

CollectMinimalStats(h, d) ==
  IF h.procs = None THEN Failed
  ELSE IF h.cancelled /\ h.procs # <<>> THEN Failed
  ELSE {s \in {ReadMinimalStats(h, e, d) : e \in {x \in Range(h.procs) : x.pid # Bad}} : s # Failed}

(* Those that are gone are dropped only when they are more than half. *)
UpdateLastCPUTimesFromMinimal(d, minimal) ==
  LET seen == {s.pid : s \in minimal}
      all  == DOMAIN d.last \cup seen
      kept == IF Cardinality(all) > 2 * Cardinality(seen) /\ Cardinality(all) > CleanupSize
              THEN seen ELSE all
  IN  [last    |-> [p \in kept |-> IF p \in seen THEN (CHOOSE s \in minimal : s.pid = p).time
                                   ELSE d.last[p]],
       elapsed |-> 0]

(* The sort leaves open which of several equal ones come first. *)
TopOf(minimal) ==
  {t \in SUBSET minimal : /\ Cardinality(t) = Min({TopProcesses, Cardinality(minimal)})
                          /\ \A s \in t, r \in minimal \ t : s.percent >= r.percent}

(* Of the fields of a stat line: two that are copied, and three that are   *)
(* converted.  It takes more fields than the first phase needs; of exactly *)
(* 21, which no kernel writes, the code would read one too many.           *)
ParseStatFull(h, stat) ==
  IF stat.fields < 21 THEN Failed ELSE
  [state |-> stat.state, ppid |-> ReadNumber(stat.ppid),
   time  |-> ReadNumber(stat.utime) + ReadNumber(stat.stime),
   rss   |-> ReadNumber(stat.rss) * (IF h.pageSize = None THEN 4096 ELSE h.pageSize),
   start |-> IF h.bootTime = None \/ stat.start = Bad THEN 0 ELSE h.bootTime + stat.start \div UserHZ(h)]

ParseStatus(file) ==
  Values(file, {"Threads", "voluntary_ctxt_switches", "nonvoluntary_ctxt_switches"})

ParseSmapsRollup(file) ==
  [pss |-> Value(file, "Pss") * 1024,
   uss |-> (Value(file, "Private_Clean") + Value(file, "Private_Dirty")) * 1024]

(* The arguments, without empty ones at the end. *)
ParseCmdline(args) ==
  SubSeq(args, 1, Max({0} \cup {i \in DOMAIN args : args[i] # ""}))

(* The percentage is that of the first phase. *)
CollectFullProcessData(h, minimal) ==
  LET entries == IF h.procs = None THEN {}
                 ELSE {e \in Range(h.procs) : e.pid = minimal.pid /\ e.stat \notin {None, Bad}}
      optional(file) == IF file = None THEN <<>> ELSE file
  IN  IF entries = {} THEN Failed
      ELSE LET e == CHOOSE e \in entries : TRUE
           IN  IF ParseStatFull(h, e.stat) = Failed THEN Failed ELSE
               ParseStatFull(h, e.stat) @@ ParseStatus(optional(e.status))
               @@ ParseSmapsRollup(optional(e.smaps))
               @@ [pid |-> e.pid, percent |-> minimal.percent,
                   cmdline |-> ParseCmdline(optional(e.cmdline)),
                   fds |-> IF e.fds = None THEN 0 ELSE e.fds]

-----------------------------------------------------------------------------
(* kernel.go.  A line of /dev/kmsg is [header, text], its header None if   *)
(* there is no semicolon.  A text is [bracket, prefix, long]: what its     *)
(* brackets enclose, the words before a colon that is near enough, and     *)
(* whether these are too long for the name of a subsystem.                 *)

ParseMessageContent(t) ==
  CASE t.bracket # None -> [subsystem |-> t.bracket, device |-> ""]
    [] t.bracket = None /\ Len(t.prefix) = 2 -> [subsystem |-> t.prefix[1], device |-> t.prefix[2]]
    [] OTHER -> [subsystem |-> IF Len(t.prefix) = 1 /\ ~t.long THEN t.prefix[1] ELSE "", device |-> ""]

ParseKmsgLine(m, bootTime) ==
  IF m.header = None THEN Failed
  ELSE IF Len(m.header) < 3 THEN Failed
  ELSE IF Bad \in {m.header[i] : i \in 1..3} THEN Failed
  ELSE [facility |-> m.header[1] \div 8, severity |-> m.header[1] % 8, sequence |-> m.header[2],
        time |-> bootTime + m.header[3], source |-> ParseMessageContent(m.text)]
=============================================================================
