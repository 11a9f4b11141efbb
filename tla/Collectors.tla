----------------------------- MODULE Collectors -----------------------------
(***************************************************************************)
(* A collector from its registration to its end: the registry              *)
(* (pkg/performance/registry.go), the goroutine that samples until its     *)
(* context is cancelled (ContinuousPointCollector, or a collector's own),  *)
(* and the machine that goes on working in the meantime.                   *)
(*                                                                         *)
(* The machine is [count, extra, broken, legacy]: how much it has done     *)
(* since its counters last went back to zero, whether a CPU, disk,         *)
(* interface, node or process that comes and goes is there, which files    *)
(* cannot be read, and whether its cgroup hierarchies are of version 1.    *)
(* Files(machine) are its files; their counters grow with count.           *)
(***************************************************************************)
EXTENDS Samples

CONSTANTS
  Files(_),      \* the files of the machine
  Config,        \* of the collectors: the host's paths and the delta mode
  Capabilities,  \* what the process may have been granted; Failed if unreadable
  ChanCap,       \* capacity of the channel of a collector
  Kmsg,          \* how many messages the kernel's ring holds
  Steps,         \* the times that may pass between two ticks, in seconds
  MaxGrowth,     \* bound on the work of the machine
  MaxFaults      \* bound on how often counters go back, devices come or go, files fail

VARIABLES
  kind,       \* what the collector collects
  machine,    \* the state of the machine
  d,          \* what the collector keeps between samples
  start,      \* where Start is
  pc,         \* where the goroutine of the collector is
  pending,    \* the sample it is working on
  status,     \* CollectorStatus
  chan,       \* samples in the channel
  closed,     \* the channel is closed
  left,       \* the reader of the channel has left
  cancelled,  \* the context is cancelled
  grown,      \* all the machine has done
  faults,     \* how often something else happened to it
  tally       \* the growth reported, and what happened that excuses a difference

colVars == <<d, start, pc, pending, status, chan, closed, tally>>
vars == <<kind, machine, cancelled, left, grown, faults, colVars>>

-----------------------------------------------------------------------------
(* types.go and the constructors of the collectors. *)

(* Required paths are there, and all that are there are absolute. *)
Validate(config, required) ==
  /\ \A p \in required : config[p] # ""
  /\ \A p \in {"proc", "sys", "dev"} : config[p] \in {"", "absolute"}

NewCPUCollector(config)          == Validate(config, {"proc"})
NewDiskCollector(config)         == Validate(config, {"proc"})
NewNetworkCollector(config)      == Validate(config, {"proc", "sys"})
NewMemoryCollector(config)       == Validate(config, {"proc"})
NewTCPCollector(config)          == Validate(config, {"proc"})
NewSystemStatsCollector(config)  == Validate(config, {"proc"})
NewLoadCollector(config)         == Validate(config, {"proc"})
NewNUMAStatsCollector(config)    == Validate(config, {"proc", "sys"})
NewCgroupCPUCollector(config)    == Validate(config, {"sys"})
NewCgroupMemoryCollector(config) == Validate(config, {"sys"})
NewProcessCollector(config)      == Validate(config, {"proc"})
NewKernelCollector(config)       == Validate(config, {"proc", "dev"})
NewCPUInfoCollector(config)      == Validate(config, {"proc", "sys"})
NewMemoryInfoCollector(config)   == Validate(config, {"proc", "sys"})
NewDiskInfoCollector(config)     == Validate(config, {"sys"})
NewNetworkInfoCollector(config)  == Validate(config, {"sys"})

Keeping   == {"cpu", "memory", "tcp", "system"}
Replacing == {"disk", "network", "numa_stats"}
Gauges    == {"load", "cgroup_cpu", "cgroup_memory"}
Point     == Keeping \cup Replacing \cup Gauges
Once      == {"cpu_info", "memory_info", "disk_info", "network_info"}
Kinds     == Point \cup Once \cup {"process", "kernel"}

Constructed(k, config) ==
  CASE k = "cpu" -> NewCPUCollector(config)
    [] k = "disk" -> NewDiskCollector(config)
    [] k = "network" -> NewNetworkCollector(config)
    [] k = "memory" -> NewMemoryCollector(config)
    [] k = "tcp" -> NewTCPCollector(config)
    [] k = "system" -> NewSystemStatsCollector(config)
    [] k = "load" -> NewLoadCollector(config)
    [] k = "numa_stats" -> NewNUMAStatsCollector(config)
    [] k = "cgroup_cpu" -> NewCgroupCPUCollector(config)
    [] k = "cgroup_memory" -> NewCgroupMemoryCollector(config)
    [] k = "process" -> NewProcessCollector(config)
    [] k = "kernel" -> NewKernelCollector(config)
    [] k = "cpu_info" -> NewCPUInfoCollector(config)
    [] k = "memory_info" -> NewMemoryInfoCollector(config)
    [] k = "disk_info" -> NewDiskInfoCollector(config)
    [] k = "network_info" -> NewNetworkInfoCollector(config)

-----------------------------------------------------------------------------
(* The registry, and the capabilities it asks for. *)

ApplyDefaults(config) ==
  [p \in DOMAIN config |-> IF config[p] # "" THEN config[p]
                           ELSE IF p = "mode" THEN "enabled" ELSE "absolute"]

RequiredCapabilities(k) == IF k = "kernel" THEN {"CAP_SYSLOG"} ELSE {}

HasAllCapabilities(required, granted) == granted # Failed /\ required \subseteq granted

(* Without requirements nothing is read. *)
CanRun(k, granted) ==
  RequiredCapabilities(k) = {} \/ HasAllCapabilities(RequiredCapabilities(k), granted)

(* The minimum version of the kernel is recorded and not compared. *)
Register(granted) ==
  {k \in Kinds : Constructed(k, ApplyDefaults([p \in DOMAIN Config |-> ""])) /\ CanRun(k, granted)}

GetCollector(k, granted) == k \in Register(granted)

-----------------------------------------------------------------------------

(* One sample of a point collector, or Failed. *)
Collect(h, s) ==
  CASE kind = "cpu" -> CollectCPU(h, s)
    [] kind = "disk" -> CollectDisk(h, s)
    [] kind = "network" -> CollectNetwork(h, s)
    [] kind = "memory" -> CollectMemory(h, s)
    [] kind = "tcp" -> CollectTCP(h, s)
    [] kind = "system" -> CollectSystem(h, s)
    [] kind = "load" -> CollectLoad(h, s)
    [] kind = "numa_stats" -> CollectNUMA(h, s)
    [] kind = "cgroup_cpu" -> CollectCgroupCPU(h, s)
    [] kind = "cgroup_memory" -> CollectCgroupMemory(h, s)

Info(h) ==
  CASE kind = "cpu_info" -> CollectCPUInfo(h)
    [] kind = "memory_info" -> CollectMemoryInfo(h)
    [] kind = "disk_info" -> CollectDiskInfo(h)
    [] kind = "network_info" -> CollectNetworkInfo(h)

(* Which files cannot be read. *)
Broken == {"none", "optional", "required"}

Now == Files(machine) @@ [cancelled |-> cancelled]

Init ==
  /\ kind \in UNION {Register(granted) : granted \in Capabilities}
  /\ machine \in [count : {1}, extra : {TRUE}, broken : Broken, legacy : BOOLEAN]
  /\ machine.legacy => kind \in {"cgroup_cpu", "cgroup_memory"}
  /\ machine.broken # "none" => kind \notin Point  \* whose Start reads no file
  /\ d = IF kind = "process" THEN [last |-> <<>>, elapsed |-> 0]
         ELSE IF kind = "kernel" THEN 0 ELSE NewBaseDeltaCollector(ApplyDefaults(Config).mode)
  /\ start = "no"
  /\ pc = "none"
  /\ pending = None
  /\ status = "disabled"
  /\ chan = 0
  /\ closed = FALSE
  /\ left = FALSE
  /\ cancelled = FALSE
  /\ grown = 1
  /\ faults = IF machine.broken = "none" THEN 0 ELSE 1
  /\ tally = [sum |-> <<>>, origin |-> None, calm |-> TRUE, blind |-> FALSE]

-----------------------------------------------------------------------------
(* What a first sample of these files would count. *)
Counted(files) ==
  LET h == files @@ [cancelled |-> FALSE]
  IN  IF kind # "process" THEN Collect(h, NewBaseDeltaCollector("enabled")).stats.counters
      ELSE LET minimal == CollectMinimalStats(h, [last |-> <<>>, elapsed |-> 0])
           IN  [p \in {s.pid : s \in minimal} |-> <<(CHOOSE s \in minimal : s.pid = p).time>>]

GrowthColumns ==
  [k \in Keeping \cup Replacing \cup {"process"} |->
     CASE k = "cpu" -> CPUColumns
       [] k = "disk" -> DiskColumns \ {9}
       [] k = "network" -> (1..4) \cup (9..12)
       [] k = "tcp" -> (1..20) \ {11}
       [] k = "numa_stats" -> 1..6
       [] k = "process" -> 1..1
       [] OTHER -> 1..2]

(* What the properties speak of: the growth reported so far (sum), the     *)
(* first sample (origin), whether something happened after which the code  *)
(* no longer reports all growth (calm), and whether it took a number for a *)
(* counter that was none (blind).                                          *)

Reported(sum, e, i) == IF e \in DOMAIN sum THEN sum[e][i] ELSE 0

Add(sum, deltas) ==
  [e \in DOMAIN sum \cup DOMAIN deltas |->
     IF e \notin DOMAIN deltas THEN sum[e]
     ELSE [i \in DOMAIN deltas[e] |-> Reported(sum, e, i) + deltas[e][i]]]

OptionalCounters == {"memory", "tcp"}

(* Whether a sample taken now is compared with the last one, or will be by *)
(* way of the next.                                                        *)
Continues(elapsed) ==
  \/ d.last = None
  \/ elapsed \in (IF kind \in Keeping THEN 0 ELSE MinInterval)..MaxInterval

(* A collector that takes a sample it does not compare begins anew. *)
Origin(elapsed, sum, counters) ==
  CASE kind \in Gauges \/ (tally.origin # None /\ Continues(elapsed)) -> tally.origin
    [] tally.origin = None /\ kind \notin Gauges -> counters
    [] tally.origin # None /\ ~Continues(elapsed) ->
         [e \in DOMAIN tally.origin \cap DOMAIN counters |->
            [i \in GrowthColumns[kind] |-> counters[e][i] - Reported(sum, e, i)]]

Tallied(elapsed, stats, deltas) ==
  LET sum == Add(tally.sum, [e \in DOMAIN deltas |-> deltas[e].grown])
  IN  [sum    |-> sum,
       origin |-> Origin(elapsed, sum, stats.counters),
       calm   |-> tally.calm /\ (kind \in Keeping => Continues(elapsed)),
       blind  |-> tally.blind \/ (kind \in OptionalCounters /\ machine.broken = "optional")]

(* Nothing is asked any more of what has gone. *)
Staying(m) ==
  LET all == DOMAIN Counted(Files([m EXCEPT !.broken = "none"]))
  IN  IF kind \in DOMAIN GrowthColumns /\ tally.origin # None
      THEN [e \in DOMAIN tally.origin \cap all |-> tally.origin[e]]
      ELSE tally.origin

-----------------------------------------------------------------------------
(* ContinuousPointCollector.  The goroutine runs before Start has set the  *)
(* status; if it has ended by then, the status stays and so does the nil   *)
(* it left in place of the channel.                                        *)

StartPoint ==
  /\ kind \in Point
  /\ start = "no"
  /\ start' = "spawned"
  /\ pc' = "wait"
  /\ UNCHANGED <<kind, machine, cancelled, left, grown, faults, d, pending, status, chan, closed, tally>>

StartReturns ==
  /\ start = "spawned"
  /\ start' = IF pc = "ended" THEN "late" ELSE "returned"
  /\ status' = "active"
  /\ UNCHANGED <<kind, machine, cancelled, left, grown, faults, d, pc, pending, chan, closed, tally>>

Later(dt) == [d EXCEPT !.elapsed = Min({@ + dt, MaxInterval + 1})]

(* A failure leaves the status degraded, also after later successes. *)
PointTick(dt) ==
  /\ kind \in Point
  /\ pc = "wait"
  /\ LET event == Collect(Now, Later(dt))
     IN  IF event = Failed
         THEN /\ d' = Later(dt)
              /\ status' = "degraded"
              /\ UNCHANGED <<pc, pending, tally>>
         ELSE /\ d' = event.state
              /\ pending' = [stats |-> event.stats, deltas |-> event.deltas]
              /\ tally' = Tallied(Later(dt).elapsed, event.stats, event.deltas)
              /\ pc' = "send"
              /\ UNCHANGED status
  /\ UNCHANGED <<kind, machine, cancelled, left, grown, faults, start, chan, closed>>

(* The send waits for room whatever becomes of the context. *)
PointSend ==
  /\ kind \in Point
  /\ pc = "send"
  /\ chan < ChanCap
  /\ chan' = chan + 1
  /\ pending' = None
  /\ pc' = "wait"
  /\ UNCHANGED <<kind, machine, cancelled, left, grown, faults, d, start, status, closed, tally>>

(* The end of every goroutine: the channel is closed, the status reset. *)
Ends ==
  /\ pc' = "ended"
  /\ pending' = None
  /\ closed' = TRUE
  /\ status' = "disabled"
  /\ UNCHANGED <<kind, machine, cancelled, left, grown, faults, d, start, chan, tally>>

(* Mutant: the status is not reset. *)
PointDoneKeepsStatus ==
  /\ kind \in Point
  /\ pc = "wait"
  /\ cancelled
  /\ pc' = "ended"
  /\ closed' = TRUE
  /\ UNCHANGED <<kind, machine, cancelled, left, grown, faults, d, start, pending, status, chan, tally>>

PointDone ==
  /\ kind \in Point
  /\ pc = "wait"
  /\ cancelled
  /\ Ends

-----------------------------------------------------------------------------
(* OnceContinuousCollector: all within Start. *)

StartOnce ==
  /\ kind \in Once
  /\ start = "no"
  /\ start' = IF Info(Now) = Failed THEN "failed" ELSE "returned"
  /\ chan' = IF Info(Now) = Failed THEN 0 ELSE 1
  /\ closed' = TRUE
  /\ pc' = "ended"
  /\ UNCHANGED <<kind, machine, cancelled, left, grown, faults, d, pending, status, tally>>

-----------------------------------------------------------------------------
(* process.go.  A first look that fails is final: the status is not reset. *)

StartProcess ==
  /\ kind = "process"
  /\ start = "no"
  /\ LET minimal == CollectMinimalStats(Now, d)
     IN  IF minimal = Failed
         THEN /\ start' = "failed"
              /\ status' = "failed"
              /\ UNCHANGED <<d, pc, tally>>
         ELSE /\ d' = UpdateLastCPUTimesFromMinimal(d, minimal)
              /\ tally' = [tally EXCEPT !.origin = [p \in DOMAIN d'.last |-> <<d'.last[p]>>]]
              /\ status' = "active"
              /\ start' = "returned"
              /\ pc' = "wait"
  /\ UNCHANGED <<kind, machine, cancelled, left, grown, faults, pending, chan, closed>>

(* The first phase: who used most. *)
ProcessTick(dt) ==
  /\ kind = "process"
  /\ pc = "wait"
  /\ LET minimal == CollectMinimalStats(Now, Later(dt))
     IN  IF minimal = Failed
         THEN /\ d' = Later(dt)
              /\ status' = "failed"
              /\ UNCHANGED <<pc, pending, tally>>
         ELSE /\ d' = UpdateLastCPUTimesFromMinimal(Later(dt), minimal)
              /\ pending' \in TopOf(minimal)
              /\ tally' = [tally EXCEPT !.sum = Add(@, [p \in {s.pid : s \in minimal} |->
                                            <<(CHOOSE s \in minimal : s.pid = p).used>>])]
              /\ pc' = "full"
              /\ UNCHANGED status
  /\ UNCHANGED <<kind, machine, cancelled, left, grown, faults, start, chan, closed>>

(* The second phase reads them again; those gone by now are left out. *)
ProcessFull ==
  /\ pc = "full"
  /\ pending' = {f \in {CollectFullProcessData(Now, s) : s \in pending} : f # Failed}
  /\ pc' = "send"
  /\ UNCHANGED <<kind, machine, cancelled, left, grown, faults, d, start, status, chan, closed, tally>>

(* The channel has no room: the sample is handed over. *)
ProcessSend ==
  /\ kind = "process"
  /\ pc = "send"
  /\ pending' = None
  /\ pc' = "wait"
  /\ UNCHANGED <<kind, machine, cancelled, left, grown, faults, d, start, status, chan, closed, tally>>

ProcessDone ==
  /\ kind = "process"
  /\ pc \in {"wait", "send"}
  /\ cancelled
  /\ Ends

-----------------------------------------------------------------------------
(* kernel.go.  d is the number of messages read or lost.                   *)

StartKernel ==
  /\ kind = "kernel"
  /\ start = "no"
  /\ IF Now.bootTime = None THEN start' = "failed" /\ UNCHANGED <<pc, status>>
     ELSE start' = "returned" /\ pc' = "open" /\ status' = "active"
  /\ UNCHANGED <<kind, machine, cancelled, left, grown, faults, d, pending, chan, closed, tally>>

(* An error is forgotten again when the goroutine ends. *)
KernelOpens ==
  /\ pc = "open"
  /\ Now.kmsg # None
  /\ pc' = "initial"
  /\ UNCHANGED <<kind, machine, cancelled, left, grown, faults, d, start, pending, status, chan, closed,
                 tally>>

KernelFails ==
  /\ \/ pc = "open" /\ Now.kmsg = None
     \/ pc \in {"initial", "tail"} /\ ~cancelled /\ Now.kmsg = None
  /\ Ends

KernelDone ==
  /\ pc \in {"initial", "sendInitial", "tail"}
  /\ cancelled
  /\ Ends

(* The next message, unless the ring has been overrun. *)
Reads(loop, Got(_)) ==
  /\ pc = loop
  /\ ~cancelled
  /\ Now.kmsg # None
  /\ d < machine.count
  /\ machine.count - d <= Kmsg
  /\ d' = d + 1
  /\ Got(ParseKmsgLine(Now.kmsg[d + 1], Now.bootTime))
  /\ UNCHANGED <<kind, machine, cancelled, left, grown, faults, start, status, closed, tally>>

KernelReadsInitial ==
  Reads("initial", LAMBDA m : /\ IF m = Failed THEN UNCHANGED <<pc, pending>>
                                 ELSE pc' = "sendInitial" /\ pending' = m
                              /\ UNCHANGED chan)

KernelSendsInitial ==
  /\ pc = "sendInitial"
  /\ chan < ChanCap
  /\ chan' = chan + 1
  /\ pending' = None
  /\ pc' = "initial"
  /\ UNCHANGED <<kind, machine, cancelled, left, grown, faults, d, start, status, closed, tally>>

(* EAGAIN: all messages have been read. *)
KernelTails ==
  /\ pc = "initial"
  /\ ~cancelled
  /\ Now.kmsg # None
  /\ d = machine.count
  /\ pc' = "tail"
  /\ UNCHANGED <<kind, machine, cancelled, left, grown, faults, d, start, pending, status, chan, closed,
                 tally>>

(* A message for which there is no room is dropped. *)
KernelReadsTail ==
  Reads("tail", LAMBDA m : /\ chan' = IF m # Failed /\ chan < ChanCap THEN chan + 1 ELSE chan
                           /\ UNCHANGED <<pc, pending>>)

(* EPIPE: the next read is of the oldest message that is left. *)
KernelOverrun ==
  /\ pc \in {"initial", "tail"}
  /\ ~cancelled
  /\ Now.kmsg # None
  /\ machine.count - d > Kmsg
  /\ d' = machine.count - Kmsg
  /\ UNCHANGED <<kind, machine, cancelled, left, grown, faults, start, pc, pending, status, chan,
                 closed, tally>>

-----------------------------------------------------------------------------
(* The reader of the channel, the owner of the context, the machine. *)

(* The merger takes samples for eventCollector, which publishes them. *)
Receive ==
  /\ ~left
  /\ chan > 0
  /\ chan' = chan - 1
  /\ UNCHANGED <<kind, machine, cancelled, left, grown, faults, d, start, pc, pending, status, closed, tally>>

(* At the end of the agent's context eventCollector returns at once.  The  *)
(* merger then waits for ever to hand over the next sample it takes, or    *)
(* returns when it is closed: no one reads the channel any more.  Before   *)
(* the channel is full that makes no difference.                           *)
ReaderLeaves ==
  /\ cancelled
  /\ ~left
  /\ chan = ChanCap
  /\ left' = TRUE
  /\ UNCHANGED <<kind, machine, cancelled, grown, faults, colVars>>

Cancel ==
  /\ ~cancelled
  /\ cancelled' = TRUE
  /\ UNCHANGED <<kind, machine, left, grown, faults, colVars>>

(* Neither a send nor the end of Start reads the machine: what happens to  *)
(* it meanwhile may as well happen after.                                  *)
Running == start = "returned" /\ pc \notin {"ended", "send"} /\ ~cancelled

Fault ==
  /\ Running
  /\ faults < MaxFaults
  /\ faults' = faults + 1

Work ==
  /\ Running
  /\ grown < MaxGrowth
  /\ grown' = grown + 1
  /\ machine' = [machine EXCEPT !.count = @ + 1]
  /\ UNCHANGED <<kind, cancelled, left, faults, colVars>>

(* A driver is loaded again, or a process has the number of one that ended.*)
ResetCounters ==
  /\ Fault
  /\ kind \in Keeping \cup Replacing \cup {"process"}
  /\ machine' = [machine EXCEPT !.count = 0]
  /\ tally' = [tally EXCEPT !.calm = FALSE, !.blind = @ \/ kind = "process"]
  /\ UNCHANGED <<kind, cancelled, left, grown, d, start, pc, pending, status, chan, closed>>

Plug ==
  /\ Fault
  /\ kind # "kernel"
  /\ machine' = [machine EXCEPT !.extra = ~@]
  /\ tally' = [tally EXCEPT !.origin = Staying(machine')]
  /\ UNCHANGED <<kind, cancelled, left, grown, d, start, pc, pending, status, chan, closed>>

(* Files that cannot be read, and can be again. *)
Break(which) ==
  /\ Fault
  /\ machine.broken # which
  /\ machine' = [machine EXCEPT !.broken = which]
  /\ UNCHANGED <<kind, cancelled, left, grown, colVars>>

Next ==
  \/ StartPoint
  \/ StartReturns
  \/ \E dt \in Steps : PointTick(dt)
  \/ PointSend
  \/ PointDone
  \/ StartOnce
  \/ StartProcess
  \/ \E dt \in Steps : ProcessTick(dt)
  \/ ProcessFull
  \/ ProcessSend
  \/ ProcessDone
  \/ StartKernel
  \/ KernelOpens
  \/ KernelFails
  \/ KernelDone
  \/ KernelReadsInitial
  \/ KernelSendsInitial
  \/ KernelTails
  \/ KernelReadsTail
  \/ KernelOverrun
  \/ Receive
  \/ ReaderLeaves
  \/ Cancel
  \/ Work
  \/ ResetCounters
  \/ Plug
  \/ \E which \in Broken : Break(which)

(* The goroutines run; a select that again and again has the end of the    *)
(* context to choose chooses it; the channel is read until its reader      *)
(* leaves.                                                                 *)
Fairness ==
  /\ WF_start(StartReturns)
  /\ WF_pc(PointSend)
  /\ SF_pc(PointDone)
  /\ WF_pc(ProcessFull)
  /\ SF_pc(ProcessDone)
  /\ WF_pc(KernelOpens \/ KernelFails)
  /\ WF_pc(KernelDone)
  /\ WF_chan(Receive)

Spec == Init /\ [][Next]_vars /\ Fairness

-----------------------------------------------------------------------------
(* Properties. *)

(* The columns that hold made-up numbers. *)
MadeUp ==
  CASE ~tally.blind -> {}
    [] tally.blind /\ kind = "tcp" -> 12..20
    [] tally.blind /\ kind = "memory" -> 1..2
    [] tally.blind /\ kind = "process" -> 1..1

(* Deltas never claim more growth than there was: whatever counters go     *)
(* back to zero, devices come and go, files fail and intervals stretch,    *)
(* the sum of the deltas a collector has reported for a counter is at most *)
(* all the machine ever added to it.  Excepted are the columns of an       *)
(* optional file after a sample without it, for which the code takes a     *)
(* zero it made up for the counter, and the time of a process after its    *)
(* number went to another, from whose time the code subtracts it.          *)
NeverOvercounts ==
  LET all == {Counted(Files([machine EXCEPT !.count = grown, !.extra = plugged, !.broken = "none"])) :
                plugged \in BOOLEAN}
  IN  \A e \in DOMAIN tally.sum : \E most \in all :
        e \in DOMAIN most /\ \A i \in DOMAIN tally.sum[e] \ MadeUp : tally.sum[e][i] <= most[e][i]

(* The counters in the sample a collector has just taken, if it has. *)
HasSampled == pc = (IF kind = "process" THEN "full" ELSE "send")

JustSampled == IF kind = "process" THEN [p \in DOMAIN d.last |-> <<d.last[p]>>] ELSE pending.stats.counters

(* The sample came too soon to be compared, and will be by way of the next.*)
TooSoon == kind \in Keeping /\ d.elapsed \in 1..(MinInterval - 1)

(* Deltas lose no growth: whenever a collector has taken a sample, the     *)
(* deltas reported so far for each CPU, disk, interface, node or process   *)
(* that has been there all along add up to the difference between this     *)
(* sample and the first, however the ticks fell, whatever came and went    *)
(* and however often a file could not be read in between.  Only the sample *)
(* of a collector that keeps the previous one may come too soon to count.  *)
(* A disk, interface or node whose sample came too soon or too late to be  *)
(* compared begins anew with it: the growth since the one before is lost.  *)
(* Excepted are counters that went back, the columns that NeverOvercounts  *)
(* excepts, and the collectors that keep the previous sample once that is  *)
(* older than MaxInterval: they never compare again.                       *)
NoGrowthLost ==
  HasSampled /\ tally.calm /\ tally.origin # None /\ ~TooSoon =>
    \A e \in DOMAIN tally.origin : \A i \in GrowthColumns[kind] \ MadeUp :
      Reported(tally.sum, e, i) = JustSampled[e][i] - tally.origin[e][i]

(* What cannot be read costs no more than itself: a tick finds a sample    *)
(* whenever the files that are not optional can be read.                   *)
SampledWhenReadable ==
  [][pc = "wait" /\ pc' = "wait" /\ d' # d => machine.broken = "required" \/ cancelled]_vars

(* A collector that has been started ends when its context is cancelled:   *)
(* its goroutine is gone, its channel closed and its status disabled, so   *)
(* that it can be started again.  Excepted are one whose goroutine has     *)
(* ended before Start set the status, and one that the reader left with    *)
(* the channel full and the next sample taken: its send does not look at   *)
(* the context.                                                            *)
StopsWhenCancelled ==
  cancelled /\ start # "no" ~>
    [](\/ start = "failed"
       \/ pc = "ended" /\ closed /\ (status = "disabled" \/ start = "late")
       \/ left /\ kind \in Point /\ pc = "send" /\ chan = ChanCap)
=============================================================================
