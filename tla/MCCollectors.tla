---------------------------- MODULE MCCollectors ----------------------------
(* One small machine.  All counters grow with the work done, at different  *)
(* rates.  Some lines are malformed, and one file is short.                *)
EXTENDS Collectors

MCConfig == [proc |-> "absolute", sys |-> "absolute", dev |-> "", mode |-> ""]

MCCapabilities == {{}, {"CAP_SYSLOG"}, Failed}

Line(k, cpu, vals) == [key |-> k, cpu |-> cpu, vals |-> vals]

Entry(k, v) == [key |-> k, val |-> v]

Counts(n, c) == [i \in 1..n |-> ((i % 3) + 1) * c]

When(p, s) == IF p THEN s ELSE <<>>

Disk(name, family, p, digit, vals) ==
  [key |-> name, family |-> family, p |-> p, digit |-> digit, major |-> 8, minor |-> 0, vals |-> vals]

Interface(name, colons, vals) == [key |-> name, colons |-> colons, vals |-> vals]

Node(id, c, meminfo) ==
  [id |-> id, meminfo |-> meminfo,
   numastat |-> [i \in DOMAIN NUMACounters |-> Entry(NUMACounters[i], i * c)]]

Seg(text, words, id) == [text |-> text, words |-> words, scope |-> FALSE, id |-> id]

Container(id, files) ==
  [path |-> <<Seg("docker", {"docker"}, None), Seg("c", {}, <<id>>)>>, procs |-> TRUE, files |-> files]

Proc(pid, stat, optional) ==
  [pid |-> pid, stat |-> stat,
   status |-> IF optional THEN <<Entry("Threads", 2)>> ELSE None,
   smaps |-> IF optional THEN <<Entry("Pss", 3), Entry("Private_Clean", 1)>> ELSE None,
   cmdline |-> <<"a", "", "b", "">>, fds |-> IF optional THEN 4 ELSE None]

Stat(c) == [fields |-> 50, state |-> "S", ppid |-> 1, utime |-> c, stime |-> 2 * c, rss |-> 5, start |-> 100]

Cgroups(c, opt, extra) ==
  <<Container("c1", ("cpu.stat" :> <<Entry("usage_usec", c), Entry("nr_periods", 4), Entry("nr_throttled", 1)>>)
                    @@ ("cpu.max" :> IF opt THEN <<-1, 1000>> ELSE None) @@ ("cpu.weight" :> 100)
                    @@ ("memory.stat" :> <<Entry("anon", 2), Entry("file", 1)>>)
                    @@ ("memory.current" :> 8) @@ ("memory.max" :> IF opt THEN 16 ELSE -1))>>
  \o When(extra, <<[Container("c2", <<>>) EXCEPT !.path[2] = Seg("e", {}, <<"c2">>)]>>)

(* Two hierarchies, each with the one container. *)
Hierarchy(s, files) ==
  LET c == Container("c1", files)
  IN  <<[c EXCEPT !.path = <<Seg(s, {}, None)>>, !.files = <<>>], [c EXCEPT !.path = <<Seg(s, {}, None)>> \o @]>>

LegacyCgroups(c, opt) ==
  Hierarchy("cpu", ("cpu.stat" :> <<Entry("nr_periods", 4)>>) @@ ("cpu.shares" :> 512))
  \o When(opt, Hierarchy("cpuacct", "cpuacct.usage" :> c))
  \o Hierarchy("memory", ("memory.stat" :> <<Entry("rss", 2)>>) @@ ("memory.usage_in_bytes" :> 8)
                         @@ ("memory.oom_control" :> <<Entry("under_oom", 1)>>))

FilesOf(m) ==
  LET c == m.count
      ok == m.broken # "required"
      opt == m.broken # "optional"
      read(f) == IF ok THEN f ELSE None
      optional(f) == IF opt THEN f ELSE None
      memory == <<Entry("MemTotal", 9), Entry("MemFree", 4), Entry("Hugepagesize", 2),
                  Entry("HugePages_Total", 3), Entry("Cached", Bad)>>
  IN [stat |-> read(<<Line("cpu", -1, Counts(10, c)), Line("cpu0", 0, Counts(7, c)),
                      Line("cpufreq", Bad, Counts(7, c))>>
                    \o When(m.extra, <<Line("cpu1", 1, Counts(10, c))>>)
                    \o <<Line("intr", None, <<c, c>>), Line("ctxt", None, <<2 * c>>),
                         Line("procs_blocked", None, <<1>>)>>),
      diskstats |-> read(<<Disk("sda", "std", FALSE, FALSE, Counts(11, c)),
                           Disk("sda1", "std", FALSE, TRUE, Counts(11, c)),
                           Disk("nvme0n1", "nvme", FALSE, TRUE, [Counts(14, c) EXCEPT ![2] = Bad])>>
                         \o When(m.extra, <<Disk("dm-0", "dm-", FALSE, TRUE, Counts(11, c))>>)),
      netdev |-> read(<<Interface("Inter", 0, <<>>), Interface("face", 0, <<>>),
                        Interface("lo", 1, Counts(16, c)), Interface("eth0", 2, Counts(16, c))>>
                      \o When(m.extra, <<Interface("eth1", 1, Counts(16, c))>>)),
      sysNet |-> IF opt THEN "eth1" :> [speed |-> -1, duplex |-> "full", operstate |-> None,
                                        carrier |-> "1"] ELSE <<>>,
      meminfo |-> read(memory),
      vmstat |-> optional(<<Entry("pswpin", c), Entry("pswpout", 3 * c)>>),
      snmp |-> read(<<[key |-> "Ip:", vals |-> <<"x">>],
                      [key |-> "Tcp:", vals |-> <<"InSegs", "CurrEstab", "OutSegs">>],
                      [key |-> "Tcp:", vals |-> <<c, 5, 2 * c>>]>>),
      netstat |-> optional(<<[key |-> "TcpExt:", vals |-> <<"TCPTimeouts", "Other">>],
                             [key |-> "TcpExt:", vals |-> <<c, Bad>>]>>),
      tcp |-> <<"sl", "LISTEN", "ESTABLISHED">>,
      tcp6 |-> optional(<<"sl", "LISTEN">>),
      loadavg |-> read(<<1, 1, 1, <<1, 100>>, 77>>),
      uptime |-> optional(500),
      nodeDir |-> IF ok THEN {Node(0, c, <<Entry("MemFree", 3)>>), Node(1, c, optional(<<>>))}
                             \cup (IF m.extra THEN {Node(2, c, None)} ELSE {}) ELSE Bad,
      cgroupControllers |-> ok /\ ~m.legacy,
      cgroup |-> IF m.legacy THEN When(ok, LegacyCgroups(c, opt)) ELSE When(ok, Cgroups(c, opt, m.extra)),
      procs |-> read(<<Proc(Bad, None, TRUE), Proc(1, Stat(c), opt), Proc(2, Bad, TRUE),
                       Proc(6, [Stat(c) EXCEPT !.fields = 15], TRUE), Proc(7, [Stat(c) EXCEPT !.fields = 9], TRUE)>>
                     \o When(m.extra, <<Proc(3, Stat(2 * c), opt)>>)
                     \o When(~m.extra, <<Proc(4, Stat(c), opt), Proc(5, None, opt)>>)),
      userHZ |-> optional(100), pageSize |-> optional(4096), bootTime |-> read(1000),
      kmsg |-> read([i \in 1..c |->
                       [header |-> IF i % 2 = 0 THEN <<6, i>> ELSE <<30, i, 5 * i>>,
                        text |-> [bracket |-> None, prefix |-> <<"usb", "1-1">>, long |-> FALSE]]]),
      cpuinfo |-> read(<<[key |-> "processor", val |-> 0]>>),
      minFreq |-> None, maxFreq |-> None, nodes |-> <<>>, cpuDirs |-> <<0>>, numaBalancing |-> FALSE,
      block |-> read(<<>>), net |-> read(<<>>)]

Machines == [count : 0..MaxGrowth, extra : BOOLEAN, broken : Broken, legacy : BOOLEAN]

FilesTable == [m \in Machines |-> FilesOf(m)] @@ <<>>

MCFiles(m) == FilesTable[m]
=============================================================================
