---------------------------- MODULE HostIdentity ----------------------------
(***************************************************************************)
(* Who and what the machine is: pkg/host, pkg/proc, pkg/kernel, and the    *)
(* system information the hardware graph takes from them.                  *)
(*                                                                         *)
(* A host h has a field for each file and service asked, None when it is   *)
(* missing or does not answer (see HardwareInfo).                          *)
(***************************************************************************)
EXTENDS Integers, Sequences, SequencesExt

CONSTANTS None, Bad, Failed

AWS == INSTANCE AWSClient

-----------------------------------------------------------------------------
(* pkg/host *)

(* /etc/machine-info: the last assignment to a key counts. *)
MachineInfo(h) ==
  IF h.machineInfo = None THEN Failed
  ELSE [k \in {"LOCATION", "DEPLOYMENT", "PRETTY_HOSTNAME"} |->
          LET lines == SelectSeq(h.machineInfo, LAMBDA l : l.key = k)
          IN  IF lines = <<>> THEN "" ELSE Last(lines).val]

(* The name parts joined, <<>> for the empty name. *)
CreateHostNameFromMachineInfo(info) ==
  LET name == info["PRETTY_HOSTNAME"]
      dep  == info["DEPLOYMENT"]
      loc  == info["LOCATION"]
  IN  CASE loc # "" /\ dep # "" /\ name # "" -> <<loc, dep, name>>
        [] loc = "" /\ dep # "" /\ name # "" -> <<dep, name>>
        [] OTHER -> IF name = "" THEN <<>> ELSE <<name>>

(* /etc/machine-id, then the file of dbus. *)
MachineID(h) ==
  LET ids == SelectSeq(<<h.machineID, h.dbusMachineID>>, LAMBDA f : f \notin {None, ""})
  IN  IF ids = <<>> THEN Failed ELSE Head(ids)

SystemUUID(h) == IF h.productUUID \in {None, ""} THEN Failed ELSE h.productUUID

Hostname(h) == IF h.hostname = None THEN Failed ELSE h.hostname

(* The CNAME, else the reverse name of the first address that has one. *)
FQDN(h) ==
  IF Hostname(h) = Failed THEN Failed
  ELSE IF h.cname # None THEN h.cname
  ELSE IF h.reverse = None THEN Failed ELSE h.reverse

(* ec2InstanceID: a new client every time. *)
CloudProviderID(h) ==
  LET c == AWS!WithAutoDiscovery(AWS!NewClient("", "", ""), h.imds)
  IN  IF c = Failed THEN Failed ELSE AWS!GetEC2InstanceID(c, h.imds).val

(* A name as its parts, none if the source has no name. *)
Parts(n) == IF n \in {Failed, ""} THEN <<>> ELSE <<n>>

(* The first of the four sources that has a name now, <<>> if none has. *)
CanonicalName(h) ==
  LET given == IF MachineInfo(h) = Failed THEN <<>> ELSE CreateHostNameFromMachineInfo(MachineInfo(h))
      names == SelectSeq(<<given, Parts(CloudProviderID(h)), Parts(FQDN(h)), Parts(MachineID(h))>>,
                         LAMBDA n : n # <<>>)
  IN  IF names = <<>> THEN <<>> ELSE Head(names)

-----------------------------------------------------------------------------
(* pkg/proc.  Each value is read at most once for a path (sync.OnceValues):*)
(* whatever the first read gave, an error included, is the answer forever. *)

ReadBootTime(h) ==
  IF h.stat = None THEN Failed
  ELSE LET lines == SelectSeq(h.stat, LAMBDA l : l.key = "btime")
       IN  IF lines = <<>> \/ Head(lines).val = Bad THEN Failed ELSE Head(lines).val

BootTime(cache, h) == IF cache = None THEN ReadBootTime(h) ELSE cache

(* The entry of the auxiliary vector before its end, else the default. *)
AuxValue(h, key, default) ==
  IF h.auxv = None THEN default
  ELSE LET hits == SelectSeq(h.auxv, LAMBDA e : e.key \in {key, "AT_NULL"})
       IN  IF hits = <<>> \/ Head(hits).key = "AT_NULL" THEN default ELSE Head(hits).val

ReadUserHZ(h) == AuxValue(h, "AT_CLKTCK", 100)

ReadPageSize(h) == AuxValue(h, "AT_PAGESZ", 4096)

-----------------------------------------------------------------------------
(* pkg/kernel.  A version is [raw, parts]: the text, and its numbers up to *)
(* the first dash.                                                         *)

ParseVersion(v) ==
  IF Len(v.parts) < 2 \/ v.parts[1] = Bad \/ v.parts[2] = Bad THEN Failed
  ELSE [raw   |-> v.raw,
        major |-> v.parts[1],
        minor |-> v.parts[2],
        patch |-> IF Len(v.parts) >= 3 /\ v.parts[3] # Bad THEN v.parts[3] ELSE 0]

(* /proc/version; a line of fewer than three words has no version. *)
GetCurrentVersion(h) == IF h.version = None THEN Failed ELSE ParseVersion(h.version)

IsAtLeast(v, major, minor) == v.major > major \/ (v.major = major /\ v.minor >= minor)

Compare(v, w) ==
  CASE v.major # w.major -> IF v.major < w.major THEN -1 ELSE 1
    [] v.major = w.major /\ v.minor # w.minor -> IF v.minor < w.minor THEN -1 ELSE 1
    [] OTHER -> IF v.patch < w.patch THEN -1 ELSE IF v.patch > w.patch THEN 1 ELSE 0

-----------------------------------------------------------------------------
(* internal/hardware/graph/nodes.go *)

(* /etc/os-release, then /usr/lib/os-release: the first PRETTY_NAME. *)
GetOSInfo(h) ==
  LET file  == IF h.osRelease # None THEN h.osRelease ELSE h.usrOSRelease
      names == IF file = None THEN <<>> ELSE SelectSeq(file, LAMBDA l : l.key = "PRETTY_NAME")
  IN  IF names = <<>> THEN "Linux" ELSE Head(names).val

(* A boot time that cannot be read (Failed) is replaced by the present.    *)
GetSystemInfo(h, boot) ==
  [boot   |-> boot,
   kernel |-> IF GetCurrentVersion(h) = Failed THEN "unknown" ELSE GetCurrentVersion(h).raw,
   os     |-> GetOSInfo(h)]

=============================================================================
