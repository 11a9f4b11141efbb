------------------------- MODULE ContainerDiscovery -------------------------
(***************************************************************************)
(* Which containers run on the machine, and what is known of them          *)
(* (pkg/containers).                                                       *)
(*                                                                         *)
(* h.cgroup is the tree under /sys/fs/cgroup: its directories in the order *)
(* in which Walk visits them, each [path, procs, files].  A path is a      *)
(* sequence of segments [text, words, scope, id]:                          *)
(*   words  the names of runtimes that occur in the text                   *)
(*   scope  whether it ends in ".scope"                                    *)
(*   id     the text, of a scope what follows its last dash, if it is a    *)
(*          hexadecimal string of 12 digits or more, else None             *)
(* An id is a sequence too: a truncated id is a prefix of the full one.    *)
(* procs says whether there is a cgroup.procs, files is a record of what   *)
(* the other files hold: None for a missing one and Bad for a text that    *)
(* sets no limit ("max", from 2^62 up in version 1) or is not a number.    *)
(***************************************************************************)
EXTENDS Integers, Sequences, SequencesExt, FiniteSetsExt

CONSTANTS None, Bad, Failed

-----------------------------------------------------------------------------
(* discovery.go *)

V1Subsystems == <<"cpu", "memory", "cpuacct", "blkio", "devices">>

(* The version 1 subsystems that are mounted, in the order of the list. *)
V1Found(h) ==
  SelectSeq(V1Subsystems, LAMBDA s : \E d \in Range(h.cgroup) : Len(d.path) = 1 /\ d.path[1].text = s)

DetectCgroupVersion(h) ==
  IF h.cgroupControllers THEN 2 ELSE IF V1Found(h) # <<>> THEN 1 ELSE Failed

RuntimeDirs == {"docker", "containerd", "crio", "podman"}

(* In this order: a scope's own id; the directory after one named for a    *)
(* runtime, however far up; the last directory.                            *)
ExtractContainerID(path) ==
  LET last  == Last(path)
      below == SelectSeq([i \in 1..(Len(path) - 1) |-> i],
                         LAMBDA i : path[i].text \in RuntimeDirs /\ path[i + 1].id # None
                                    /\ ~path[i + 1].scope)
  IN  IF last.scope /\ last.id # None THEN last.id
      ELSE IF below # <<>> THEN path[Head(below) + 1].id
      ELSE IF last.scope THEN None ELSE last.id

DetectRuntimeFromPath(path) ==
  LET words == UNION {s.words : s \in Range(path)}
  IN  CASE "cri-containerd" \in words -> "cri-containerd"
        [] "cri-containerd" \notin words /\ "crio" \in words -> "cri-o"
        [] OTHER -> IF "docker" \in words THEN "docker"
                    ELSE IF "containerd" \in words THEN "containerd"
                    ELSE IF "podman" \in words THEN "podman" ELSE "unknown"

Found(path, relative, version) ==
  [id |-> ExtractContainerID(relative), runtime |-> DetectRuntimeFromPath(relative),
   path |-> path, version |-> version]

(* A walk over the whole tree, version 1 subsystems included, that does    *)
(* not go below a container's directory.                                   *)
ScanCgroupV2Directory(h) ==
  FoldLeft(LAMBDA found, d :
             IF \/ \E c \in Range(found) : IsPrefix(c.path, d.path)
                \/ ExtractContainerID(d.path) = None \/ ~d.procs
             THEN found ELSE Append(found, Found(d.path, d.path, 2)),
           <<>>, h.cgroup)

(* A walk over five known directories, into containers as well, and then   *)
(* the directories directly under the subsystem.                           *)
ScanCgroupV1Directory(h, subsystem) ==
  LET under(d)    == Len(d.path) > 1 /\ d.path[1].text = subsystem
      relative(d) == Tail(d.path)
      in(dir)     == SelectSeq(h.cgroup, LAMBDA d : /\ under(d) /\ d.path[2].text = dir
                                                    /\ ExtractContainerID(relative(d)) # None)
      direct == SelectSeq(h.cgroup, LAMBDA d : /\ under(d) /\ Len(d.path) = 2
                                               /\ d.path[2].text \notin {"init.scope", "system.slice",
                                                                         "user.slice"}
                                               /\ ExtractContainerID(relative(d)) # None)
      hits == in("docker") \o in("containerd") \o in("system.slice") \o in("crio")
              \o in("machine.slice") \o direct
  IN  [i \in DOMAIN hits |-> Found(hits[i].path, relative(hits[i]), 1)]

DiscoverContainers(h, subsystem, version) ==
  CASE version = 2 -> ScanCgroupV2Directory(h)
    [] version = 1 /\ subsystem \in Range(V1Found(h)) -> ScanCgroupV1Directory(h, subsystem)
    [] OTHER -> Failed

(* Version 1 adds what version 2 has not found, from the first subsystem.  *)
DiscoverAllContainers(h) ==
  LET v2 == ScanCgroupV2Directory(h)
      v1 == IF V1Found(h) = <<>> THEN <<>> ELSE ScanCgroupV1Directory(h, Head(V1Found(h)))
  IN  v2 \o SelectSeq(v1, LAMBDA c : \A x \in Range(v2) : x.id # c.id)

-----------------------------------------------------------------------------
(* metadata.go: the files of the runtimes.  A file is None (missing), Bad  *)
(* (not JSON) or a record.                                                 *)

Readable(f) == f \notin {None, Bad}

(* The file of the first directory whose name begins with the id. *)
Glob(dirs, id) ==
  LET hits == SelectSeq(dirs, LAMBDA d : IsPrefix(id, d.id))
  IN  IF hits = <<>> THEN None ELSE Head(hits).file

(* The directory named by the id itself, if its file is there. *)
ExactOrGlob(dirs, id) ==
  LET hits == SelectSeq(dirs, LAMBDA d : d.id = id /\ d.file # None)
  IN  IF hits # <<>> THEN Head(hits).file ELSE Glob(dirs, id)

(* A reference is [path, digest]: the segments between slashes, each the   *)
(* sequence of its pieces between colons.  With a single colon what        *)
(* follows it is the tag, be it the port of a registry; with more of them, *)
(* only if it is in the last segment.                                      *)
ParseImageReference(ref) ==
  LET path   == ref.path
      colons == {i \in DOMAIN path : Len(path[i]) > 1}
      k      == Max(colons)
      one    == \E i \in DOMAIN path : colons = {i} /\ Len(path[i]) = 2
  IN  IF path = <<>> THEN Failed
      ELSE IF ref.digest # None THEN [name |-> Last(path), tag |-> <<ref.digest>>]
      ELSE IF colons # {} /\ (one \/ k = Len(path))
      THEN [name |-> Front(path[k]), tag |-> <<Last(path[k])>> \o FlattenSeq(SubSeq(path, k + 1, Len(path)))]
      ELSE [name |-> Last(path), tag |-> <<"latest">>]

ExtractDockerImageMetadata(h, id) ==
  LET config == Glob(h.docker, id)
  IN  IF Readable(config) THEN ParseImageReference(config.image) ELSE Failed

(* The first of the namespaces' files that names an image. *)
ExtractContainerdImageMetadata(h, id) ==
  LET hits == SelectSeq(h.containerd, LAMBDA c : /\ c.id = id /\ Readable(c.file)
                                                 /\ "image" \in DOMAIN c.file.annotations)
  IN  IF hits = <<>> THEN Failed ELSE ParseImageReference(Head(hits).file.annotations["image"])

ExtractCRIOImageMetadata(h, id) ==
  LET state == ExactOrGlob(h.crio, id)
  IN  IF ~Readable(state) THEN Failed
      ELSE IF "image" \notin DOMAIN state.annotations THEN Failed
      ELSE ParseImageReference(state.annotations["image"])

(* The first of the two storage directories that has a readable file. *)
PodmanConfig(h, id) ==
  LET files == SelectSeq(<<ExactOrGlob(h.podman.overlay, id), ExactOrGlob(h.podman.vfs, id)>>, Readable)
  IN  IF files = <<>> THEN None ELSE Head(files)

ExtractPodmanImageMetadata(h, id) ==
  IF PodmanConfig(h, id) = None THEN Failed ELSE ParseImageReference(PodmanConfig(h, id).image)

ExtractImageMetadata(h, c) ==
  CASE c.runtime = "docker" -> ExtractDockerImageMetadata(h, c.id)
    [] c.runtime \in {"containerd", "cri-containerd"} -> ExtractContainerdImageMetadata(h, c.id)
    [] c.runtime = "cri-o"  -> ExtractCRIOImageMetadata(h, c.id)
    [] c.runtime = "podman" -> ExtractPodmanImageMetadata(h, c.id)
    [] OTHER -> Failed

ExtractDockerLabels(h, id) ==
  IF Readable(Glob(h.docker, id)) THEN Glob(h.docker, id).labels ELSE Failed

ExtractContainerdLabels(h, id) ==
  LET hits == SelectSeq(h.containerd, LAMBDA c : c.id = id /\ Readable(c.file))
  IN  IF hits = <<>> THEN Failed ELSE Head(hits).file.annotations

(* An annotation hides the label of the same name. *)
ExtractCRIOLabels(h, id) ==
  LET state == ExactOrGlob(h.crio, id)
  IN  IF Readable(state) THEN state.annotations @@ state.labels ELSE Failed

ExtractPodmanLabels(h, id) ==
  IF PodmanConfig(h, id) = None THEN Failed ELSE PodmanConfig(h, id).labels

ExtractLabels(h, c) ==
  CASE c.runtime = "docker" -> ExtractDockerLabels(h, c.id)
    [] c.runtime \in {"containerd", "cri-containerd"} -> ExtractContainerdLabels(h, c.id)
    [] c.runtime = "cri-o"  -> ExtractCRIOLabels(h, c.id)
    [] c.runtime = "podman" -> ExtractPodmanLabels(h, c.id)
    [] OTHER -> Failed

-----------------------------------------------------------------------------
(* metadata.go: limits and names. *)

FilesAt(h, path) ==
  LET dirs == SelectSeq(h.cgroup, LAMBDA d : d.path = path)
  IN  IF dirs = <<>> THEN <<>> ELSE Head(dirs).files

(* What a file of a directory holds. *)
Content(files, f) == IF f \in DOMAIN files THEN files[f] ELSE None

Number(files, f) == IF Content(files, f) = Bad THEN None ELSE Content(files, f)

(* The same directory in another subsystem. *)
In(h, path, from, to) ==
  LET subs == SelectSeq(h.cgroup, LAMBDA d : Len(d.path) = 1 /\ d.path[1].text = to)
  IN  IF path[1].text \in from /\ subs # <<>> THEN <<Head(subs).path[1]>> \o Tail(path)
      ELSE IF path[1].text \in from THEN <<>> ELSE path

ExtractCgroupV1Limits(h, c) ==
  LET cpu == FilesAt(h, In(h, c.path, {"memory"}, "cpu,cpuacct"))
      mem == FilesAt(h, In(h, c.path, {"cpu,cpuacct", "cpu"}, "memory"))
      quota == Number(cpu, "cpu.cfs_quota_us")
  IN  [shares |-> Number(cpu, "cpu.shares"),
       quota  |-> IF quota # None /\ quota > 0 THEN quota ELSE None,
       period |-> Number(cpu, "cpu.cfs_period_us"),
       memory |-> Number(mem, "memory.limit_in_bytes"),
       cpus   |-> Content(cpu, "cpuset.cpus"),
       mems   |-> Content(cpu, "cpuset.mems")]

(* cpu.max is <<quota, period>>, or shorter. *)
ExtractCgroupV2Limits(h, c) ==
  LET files  == FilesAt(h, c.path)
      weight == Number(files, "cpu.weight")
      max    == Content(files, "cpu.max")
      part(i) == IF max = None THEN None
                 ELSE IF Len(max) < 2 THEN None ELSE IF max[i] = Bad THEN None ELSE max[i]
  IN  [shares |-> IF weight = None THEN None ELSE ((weight - 1) * 1024) \div 9999 + 2,
       quota  |-> part(1),
       period |-> part(2),
       memory |-> Number(files, "memory.max"),
       cpus   |-> Content(files, "cpuset.cpus"),
       mems   |-> Content(files, "cpuset.mems")]

ExtractResourceLimits(h, c) ==
  IF c.version = 2 THEN ExtractCgroupV2Limits(h, c) ELSE ExtractCgroupV1Limits(h, c)

(* A piece of a pod's name is [text, len, letters, digits, other]. *)
IsKubernetesHash(p) == p.len \in 5..10 /\ ~p.other /\ p.letters /\ p.digits

StripPodHash(parts) ==
  LET n    == Len(parts)
      last == n >= 2 /\ IsKubernetesHash(parts[n])
  IN  IF last /\ n >= 3 /\ IsKubernetesHash(parts[n - 1]) THEN SubSeq(parts, 1, n - 2)
      ELSE IF last THEN Front(parts) ELSE parts

(* A label that is missing or empty gives nothing. *)
Label(labels, k) == IF k \in DOMAIN labels THEN labels[k] ELSE <<>>

ExtractHumanNames(labels, image) ==
  [container |-> IF Label(labels, "container.name") # <<>> THEN labels["container.name"]
                 ELSE IF Label(labels, "compose.service") # <<>> THEN labels["compose.service"]
                 ELSE image,
   workload  |-> StripPodHash(Label(labels, "pod.name"))]

(* Every part may fail alone.  What it last gave stays: known is what an   *)
(* earlier call has put into the container.                                *)
ExtractMetadata(h, c, known) ==
  LET image  == ExtractImageMetadata(h, c)
      labels == ExtractLabels(h, c)
      img    == IF image = Failed THEN known.image ELSE image
  IN  [image  |-> img,
       limits |-> LET now == ExtractResourceLimits(h, c)
                  IN  [f \in DOMAIN now |-> IF now[f] = None THEN known.limits[f] ELSE now[f]],
       labels |-> IF labels = Failed THEN known.labels ELSE labels,
       names  |-> IF labels = Failed THEN known.names
                  ELSE LET now == ExtractHumanNames(labels, img.name)
                       IN  [f \in DOMAIN now |-> IF now[f] = <<>> THEN known.names[f] ELSE now[f]]]

Unknown ==
  [image  |-> [name |-> <<>>, tag |-> <<>>],
   limits |-> [f \in {"shares", "quota", "period", "memory", "cpus", "mems"} |-> None],
   labels |-> <<>>,
   names  |-> [container |-> <<>>, workload |-> <<>>]]

=============================================================================
