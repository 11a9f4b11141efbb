---------------------------- MODULE K8sGenerate ----------------------------
(***************************************************************************)
(* What the Kubernetes controller makes of an object, and of its provider  *)
(* (internal/kubernetes/agent/generate.go, indexer.go, options.go,         *)
(* internal/kubernetes/cluster).                                           *)
(*                                                                         *)
(* A reference is <<kind, namespace, name>>, of the one cluster that the   *)
(* controller is in; the cluster itself has no namespace.  An object is    *)
(*   kind, ns, name, uid, labels    as in its metadata                     *)
(*   owners     its owner references, each [kind, name]                    *)
(*   node       the node's name of a pod, "" if it is not scheduled        *)
(*   claims     the names of the claims among a pod's volumes              *)
(*   volume     the volume's name of a claim, "" if it is not bound        *)
(* A generator returns [rsrc, rels], Failed for an error that is final and *)
(* Retry for one that is retryable.                                        *)
(***************************************************************************)
EXTENDS Integers, Sequences, Functions

CONSTANTS
  None, Failed, Retry,
  KnownKinds   \* the kinds of the scheme: every kind but custom ones

AWS == INSTANCE AWSClient

Ref(o) == <<o.kind, o.ns, o.name>>

ClusterRef(cluster) == <<"Cluster", "", cluster>>

Rel(subj, pred, obj) == [subj |-> subj, pred |-> pred, obj |-> obj]

BothWays(a, pred, back, b) == {Rel(a, pred, b), Rel(b, back, a)}

(* A label that is not there reads as the empty string. *)
LabelOf(o, l) == IF l \in DOMAIN o.labels THEN o.labels[l] ELSE ""

(* The object, contained in its cluster and owned by its owners.  An owner *)
(* is looked for in the object's namespace, whatever its kind.             *)
GenBase(cluster, o) ==
  [rsrc |-> [uid |-> o.uid, tags |-> o.labels, region |-> "", zone |-> "", obj |-> o],
   rels |-> BothWays(ClusterRef(cluster), "Contains", "ContainedBy", Ref(o))
            \cup UNION {BothWays(<<w.kind, o.ns, w.name>>, "Owns", "OwnedBy", Ref(o)) : w \in Range(o.owners)}]

Located(base, region, zone) == [base EXCEPT !.rsrc.region = region, !.rsrc.zone = zone]

(* Mutant: a pod is written before its node is in the store. *)
GenPodAnyNode(store, cluster, o) ==
  LET base == GenBase(cluster, o)
  IN  IF o.node = "" THEN base
      ELSE [base EXCEPT !.rels = @ \cup BothWays(<<"Node", "", o.node>>, "Contains", "ContainedBy", Ref(o))]

(* A scheduled pod takes its place from its node, which must be in the     *)
(* store; the claims it mounts need not be.                                *)
GenPod(store, cluster, o) ==
  LET base   == GenBase(cluster, o)
      node   == <<"Node", "", o.node>>
      claims == UNION {BothWays(<<"PersistentVolumeClaim", o.ns, c>>, "AttachedTo", "VolumeMount", Ref(o)) :
                         c \in Range(o.claims)}
  IN  IF o.node = "" THEN [base EXCEPT !.rels = @ \cup claims]
      ELSE IF node \notin DOMAIN store THEN Retry
      ELSE [Located(base, store[node].region, store[node].zone) EXCEPT
              !.rels = @ \cup BothWays(node, "Contains", "ContainedBy", Ref(o)) \cup claims]

GenNode(cluster, o) == Located(GenBase(cluster, o), LabelOf(o, "region"), LabelOf(o, "zone"))

GenPersistentVolume(cluster, o) == Located(GenBase(cluster, o), LabelOf(o, "region"), LabelOf(o, "zone"))

GenPersistentVolumeClaim(cluster, o) ==
  LET base == GenBase(cluster, o)
  IN  IF o.volume = "" THEN base
      ELSE [base EXCEPT !.rels = @ \cup
              BothWays(Ref(o), "ClaimsFrom", "BoundBy", <<"PersistentVolume", "", o.volume>>)]

BaseKinds == {"Service", "DaemonSet", "Deployment", "ReplicaSet", "StatefulSet", "Job"}

(* generate: one owner of a kind that the scheme does not know, and the    *)
(* object is not indexed at all.                                           *)
Generate(store, cluster, o) ==
  CASE \E w \in Range(o.owners) : w.kind \notin KnownKinds -> Failed
    [] o.kind = "Pod"                   -> GenPod(store, cluster, o)
    [] o.kind = "Node"                  -> GenNode(cluster, o)
    [] o.kind = "PersistentVolume"      -> GenPersistentVolume(cluster, o)
    [] o.kind = "PersistentVolumeClaim" -> GenPersistentVolumeClaim(cluster, o)
    [] o.kind \in BaseKinds             -> GenBase(cluster, o)
    [] OTHER                            -> Failed

-----------------------------------------------------------------------------
(* The provider: flags are the command line's, e what the provider can     *)
(* find out; e.imds is the AWS client's, e.clusterInfo the clusters of the *)
(* cluster-info ConfigMap, each [name, host], None if it cannot be read.   *)

(* constructAwsClientOpts and NewClient. *)
AWSClientOf(flags, e) ==
  LET c == AWS!NewClient(flags.region, flags.accountID, flags.clusterName)
  IN  IF flags.autodiscover THEN AWS!WithAutoDiscovery(c, e.imds) ELSE c

(* GetProvider, as getDefaultProvider calls it. *)
GetProvider(flags, e) ==
  CASE flags.provider = "eks" ->
         LET c == AWSClientOf(flags, e) IN IF c = Failed THEN Failed ELSE [name |-> "eks", client |-> c]
    [] flags.provider = "kind" -> [name |-> "kind", client |-> None]
    [] OTHER                   -> Failed

(* KIND.getClusterName: exactly one cluster; an empty name gives way to    *)
(* the host of its server.                                                 *)
KINDClusterName(e) ==
  IF e.clusterInfo = None \/ Len(e.clusterInfo) # 1 THEN Failed
  ELSE IF e.clusterInfo[1].name # "" THEN e.clusterInfo[1].name
  ELSE e.clusterInfo[1].host

ClusterName(p, e) ==
  IF p.name = "eks" THEN AWS!GetEKSClusterName(p.client, e.imds).val ELSE KINDClusterName(e)

Region(p, e) == IF p.name = "eks" THEN AWS!GetRegion(p.client, e.imds).val ELSE ""

(* The resource of LoadClusterInfo, Failed if it cannot be made. *)
ClusterResource(p, e) ==
  IF Failed \in {ClusterName(p, e), Region(p, e)} THEN Failed
  ELSE [uid |-> ClusterName(p, e), tags |-> <<>>, region |-> Region(p, e), zone |-> "", obj |-> p.name]

=============================================================================
