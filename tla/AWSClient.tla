----------------------------- MODULE AWSClient -----------------------------
(***************************************************************************)
(* The AWS client (pkg/aws/client.go): what it knows is either given, or   *)
(* discovered once from the instance metadata service and then kept.       *)
(*                                                                         *)
(* A client is a record of what it knows ("" if nothing) and of whether    *)
(* auto-discovery gave it its two service clients.  The services are the   *)
(* record m: a field is None while the service does not answer for it.     *)
(* Every getter returns [c, val]: the client afterwards and the value, or  *)
(* Failed.                                                                 *)
(***************************************************************************)
EXTENDS Integers, Sequences, Functions

CONSTANTS None, Failed

(* NewClient with the options that set a value. *)
NewClient(region, accountID, clusterName) ==
  [region |-> region, accountID |-> accountID, clusterName |-> clusterName,
   instanceID |-> "", imds |-> FALSE, ec2 |-> FALSE]

(* The first failure ends NewClient; a region that was given is kept. *)
WithAutoDiscovery(c, m) ==
  IF ~m.config \/ (c.region = "" /\ m.region = None) THEN Failed
  ELSE [c EXCEPT !.imds = TRUE, !.ec2 = TRUE, !.region = IF @ = "" THEN m.region ELSE @]

GetRegion(c, m) ==
  IF c.region # "" THEN [c |-> c, val |-> c.region]
  ELSE IF ~c.imds \/ m.region = None THEN [c |-> c, val |-> Failed]
  ELSE [c |-> [c EXCEPT !.region = m.region], val |-> m.region]

GetAccountID(c, m) ==
  IF c.accountID # "" THEN [c |-> c, val |-> c.accountID]
  ELSE IF ~c.imds \/ m.accountID = None THEN [c |-> c, val |-> Failed]
  ELSE [c |-> [c EXCEPT !.accountID = m.accountID], val |-> m.accountID]

GetMetadata(c, m) == IF ~c.imds \/ m.instanceID = None THEN Failed ELSE m.instanceID

GetEC2InstanceID(c, m) ==
  IF c.instanceID # "" THEN [c |-> c, val |-> c.instanceID]
  ELSE IF GetMetadata(c, m) = Failed THEN [c |-> c, val |-> Failed]
  ELSE [c |-> [c EXCEPT !.instanceID = m.instanceID], val |-> m.instanceID]

(* A tag is [key, val, cluster]: key "eks" for the tags whose value is the *)
(* name, "prefix" for those whose key ends in it, "other" for the rest.    *)
(* A prefixed tag whose value is "owned" is passed over.                   *)
FindClusterNameFromTags(tags) ==
  LET hits == SelectSeq(tags, LAMBDA t : \/ t.key = "eks"
                                         \/ t.key = "prefix" /\ t.val # "owned")
  IN  IF hits = <<>> THEN "" ELSE IF Head(hits).key = "eks" THEN Head(hits).val ELSE Head(hits).cluster

(* m.instances is what DescribeInstances finds for the instance id: the    *)
(* sequence of the tag lists of the instances, None if the call fails.     *)
GetEKSClusterName(c, m) ==
  IF c.clusterName # "" THEN [c |-> c, val |-> c.clusterName]
  ELSE IF \/ ~c.imds \/ ~c.ec2 \/ GetMetadata(c, m) = Failed
          \/ m.instances = None \/ Len(m.instances) # 1
          \/ FindClusterNameFromTags(m.instances[1]) = ""
  THEN [c |-> c, val |-> Failed]
  ELSE LET name == FindClusterNameFromTags(m.instances[1])
       IN  [c |-> [c EXCEPT !.clusterName = name], val |-> name]

=============================================================================
