-------------------------- MODULE MCK8sController --------------------------
(* A node, a pod on it that is later adopted by an owner of a custom kind, *)
(* and the claim that the pod mounts, which is bound to a volume.          *)
EXTENDS K8sController, TLC

Object(kind, ns, name, owners, node, claims, volume) ==
  [kind |-> kind, ns |-> ns, name |-> name, uid |-> name, owners |-> owners, node |-> node,
   claims |-> claims, volume |-> volume,
   labels |-> IF kind = "Node" THEN "region" :> "r" ELSE <<>>]

Set(kind, name) == [kind |-> kind, name |-> name]

MCVersions ==
  [n |-> <<Object("Node", "", "n", <<>>, "", <<>>, "")>>,
   p |-> <<Object("Pod", "a", "p", <<Set("DaemonSet", "s")>>, "n", <<"c">>, ""),
           Object("Pod", "a", "p", <<Set("Custom", "x")>>, "n", <<"c">>, "")>>,
   c |-> <<Object("PersistentVolumeClaim", "a", "c", <<>>, "", <<>>, "v")>>]

MCKinds == {"Node", "Pod", "PersistentVolumeClaim", "DaemonSet"}

Flags(provider) ==
  [provider |-> provider, region |-> "", accountID |-> "", clusterName |-> "", autodiscover |-> TRUE]

Services(region) ==
  [config |-> TRUE, region |-> region, accountID |-> "1", instanceID |-> "i",
   instances |-> <<<<[key |-> "prefix", val |-> "owned", cluster |-> "x"],
                     [key |-> "eks", val |-> "k", cluster |-> ""]>>>>]

MCSettings ==
  {[flags |-> Flags("eks"), env |-> [imds |-> Services("r"), clusterInfo |-> None]],
   [flags |-> Flags("eks"), env |-> [imds |-> Services(None), clusterInfo |-> None]],
   [flags |-> Flags("kind"), env |-> [imds |-> Services(None), clusterInfo |-> None]],
   [flags |-> Flags("gke"), env |-> [imds |-> Services("r"), clusterInfo |-> None]]}

=============================================================================
