------------------------- MODULE MCKubernetesMount -------------------------
(***************************************************************************)
(* Instances of KubernetesMount for TLC.  Both objects belong to the tenant *)
(* workspace "alice" and have the same remote name, one in the namespace   *)
(* "default" and one in another: their mounted workspaces must not meet.   *)
(***************************************************************************)
EXTENDS KubernetesMount

OneKey  == {"k1"}
TwoKeys == {"k1", "k2"}

MCLogicalCluster   == [k \in Keys |-> "a"]
MCHome             == [cl \in Clusters |-> IF cl = "a" THEN "alice" ELSE None]
MCNoHome           == [cl \in Clusters |-> None]
MCRemoteName       == [k \in Keys |-> "web"]
MCRemoteNamespace  == [k \in Keys |-> IF k = "k1" THEN "default" ELSE "team"]
MCScheduled        == [k \in Keys |-> TRUE]
MCUnscheduled      == [k \in Keys |-> FALSE]
MCHashed           == [x \in {"default", "team"} \X {"web"} |->
                          IF x[1] = "team" THEN "web-5f2c" ELSE "web-99aa"]

\* Two objects at once: every workload cluster comes up in one go, so that the
\* states explored are those in which the two reconciles' effects can meet.
ComesUpAtOnce ==
    \A k \in Keys :
        /\ cluster[k] # Absent => cluster[k].stage # "Provisioning"
        /\ cluster[k] # Absent =>
              /\ cluster[k].stage = "Available" => Answers(k)
              /\ cluster[k].status # "Connecting"
        /\ \A c \in Controllers : clusterCache[c][k] # Absent =>
              clusterCache[c][k].stage = "Available"
        /\ workload[k].cni # "Partial"

=============================================================================
