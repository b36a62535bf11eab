----------------------- MODULE KubernetesMountProofs -----------------------
(***************************************************************************)
(* Theorems about KubernetesMount, for every value of its constants.        *)
(***************************************************************************)
EXTENDS KubernetesMount, TLAPS

(***************************************************************************)
(* Type correctness.                                                       *)
(***************************************************************************)

\* The initial state has the types of TypeOK.
LEMMA InitTypes == Init => TypeOK
<1>1. Idle \in Works
  BY DEF Idle, Works, Pcs, Phases
<1>2. Bare \in Workloads
  BY DEF Bare, Workloads
<1> QED
  BY <1>1, <1>2, ConstantTypes DEF Init, TypeOK

\* Replacing the reconcile of one controller keeps the type of work.
LEMMA WorkTypes ==
    ASSUME TypeOK, NEW c \in Controllers, NEW w \in Works,
           work' = [work EXCEPT ![c] = w]
    PROVE  work' \in [Controllers -> Works]
BY DEF TypeOK

\* A reconcile at its next call, with what it has found.
LEMMA MoveWorks ==
    ASSUME TypeOK, NEW c \in Controllers, NEW pc \in Pcs, ~At(c, "idle")
    PROVE  /\ Goto(c, pc) => work' \in [Controllers -> Works]
           /\ \A phase \in Phases :
                 work' = [work EXCEPT ![c].pc = pc, ![c].phase = phase]
                    => work' \in [Controllers -> Works]
           /\ \A path \in Workspaces \cup {None} :
                 work' = [work EXCEPT ![c].pc = pc, ![c].path = path]
                    => work' \in [Controllers -> Works]
           /\ \A nodes \in SUBSET Nodes :
                 work' = [work EXCEPT ![c].pc = pc, ![c].nodes = nodes]
                    => work' \in [Controllers -> Works]
           /\ \A obj \in Objects :
                 work' = [work EXCEPT ![c].pc = pc, ![c].obj = obj]
                    => work' \in [Controllers -> Works]
<1>1. work \in [Controllers -> Works]
  BY DEF TypeOK
<1>2. work[c] \in Works /\ work[c].pc # "idle"
  BY <1>1 DEF At
<1>3. Goto(c, pc) => work' \in [Controllers -> Works]
  <2>1. [work[c] EXCEPT !.pc = pc] \in Works
    BY <1>2 DEF Works
  <2> QED
    BY <1>1, <2>1 DEF Goto
<1>4. ASSUME NEW phase \in Phases,
             work' = [work EXCEPT ![c].pc = pc, ![c].phase = phase]
      PROVE  work' \in [Controllers -> Works]
  <2>1. [work[c] EXCEPT !.pc = pc, !.phase = phase] \in Works
    BY <1>2 DEF Works
  <2> QED
    BY <1>1, <1>4, <2>1
<1>5. ASSUME NEW path \in Workspaces \cup {None},
             work' = [work EXCEPT ![c].pc = pc, ![c].path = path]
      PROVE  work' \in [Controllers -> Works]
  <2>1. [work[c] EXCEPT !.pc = pc, !.path = path] \in Works
    BY <1>2 DEF Works
  <2> QED
    BY <1>1, <1>5, <2>1
<1>7. ASSUME NEW obj \in Objects,
             work' = [work EXCEPT ![c].pc = pc, ![c].obj = obj]
      PROVE  work' \in [Controllers -> Works]
  <2>1. [work[c] EXCEPT !.pc = pc, !.obj = obj] \in Works
    BY <1>2 DEF Works
  <2> QED
    BY <1>1, <1>7, <2>1
<1>8. ASSUME NEW nodes \in SUBSET Nodes,
             work' = [work EXCEPT ![c].pc = pc, ![c].nodes = nodes]
      PROVE  work' \in [Controllers -> Works]
  <2>1. [work[c] EXCEPT !.pc = pc, !.nodes = nodes] \in Works
    BY <1>2 DEF Works
  <2> QED
    BY <1>1, <1>8, <2>1
<1> QED
  BY <1>3, <1>4, <1>5, <1>7, <1>8

\* A reconcile that starts, or ends.
LEMMA IdleTypes ==
    ASSUME NEW pc \in Pcs, NEW k \in Keys, NEW obj \in Objects
    PROVE  /\ Idle \in Works
           /\ [Idle EXCEPT !.pc = pc, !.key = k, !.obj = obj] \in Works
<1>1. Idle \in Works
  BY DEF Idle, Works, Pcs, Phases
<1> QED
  BY <1>1 DEF Works

\* A reconcile that ends leaves an idle controller.
LEMMA ReturnTypes ==
    ASSUME TypeOK, NEW c \in Controllers, Return(c)
    PROVE  work' \in [Controllers -> Works]
<1>1. Idle \in Works
  BY DEF Idle, Works, Pcs, Phases
<1> QED
  BY <1>1, WorkTypes DEF Return

\* The steps of a reconcile that read, and change only its own state.
LEMMA ReadTypes ==
    ASSUME TypeOK, NEW c \in Controllers,
           \/ \E k \in Keys : Enter(c, k)
           \/ Observe(c) \/ ListNodes(c) \/ LookupWorkspace(c) \/ GetMounted(c)
           \/ LookupWorkspaceForDelete(c) \/ Refuse(c) \/ Fail(c)
    PROVE  TypeOK'
<1>0. SUFFICES work' \in [Controllers -> Works]
  <2>1. UNCHANGED <<objects, uids, caches, platform, tenants>>
    BY DEF Enter, Observe, ListNodes, LookupWorkspace, GetMounted,
           LookupWorkspaceForDelete, Refuse, Fail
  <2> QED
    BY <2>1 DEF TypeOK, caches, platform, tenants
<1>1. /\ live \subseteq Clusters
      /\ workspace \in [Clusters -> Workspaces \cup {None}]
      /\ objectCache \in [Controllers -> [Keys -> Objects \cup {Absent}]]
      /\ {"idle", "guard", "observe", "calico", "schedule", "taint", "lookup", "get",
          "create", "patch", "lookupDelete", "delete", "release"} \subseteq Pcs
  BY DEF TypeOK, Pcs, ApplyPcs, DeletePcs
<1>2. ASSUME NEW k \in Keys, Enter(c, k) PROVE work' \in [Controllers -> Works]
  <2>1. \E pc \in Pcs : work' = [work EXCEPT ![c] =
            [Idle EXCEPT !.pc = pc, !.key = k, !.obj = objectCache[c][k]]]
    BY <1>1, <1>2 DEF Enter
  <2>2. objectCache[c][k] # Absent
    BY <1>2 DEF Enter
  <2>3. objectCache[c][k] \in Objects
    BY <1>1, <2>2
  <2> QED
    BY <2>1, <2>3, IdleTypes, WorkTypes
<1>3. CASE Observe(c)
  <2>0. ~At(c, "idle")
    BY <1>3 DEF Observe, At
  <2> DEFINE pc == IF kubeconfig[work[c].key] THEN "calico" ELSE "patch"
             phase == ReportedPhase(c, work[c].key)
  <2>1. pc \in Pcs
    BY <1>1
  <2>2. phase \in Phases
    BY DEF ReportedPhase, Phases
  <2>3. work' = [work EXCEPT ![c].pc = pc, ![c].phase = phase]
    BY <1>3 DEF Observe
  <2> HIDE DEF pc, phase
  <2> QED
    BY <2>1, <2>2, <2>3, <2>0, MoveWorks
<1>4. CASE LookupWorkspace(c)
  <2>0. ~At(c, "idle")
    BY <1>4 DEF LookupWorkspace, At
  <2> DEFINE path == workspace[LogicalCluster[work[c].key]]
  <2>1. path \in Workspaces \cup {None}
    BY <1>1, <1>4 DEF LookupWorkspace
  <2>2. work' = [work EXCEPT ![c].pc = "get", ![c].path = path]
    BY <1>4 DEF LookupWorkspace
  <2> HIDE DEF path
  <2> QED
    BY <1>1, <2>1, <2>2, <2>0, MoveWorks
<1>5. CASE GetMounted(c)
  <2>0. ~At(c, "idle")
    BY <1>5 DEF GetMounted, At
  <2>1. Goto(c, "patch") \/ Goto(c, "create")
    BY <1>5 DEF GetMounted
  <2> QED
    BY <1>1, <2>1, <2>0, MoveWorks
<1>6. CASE LookupWorkspaceForDelete(c)
  <2>0. ~At(c, "idle")
    BY <1>6 DEF LookupWorkspaceForDelete, At
  <2> DEFINE cl == LogicalCluster[work[c].key]
             pc == IF cl \in live THEN "delete" ELSE "release"
             path == IF cl \in live THEN workspace[cl] ELSE None
  <2>1. pc \in Pcs /\ path \in Workspaces \cup {None}
    BY <1>1
  <2>2. work' = [work EXCEPT ![c].pc = pc, ![c].path = path]
    BY <1>6 DEF LookupWorkspaceForDelete
  <2> HIDE DEF pc, path
  <2> QED
    BY <2>1, <2>2, <2>0, MoveWorks
<1>7. CASE Refuse(c) \/ Fail(c)
  BY <1>7, ReturnTypes DEF Refuse, Fail
<1>8. CASE ListNodes(c)
  <2>0. ~At(c, "idle")
    BY <1>8 DEF ListNodes, At
  <2> DEFINE nodes == NodesToChange(work[c].key)
             pc == IF nodes = {} THEN AfterNodes(c) ELSE "taint"
  <2>1. work[c].key \in Keys
    BY <2>0 DEF TypeOK, Works, At
  <2>2. workload[work[c].key].tainted \in SUBSET Nodes
    BY <2>1 DEF TypeOK, Workloads
  <2>3. pc \in Pcs /\ nodes \in SUBSET Nodes
    BY <1>1, <2>2 DEF AfterNodes, NodesToChange
  <2>4. work' = [work EXCEPT ![c].pc = pc, ![c].nodes = nodes]
    BY <1>8 DEF ListNodes
  <2> HIDE DEF pc, nodes
  <2> QED
    BY <2>0, <2>3, <2>4, MoveWorks
<1> QED
  BY <1>2, <1>3, <1>4, <1>5, <1>6, <1>7, <1>8

\* The steps of a reconcile that write: to the object, to the workload cluster,
\* to the tenant's workspace and to the Cluster.
LEMMA WriteTypes ==
    ASSUME TypeOK, NEW c \in Controllers,
           \/ AddFinalizer(c) \/ RemoveFinalizer(c)
           \/ InstallCalico(c) \/ InstallCalicoPartly(c)
           \/ UpdateNode(c)
           \/ CreateMounted(c) \/ DeleteMounted(c) \/ PatchStatus(c)
    PROVE  TypeOK'
<1> DEFINE k == work[c].key
           obj == work[c].obj
<1>1. ~At(c, "idle")
  BY DEF AddFinalizer, RemoveFinalizer, InstallCalico, InstallCalicoPartly,
         UpdateNode, CreateMounted, DeleteMounted, PatchStatus, At
<1>2. k \in Keys /\ obj \in Objects /\ work[c].phase \in Phases
  BY <1>1 DEF TypeOK, Works, At
<1>3. {"observe", "schedule", "taint", "lookup", "patch", "release"} \subseteq Pcs
  BY DEF Pcs, ApplyPcs, DeletePcs
<1>4. CASE AddFinalizer(c)
  <2> DEFINE new == [obj EXCEPT !.finalizer = TRUE]
  <2>1. new \in Objects
    BY <1>2 DEF Objects
  <2>2. objects' = [objects EXCEPT ![k] = new]
    BY <1>4 DEF AddFinalizer, Update
  <2>3. work' = [work EXCEPT ![c].pc = "observe", ![c].obj = new]
    BY <1>4 DEF AddFinalizer
  <2> HIDE DEF new, k
  <2>4. work' \in [Controllers -> Works]
    BY <1>1, <1>3, <2>1, <2>3, MoveWorks
  <2>5. objects' \in [Keys -> Objects \cup {Absent}]
    BY <2>1, <2>2 DEF TypeOK
  <2>6. UNCHANGED <<uids, caches, platform, tenants>>
    BY <1>4 DEF AddFinalizer
  <2> QED
    BY <2>4, <2>5, <2>6 DEF TypeOK, caches, platform, tenants
<1>5. CASE RemoveFinalizer(c)
  <2> DEFINE new == [obj EXCEPT !.finalizer = FALSE]
  <2>1. new \in Objects
    BY <1>2 DEF Objects
  <2>2. objects' = [objects EXCEPT ![k] = new]
    BY <1>5 DEF RemoveFinalizer, Update
  <2>3. work' \in [Controllers -> Works]
    BY <1>5, ReturnTypes DEF RemoveFinalizer
  <2> HIDE DEF new, k
  <2>4. objects' \in [Keys -> Objects \cup {Absent}]
    BY <2>1, <2>2 DEF TypeOK
  <2>5. UNCHANGED <<uids, caches, platform, tenants>>
    BY <1>5 DEF RemoveFinalizer
  <2> QED
    BY <2>3, <2>4, <2>5 DEF TypeOK, caches, platform, tenants
<1>6. CASE InstallCalico(c) \/ InstallCalicoPartly(c)
  <2>1. workload' \in [Keys -> Workloads]
    <3>1. workload[k] \in Workloads
      BY <1>2 DEF TypeOK
    <3> DEFINE full == [workload[k] EXCEPT !.cni = "Installed"]
               part == [workload[k] EXCEPT !.cni = "Partial"]
    <3>2. /\ full \in Workloads
          /\ part \in Workloads
      BY <3>1 DEF Workloads
    <3>3. \/ workload' = [workload EXCEPT ![k] = full]
          \/ workload' = [workload EXCEPT ![k] = part]
      BY <1>6 DEF InstallCalico, InstallCalicoPartly
    <3> HIDE DEF full, part
    <3> QED
      BY <3>2, <3>3 DEF TypeOK
  <2>2. work' \in [Controllers -> Works]
    <3>1. Goto(c, "schedule") \/ Return(c)
      BY <1>6 DEF InstallCalico, InstallCalicoPartly
    <3> QED
      BY <1>1, <1>3, <3>1, MoveWorks, ReturnTypes
  <2>3. UNCHANGED <<objects, uids, caches, cluster, kubeconfig, tenants>>
    BY <1>6 DEF InstallCalico, InstallCalicoPartly
  <2> QED
    BY <2>1, <2>2, <2>3 DEF TypeOK, caches, tenants
<1>10. CASE UpdateNode(c)
  <2>1. PICK n \in Nodes :
           /\ workload' = [workload EXCEPT ![k].tainted =
                 IF AllowScheduling[k] THEN @ \ {n} ELSE @ \cup {n}]
           /\ work' = [work EXCEPT
                 ![c].pc = IF work[c].nodes = {n} THEN AfterNodes(c) ELSE "taint",
                 ![c].nodes = @ \ {n}]
    <3>1. work[c].nodes \subseteq Nodes
      BY <1>1 DEF TypeOK, Works
    <3> QED
      BY <1>10, <3>1 DEF UpdateNode
  <2>2. workload' \in [Keys -> Workloads]
    <3>1. workload[k] \in Workloads
      BY <1>2 DEF TypeOK
    <3> DEFINE tainted == IF AllowScheduling[k] THEN workload[k].tainted \ {n}
                          ELSE workload[k].tainted \cup {n}
               new == [workload[k] EXCEPT !.tainted = tainted]
    <3>2. tainted \in SUBSET Nodes
      BY <3>1 DEF Workloads
    <3>3. workload' = [workload EXCEPT ![k] = new]
      BY <2>1
    <3> HIDE DEF tainted
    <3>4. new \in Workloads
      BY <3>1, <3>2 DEF Workloads
    <3> HIDE DEF new
    <3> QED
      BY <3>3, <3>4 DEF TypeOK
  <2>3. work' \in [Controllers -> Works]
    <3> DEFINE pc == IF work[c].nodes = {n} THEN AfterNodes(c) ELSE "taint"
               nodes == work[c].nodes \ {n}
    <3>1. nodes \in SUBSET Nodes
      BY <1>1 DEF TypeOK, Works
    <3>2. pc \in Pcs
      BY <1>3 DEF AfterNodes
    <3>3. work' = [work EXCEPT ![c].pc = pc, ![c].nodes = nodes]
      BY <2>1
    <3> HIDE DEF pc, nodes
    <3> QED
      BY <1>1, <3>1, <3>2, <3>3, MoveWorks
  <2>4. UNCHANGED <<objects, uids, caches, cluster, kubeconfig, tenants>>
    BY <1>10 DEF UpdateNode
  <2> QED
    BY <2>2, <2>3, <2>4 DEF TypeOK, caches, tenants
<1>7. CASE CreateMounted(c)
  <2> DEFINE n == MountedWorkspace(k)
  <2>1. PICK cl \in Clusters :
           \/ children' = [children EXCEPT ![cl][n] = Ref(k)]
           \/ children' = children
    BY <1>7 DEF CreateMounted, Reached, TypeOK
  <2>2. children' \in [Clusters -> [ChildNames -> Refs \cup {None, Plain}]]
    <3>1. Ref(k) \in Refs
      BY <1>2 DEF Refs
    <3>2. children \in [Clusters -> [ChildNames -> Refs \cup {None, Plain}]]
      BY DEF TypeOK
    <3> DEFINE ref == Ref(k)
               row == [children[cl] EXCEPT ![n] = ref]
    <3> HIDE DEF n, ref
    <3>3. row \in [ChildNames -> Refs \cup {None, Plain}]
      BY <3>1, <3>2 DEF ref
    <3>4. children' = children \/ children' = [children EXCEPT ![cl] = row]
      BY <2>1, <3>2 DEF ref, n
    <3> HIDE DEF row
    <3> QED
      BY <3>2, <3>3, <3>4
  <2>3. work' \in [Controllers -> Works]
    BY <1>1, <1>3, <1>7, MoveWorks DEF CreateMounted
  <2>4. UNCHANGED <<objects, uids, caches, platform, workspace, live>>
    BY <1>7 DEF CreateMounted
  <2> QED
    BY <2>2, <2>3, <2>4 DEF TypeOK, caches, platform
<1>8. CASE DeleteMounted(c)
  <2> DEFINE n == MountedWorkspace(k)
  <2>1. children' = [cl \in Clusters |-> IF cl \in Reached(work[c].path)
                        THEN [children[cl] EXCEPT ![n] = None]
                        ELSE children[cl]]
    BY <1>8 DEF DeleteMounted
  <2> HIDE DEF n
  <2>2. children' \in [Clusters -> [ChildNames -> Refs \cup {None, Plain}]]
    BY <2>1 DEF TypeOK
  <2>3. work' \in [Controllers -> Works]
    BY <1>1, <1>3, <1>8, MoveWorks DEF DeleteMounted
  <2>4. UNCHANGED <<objects, uids, caches, platform, workspace, live>>
    BY <1>8 DEF DeleteMounted
  <2> QED
    BY <2>2, <2>3, <2>4 DEF TypeOK, caches, platform
<1>9. CASE PatchStatus(c)
  <2> DEFINE new == [cluster[k] EXCEPT !.status = work[c].phase]
  <2>1. \/ cluster' = cluster
        \/ cluster[k] # Absent /\ cluster' = [cluster EXCEPT ![k] = new]
    BY <1>9 DEF PatchStatus
  <2>2. cluster[k] # Absent => new \in CAPI
    <3>1. cluster[k] # Absent => cluster[k] \in CAPI
      BY <1>2 DEF TypeOK
    <3> QED
      BY <1>2, <3>1 DEF CAPI
  <2>3. work' \in [Controllers -> Works]
    BY <1>9, ReturnTypes DEF PatchStatus
  <2> HIDE DEF new
  <2>4. cluster' \in [Keys -> CAPI \cup {Absent}]
    BY <2>1, <2>2 DEF TypeOK
  <2>5. UNCHANGED <<objects, uids, caches, kubeconfig, workload, tenants>>
    BY <1>9 DEF PatchStatus
  <2> QED
    BY <2>3, <2>4, <2>5 DEF TypeOK, caches, tenants
<1> QED
  BY <1>4, <1>5, <1>6, <1>7, <1>8, <1>9, <1>10

\* The steps of the informers, of the platform and of the tenants.
LEMMA EnvironmentTypes ==
    ASSUME TypeOK,
           \/ \E c \in Controllers : Informer(c)
           \/ \E k \in Keys : Platform(k)
           \/ \E cl \in Clusters : Tenant(cl)
    PROVE  TypeOK'
<1>1. ASSUME NEW c \in Controllers, NEW k \in Keys, SyncObject(c, k)
      PROVE  TypeOK'
  <2>1. objectCache' \in [Controllers -> [Keys -> Objects \cup {Absent}]]
    BY <1>1 DEF SyncObject, TypeOK
  <2>2. UNCHANGED <<objects, uids, clusterCache, platform, tenants, work>>
    BY <1>1 DEF SyncObject
  <2> QED
    BY <2>1, <2>2 DEF TypeOK, platform, tenants
<1>2. ASSUME NEW c \in Controllers, NEW k \in Keys, SyncCluster(c, k)
      PROVE  TypeOK'
  <2>1. clusterCache' \in [Controllers -> [Keys -> CAPI \cup {Absent}]]
    BY <1>2 DEF SyncCluster, TypeOK
  <2>2. UNCHANGED <<objects, uids, objectCache, platform, tenants, work>>
    BY <1>2 DEF SyncCluster
  <2> QED
    BY <2>1, <2>2 DEF TypeOK, platform, tenants
<1>3. ASSUME NEW k \in Keys, Platform(k) PROVE TypeOK'
  <2>1. objects' \in [Keys -> Objects \cup {Absent}]
    <3>1. /\ objects \in [Keys -> Objects \cup {Absent}]
          /\ uids[k] \in 0..MaxUid /\ MaxUid \in Nat
          /\ objects[k] \in Objects \cup {Absent}
      BY ConstantTypes DEF TypeOK
    <3> DEFINE new  == [uid |-> uids[k] + 1, deleting |-> FALSE, finalizer |-> FALSE]
               dead == [objects[k] EXCEPT !.deleting = TRUE]
    <3>2. uids[k] < MaxUid => new \in Objects
      BY <3>1 DEF Objects
    <3>3. objects[k] # Absent => dead \in Objects
      BY <3>1 DEF Objects
    <3>4. \/ uids[k] < MaxUid /\ objects' = [objects EXCEPT ![k] = new]
          \/ objects[k] # Absent /\ objects' = [objects EXCEPT ![k] = dead]
          \/ objects' = [objects EXCEPT ![k] = Absent]
          \/ objects' = objects
      BY <1>3 DEF Platform, CreateObject, DeleteObject, PurgeObject,
                  CreateCluster, DeleteCluster, ProgressCluster,
                  IssueKubeconfig, TurnWorkload, ChangeTaint
    <3> HIDE DEF new, dead
    <3> QED
      BY <3>1, <3>2, <3>3, <3>4
  <2>2. uids' \in [Keys -> 0..MaxUid]
    <3>1. uids \in [Keys -> 0..MaxUid] /\ MaxUid \in Nat
      BY ConstantTypes DEF TypeOK
    <3>2. \/ uids[k] < MaxUid /\ uids' = [uids EXCEPT ![k] = @ + 1]
          \/ uids' = uids
      BY <1>3 DEF Platform, CreateObject, DeleteObject, PurgeObject,
                  CreateCluster, DeleteCluster, ProgressCluster,
                  IssueKubeconfig, TurnWorkload, ChangeTaint
    <3> QED
      BY <3>1, <3>2
  <2>3. cluster' \in [Keys -> CAPI \cup {Absent}]
    <3>1. cluster \in [Keys -> CAPI \cup {Absent}]
      BY DEF TypeOK
    <3> DEFINE new == [stage |-> "New", status |-> "Unset"]
               moved(s) == [cluster[k] EXCEPT !.stage = s]
    <3>2. new \in CAPI
      BY DEF CAPI, Stages
    <3>3. cluster[k] # Absent =>
            moved("Provisioning") \in CAPI /\ moved("Available") \in CAPI
      BY <3>1 DEF CAPI, Stages
    <3>4. \/ cluster' = [cluster EXCEPT ![k] = new]
          \/ cluster' = [cluster EXCEPT ![k] = Absent]
          \/ /\ cluster[k] # Absent
             /\ \/ cluster' = [cluster EXCEPT ![k] = moved("Provisioning")]
                \/ cluster' = [cluster EXCEPT ![k] = moved("Available")]
          \/ cluster' = cluster
      BY <1>3 DEF Platform, CreateObject, DeleteObject, PurgeObject,
                  CreateCluster, DeleteCluster, ProgressCluster,
                  IssueKubeconfig, TurnWorkload, ChangeTaint, platform
    <3> HIDE DEF new, moved
    <3> QED
      BY <3>1, <3>2, <3>3, <3>4
  <2>4. kubeconfig' \in [Keys -> BOOLEAN]
    BY <1>3
       DEF TypeOK, Platform, CreateObject, DeleteObject, PurgeObject,
           CreateCluster, DeleteCluster, ProgressCluster, IssueKubeconfig,
           TurnWorkload, ChangeTaint, platform
  <2>5. workload' \in [Keys -> Workloads]
    <3>1. workload \in [Keys -> Workloads]
      BY DEF TypeOK
    <3> DEFINE node(n) == [workload[k] EXCEPT !.tainted =
                              IF n \in @ THEN @ \ {n} ELSE @ \cup {n}]
               turned == [workload[k] EXCEPT !.up = ~@]
    <3>2. /\ \A n \in Nodes : node(n) \in Workloads
          /\ turned \in Workloads /\ Bare \in Workloads
      BY <3>1 DEF Bare, Workloads
    <3>3. \/ workload' = [workload EXCEPT ![k] = Bare]
          \/ workload' = [workload EXCEPT ![k] = turned]
          \/ \E n \in Nodes : workload' = [workload EXCEPT ![k] = node(n)]
          \/ workload' = workload
      BY <1>3 DEF Platform, CreateObject, DeleteObject, PurgeObject,
                  CreateCluster, DeleteCluster, ProgressCluster,
                  IssueKubeconfig, TurnWorkload, ChangeTaint, platform
    <3> HIDE DEF node, turned
    <3> QED
      BY <3>1, <3>2, <3>3
  <2>6. UNCHANGED <<caches, tenants, work>>
    BY <1>3 DEF Platform, CreateObject, DeleteObject, PurgeObject, CreateCluster,
                DeleteCluster, ProgressCluster, IssueKubeconfig,
                TurnWorkload, ChangeTaint
  <2> QED
    BY <2>1, <2>2, <2>3, <2>4, <2>5, <2>6 DEF TypeOK, caches, tenants
<1>4. ASSUME NEW cl \in Clusters, Tenant(cl) PROVE TypeOK'
  <2>1. children' \in [Clusters -> [ChildNames -> Refs \cup {None, Plain}]]
    <3>1. children \in [Clusters -> [ChildNames -> Refs \cup {None, Plain}]]
      BY DEF TypeOK
    <3> DEFINE put(n, x) == [children[cl] EXCEPT ![n] = x]
               empty == [n \in ChildNames |-> None]
    <3>2. /\ \A n \in ChildNames :
               /\ put(n, Plain) \in [ChildNames -> Refs \cup {None, Plain}]
               /\ put(n, None) \in [ChildNames -> Refs \cup {None, Plain}]
          /\ empty \in [ChildNames -> Refs \cup {None, Plain}]
      BY <3>1
    <3>3. \/ \E n \in ChildNames :
               \/ children' = [children EXCEPT ![cl] = put(n, Plain)]
               \/ children' = [children EXCEPT ![cl] = put(n, None)]
          \/ children' = [children EXCEPT ![cl] = empty]
          \/ children' = children
      BY <1>4 DEF Tenant, TenantCreatesChild, TenantDeletesChild, DeleteTenant,
                  CreateTenant
    <3> HIDE DEF put, empty
    <3> QED
      BY <3>1, <3>2, <3>3
  <2>2. /\ workspace' \in [Clusters -> Workspaces \cup {None}]
        /\ live' \subseteq Clusters
    <3>1. /\ workspace \in [Clusters -> Workspaces \cup {None}]
          /\ live \subseteq Clusters
      BY DEF TypeOK
    <3>2. /\ \/ workspace' = workspace
             \/ \E w \in Workspaces : workspace' = [workspace EXCEPT ![cl] = w]
          /\ live' = live \/ live' = live \ {cl} \/ live' = live \cup {cl}
      BY <1>4 DEF Tenant, TenantCreatesChild, TenantDeletesChild, DeleteTenant,
                  CreateTenant
    <3> QED
      BY <3>1, <3>2
  <2>3. UNCHANGED <<objects, uids, caches, platform, work>>
    BY <1>4 DEF Tenant, TenantCreatesChild, TenantDeletesChild, DeleteTenant,
                CreateTenant
  <2> QED
    BY <2>1, <2>2, <2>3 DEF TypeOK, caches, platform
<1> QED
  BY <1>1, <1>2, <1>3, <1>4 DEF Informer

\* Every step keeps the types.
LEMMA TypeStep ==
    ASSUME TypeOK, [Next]_vars
    PROVE  TypeOK'
<1>1. ASSUME NEW c \in Controllers, Reconcile(c) \/ Fail(c) PROVE TypeOK'
  <2>1. CASE Fail(c)
    BY <2>1, ReadTypes
  <2>2. CASE Reconcile(c)
    BY <2>2, ReadTypes, WriteTypes DEF Reconcile
  <2> QED
    BY <1>1, <2>1, <2>2
<1>2. CASE UNCHANGED vars
  BY <1>2 DEF TypeOK, vars, caches, platform, tenants
<1>3. ASSUME NEW c \in Controllers, Informer(c) PROVE TypeOK'
  BY <1>3, EnvironmentTypes
<1>4. ASSUME NEW k \in Keys, Platform(k) PROVE TypeOK'
  BY <1>4, EnvironmentTypes
<1>5. ASSUME NEW cl \in Clusters, Tenant(cl) PROVE TypeOK'
  BY <1>5, EnvironmentTypes
<1> QED
  BY <1>1, <1>2, <1>3, <1>4, <1>5 DEF Next

\* Type correctness: a reconcile works on an object of the service cluster that
\* it has read, and every variable keeps its type in every step.
THEOREM TypeCorrect == Spec => []TypeOK
<1>1. Init => TypeOK
  BY InitTypes
<1>2. TypeOK /\ [Next]_vars => TypeOK'
  BY TypeStep
<1> QED
  BY <1>1, <1>2, PTL DEF Spec

(***************************************************************************)
(* The inductive invariant behind NoOrphanMount.                           *)
(***************************************************************************)

\* y has been seen deleted: a live x is a later incarnation.
Later(x, y) == x # Absent /\ ~x.deleting => y.uid < x.uid

\* Versions: the API server holds the last incarnation created, the caches hold
\* this one or older ones, and deletion is never taken back.
VersionsInv ==
    /\ \A k \in Keys : objects[k] # Absent => objects[k].uid = uids[k]
    /\ \A c \in Controllers, k \in Keys : objectCache[c][k] # Absent =>
          /\ objectCache[c][k].uid <= uids[k]
          /\ objectCache[c][k].deleting => Later(objects[k], objectCache[c][k])

\* A live object seen with the finalizer still has it.
SeenGuardedInv ==
    \A c \in Controllers, k \in Keys :
        LET seen == objectCache[c][k]
        IN  seen # Absent /\ ~seen.deleting /\ seen.finalizer => Guarded(k)

\* A reconcile past the finalizer works on a guarded object.
ApplyInv ==
    \A c \in Controllers : work[c].pc \in ApplyPcs =>
        /\ work[c].key \in Keys
        /\ work[c].pc # "guard" => Guarded(work[c].key)
        /\ work[c].pc = "guard" =>
              /\ work[c].obj # Absent
              /\ ~work[c].obj.deleting /\ ~work[c].obj.finalizer

\* A reconcile of a deleted object was started from a deleted version, and the
\* live versions it or the cache can meet are of later incarnations.
DeleteInv ==
    \A c \in Controllers : work[c].pc \in DeletePcs =>
        LET k == work[c].key IN
        /\ k \in Keys
        /\ work[c].obj # Absent
        /\ work[c].obj.deleting /\ work[c].obj.finalizer
        /\ work[c].obj.uid <= uids[k]
        /\ Later(objects[k], work[c].obj)
        /\ Later(objectCache[c][k], work[c].obj)

\* The path that a reconcile has read is that of its tenant.
RoutesInv ==
    /\ \A cl \in live : workspace[cl] # None
    /\ \A c \in Controllers : work[c].pc \in {"get", "create", "delete"} =>
          work[c].path # None /\ work[c].path = workspace[LogicalCluster[work[c].key]]

\* Without reuse of names, a workspace path means one logical cluster for ever.
PathsInv ==
    /\ \A a, b \in Clusters : workspace[a] = workspace[b] /\ workspace[a] # None
                                => a = b
    /\ RoutesInv

\* A logical cluster that does not exist has no children.
ContentInv ==
    \A cl \in Clusters \ live : \A n \in ChildNames : children[cl][n] = None

\* The finalizer is only removed when the mounted workspace is gone.
ReleaseInv ==
    \A c \in Controllers : work[c].pc = "release" => ~Mounted(work[c].key)

IInv ==
    /\ TypeOK
    /\ VersionsInv /\ SeenGuardedInv
    /\ ApplyInv /\ DeleteInv
    /\ PathsInv /\ ContentInv
    /\ ReleaseInv
    /\ NoOrphanMount

\* What NoOrphanMount depends on: one controller process at a time, and tenant
\* workspaces that are not recreated under a name that was used before.
OneController == \A c, d \in Controllers : c = d
Exclusive == OneController /\ ~ReuseNames

\* The steps that change the objects or what a controller has seen of them.
LEMMA ObjectSteps ==
    ASSUME [Next]_vars
    PROVE  \/ UNCHANGED <<objects, uids, objectCache>>
           \/ \E c \in Controllers : AddFinalizer(c) \/ RemoveFinalizer(c)
           \/ \E c \in Controllers, k \in Keys : SyncObject(c, k)
           \/ \E k \in Keys : CreateObject(k) \/ DeleteObject(k) \/ PurgeObject(k)
<1>1. ASSUME NEW c \in Controllers, Reconcile(c) \/ Fail(c)
      PROVE  \/ UNCHANGED <<objects, uids, objectCache>>
             \/ AddFinalizer(c) \/ RemoveFinalizer(c)
  BY <1>1 DEF Reconcile, Enter, Observe, InstallCalico, InstallCalicoPartly,
       ListNodes, UpdateNode, LookupWorkspace, GetMounted,
       CreateMounted, PatchStatus, LookupWorkspaceForDelete, DeleteMounted,
       Refuse, Fail, caches
<1>2. ASSUME NEW c \in Controllers, Informer(c)
      PROVE  \/ UNCHANGED <<objects, uids, objectCache>>
             \/ \E k \in Keys : SyncObject(c, k)
  BY <1>2 DEF Informer, SyncCluster
<1>3. ASSUME NEW k \in Keys, Platform(k)
      PROVE  \/ UNCHANGED <<objects, uids, objectCache>>
             \/ CreateObject(k) \/ DeleteObject(k) \/ PurgeObject(k)
  BY <1>3 DEF Platform, CreateCluster, DeleteCluster, ProgressCluster,
       IssueKubeconfig, TurnWorkload, ChangeTaint, caches
<1>4. ASSUME NEW cl \in Clusters, Tenant(cl)
      PROVE  UNCHANGED <<objects, uids, objectCache>>
  BY <1>4 DEF Tenant, TenantCreatesChild, TenantDeletesChild, DeleteTenant,
       CreateTenant, caches
<1>5. CASE UNCHANGED vars
  BY <1>5 DEF vars, caches
<1> QED
  BY <1>1, <1>2, <1>3, <1>4, <1>5 DEF Next

\* What an Update of the controller does: the finalizer of an object changes,
\* and nothing else about it.
LEMMA UpdateKeeps ==
    ASSUME TypeOK, NEW c \in Controllers, AddFinalizer(c) \/ RemoveFinalizer(c),
           NEW k, k = work[c].key
    PROVE  /\ k \in Keys
           /\ objects[k] = work[c].obj /\ objects[k] \in Objects
           /\ \/ /\ AddFinalizer(c)
                 /\ objects' = [objects EXCEPT ![k] =
                                    [objects[k] EXCEPT !.finalizer = TRUE]]
              \/ /\ RemoveFinalizer(c)
                 /\ objects' = [objects EXCEPT ![k] =
                                    [objects[k] EXCEPT !.finalizer = FALSE]]
           /\ UNCHANGED <<uids, objectCache>>
<1>1. ~At(c, "idle")
  BY DEF AddFinalizer, RemoveFinalizer, At
<1>2. work[c].key \in Keys /\ work[c].obj \in Objects
  BY <1>1 DEF TypeOK, Works, At
<1> QED
  BY <1>2 DEF AddFinalizer, RemoveFinalizer, Update, caches

\* Each object in the API server after a step is the one before it, with the
\* finalizer or the deletion changed, or a new one, or none.
LEMMA ObjectStep ==
    ASSUME TypeOK, [Next]_vars, NEW k \in Keys
    PROVE  \/ objects'[k] = objects[k] /\ uids'[k] = uids[k]
           \/ /\ objects[k] # Absent /\ objects'[k] # Absent
              /\ objects'[k].uid = objects[k].uid /\ uids'[k] = uids[k]
              /\ objects[k].deleting => objects'[k].deleting
              /\ \/ objects'[k].finalizer = objects[k].finalizer
                 \/ objects'[k].finalizer /\ ~objects[k].finalizer
                 \/ \E c \in Controllers :
                       /\ RemoveFinalizer(c)
                       /\ work[c].key = k /\ work[c].obj = objects[k]
           \/ /\ objects[k] = Absent /\ objects'[k] # Absent
              /\ ~objects'[k].deleting /\ ~objects'[k].finalizer
              /\ uids'[k] = uids[k] + 1 /\ objects'[k].uid = uids'[k]
           \/ /\ objects[k] # Absent /\ ~objects[k].finalizer
              /\ objects'[k] = Absent /\ uids'[k] = uids[k]
<1>1. /\ objects \in [Keys -> Objects \cup {Absent}]
      /\ uids \in [Keys -> 0..MaxUid]
      /\ Absent \notin Objects
  BY ConstantTypes DEF TypeOK
<1>2. ASSUME NEW c \in Controllers, AddFinalizer(c) \/ RemoveFinalizer(c)
      PROVE  \/ objects'[k] = objects[k] /\ uids'[k] = uids[k]
             \/ /\ objects[k] # Absent /\ objects'[k] # Absent
                /\ objects'[k].uid = objects[k].uid /\ uids'[k] = uids[k]
                /\ objects[k].deleting => objects'[k].deleting
                /\ \/ objects'[k].finalizer = objects[k].finalizer
                   \/ objects'[k].finalizer /\ ~objects[k].finalizer
                   \/ /\ RemoveFinalizer(c)
                      /\ work[c].key = k /\ work[c].obj = objects[k]
  <2> DEFINE on  == [objects[k] EXCEPT !.finalizer = TRUE]
             off == [objects[k] EXCEPT !.finalizer = FALSE]
  <2>1. CASE work[c].key = k
    <3>1. /\ objects[k] = work[c].obj /\ objects[k] \in Objects
          /\ \/ AddFinalizer(c) /\ objects' = [objects EXCEPT ![k] = on]
             \/ RemoveFinalizer(c) /\ objects' = [objects EXCEPT ![k] = off]
          /\ uids' = uids
      BY <1>2, <2>1, UpdateKeeps
    <3>2. /\ on \in Objects /\ on.uid = objects[k].uid /\ on.finalizer
          /\ on.deleting = objects[k].deleting
          /\ off \in Objects /\ off.uid = objects[k].uid
          /\ off.deleting = objects[k].deleting
          /\ objects[k].finalizer \in BOOLEAN
      BY <3>1 DEF Objects
    <3> HIDE DEF on, off
    <3>3. objects'[k] = on \/ (objects'[k] = off /\ RemoveFinalizer(c))
      BY <1>1, <3>1
    <3> QED
      BY <1>1, <2>1, <3>1, <3>2, <3>3
  <2>2. CASE work[c].key # k
    <3> DEFINE j == work[c].key
    <3>1. /\ uids' = uids
          /\ \/ objects' = [objects EXCEPT ![j] =
                               [objects[j] EXCEPT !.finalizer = TRUE]]
             \/ objects' = [objects EXCEPT ![j] =
                               [objects[j] EXCEPT !.finalizer = FALSE]]
      BY <1>2, UpdateKeeps
    <3> QED
      BY <1>1, <2>2, <3>1
  <2> QED
    BY <2>1, <2>2
<1>3. ASSUME NEW j \in Keys, DeleteObject(j)
      PROVE  \/ objects'[k] = objects[k] /\ uids'[k] = uids[k]
             \/ /\ objects[k] # Absent /\ objects'[k] # Absent
                /\ objects'[k].uid = objects[k].uid /\ uids'[k] = uids[k]
                /\ objects[k].deleting => objects'[k].deleting
                /\ objects'[k].finalizer = objects[k].finalizer
  <2>1. [objects[k] EXCEPT !.deleting = TRUE] # Absent
        \/ objects[k] \notin Objects
    BY <1>1 DEF Objects
  <2> QED
    BY <1>1, <1>3, <2>1 DEF DeleteObject, Objects
<1>4. ASSUME NEW j \in Keys, CreateObject(j) \/ PurgeObject(j)
      PROVE  \/ objects'[k] = objects[k] /\ uids'[k] = uids[k]
             \/ /\ objects[k] = Absent /\ objects'[k] # Absent
                /\ ~objects'[k].deleting /\ ~objects'[k].finalizer
                /\ uids'[k] = uids[k] + 1 /\ objects'[k].uid = uids'[k]
             \/ /\ objects[k] # Absent /\ ~objects[k].finalizer
                /\ objects'[k] = Absent /\ uids'[k] = uids[k]
  <2> DEFINE new == [uid |-> uids[k] + 1, deleting |-> FALSE, finalizer |-> FALSE]
  <2>1. uids[k] < MaxUid => new \in Objects
    BY <1>1, ConstantTypes DEF Objects
  <2>2. uids[k] < MaxUid => new # Absent
    BY <1>1, <2>1
  <2> QED
    BY <1>1, <1>4, <2>2 DEF CreateObject, PurgeObject
<1>5. ASSUME NEW c \in Controllers, NEW j \in Keys, SyncObject(c, j)
      PROVE  objects'[k] = objects[k] /\ uids'[k] = uids[k]
  BY <1>5 DEF SyncObject
<1> QED
  BY <1>2, <1>3, <1>4, <1>5, ObjectSteps

\* An informer shows what it showed, or what the API server holds.
LEMMA CacheStep ==
    ASSUME TypeOK, [Next]_vars, NEW c \in Controllers, NEW k \in Keys
    PROVE  \/ objectCache'[c][k] = objectCache[c][k]
           \/ /\ objectCache'[c][k] = objects[k]
              /\ objects' = objects /\ uids' = uids
<1>1. objectCache \in [Controllers -> [Keys -> Objects \cup {Absent}]]
  BY DEF TypeOK
<1>2. ASSUME NEW d \in Controllers, NEW j \in Keys, SyncObject(d, j)
      PROVE  \/ objectCache'[c][k] = objectCache[c][k]
             \/ /\ objectCache'[c][k] = objects[k]
                /\ objects' = objects /\ uids' = uids
  BY <1>1, <1>2 DEF SyncObject
<1>3. ASSUME NEW d \in Controllers, AddFinalizer(d) \/ RemoveFinalizer(d)
      PROVE  objectCache' = objectCache
  BY <1>3 DEF AddFinalizer, RemoveFinalizer, caches
<1>4. ASSUME NEW j \in Keys, CreateObject(j) \/ DeleteObject(j) \/ PurgeObject(j)
      PROVE  objectCache' = objectCache
  BY <1>4 DEF CreateObject, DeleteObject, PurgeObject, caches
<1> QED
  BY <1>2, <1>3, <1>4, ObjectSteps

\* Deletion is for good: what has been seen deleted is not met alive later.
LEMMA LaterStep ==
    ASSUME TypeOK, VersionsInv, [Next]_vars, NEW k \in Keys, NEW y \in Objects,
           y.uid <= uids[k], Later(objects[k], y)
    PROVE  Later(objects'[k], y) /\ y.uid <= uids'[k]
<1>1. /\ uids[k] \in Nat /\ y.uid \in Nat
      /\ objects[k] # Absent => objects[k].uid = uids[k]
  BY DEF TypeOK, VersionsInv, Objects
<1> QED
  BY <1>1, ObjectStep DEF Later

\* VersionsInv is inductive.
LEMMA VersionsStep ==
    ASSUME TypeOK, VersionsInv, [Next]_vars
    PROVE  VersionsInv'
<1>1. ASSUME NEW k \in Keys, objects'[k] # Absent
      PROVE  objects'[k].uid = uids'[k]
  BY <1>1, ObjectStep DEF VersionsInv
<1>2. ASSUME NEW c \in Controllers, NEW k \in Keys, objectCache'[c][k] # Absent
      PROVE  /\ objectCache'[c][k].uid <= uids'[k]
             /\ objectCache'[c][k].deleting
                    => Later(objects'[k], objectCache'[c][k])
  <2>1. /\ uids[k] \in Nat
        /\ objectCache[c][k] \in Objects \cup {Absent}
    BY DEF TypeOK
  <2>2. CASE objectCache'[c][k] = objectCache[c][k]
    <3>1. /\ objectCache[c][k] \in Objects
          /\ objectCache[c][k].uid <= uids[k]
          /\ objectCache[c][k].deleting => Later(objects[k], objectCache[c][k])
      BY <1>2, <2>1, <2>2 DEF VersionsInv
    <3>2. uids[k] <= uids'[k]
      BY <2>1, ObjectStep
    <3>3. objectCache[c][k].uid \in Nat /\ uids'[k] \in Nat
      BY <2>1, <3>1, ObjectStep DEF Objects
    <3> QED
      BY <2>1, <2>2, <3>1, <3>2, <3>3, LaterStep
  <2>3. CASE /\ objectCache'[c][k] = objects[k]
             /\ objects' = objects /\ uids' = uids
    BY <1>2, <2>1, <2>3 DEF VersionsInv, Later
  <2> QED
    BY <2>2, <2>3, CacheStep
<1> QED
  BY <1>1, <1>2 DEF VersionsInv, Later

\* A finalizer leaves an object only by RemoveFinalizer.
LEMMA GuardedStep ==
    ASSUME TypeOK, [Next]_vars, NEW k \in Keys, Guarded(k)
    PROVE  \/ Guarded(k)'
           \/ \E c \in Controllers :
                 RemoveFinalizer(c) /\ work[c].key = k /\ work[c].obj = objects[k]
BY ObjectStep DEF Guarded

\* SeenGuardedInv is inductive, as long as the controller that removes a
\* finalizer is the one that has the cache.
LEMMA SeenGuardedStep ==
    ASSUME TypeOK, VersionsInv, SeenGuardedInv, DeleteInv, OneController, [Next]_vars
    PROVE  SeenGuardedInv'
<1> SUFFICES ASSUME NEW c \in Controllers, NEW k \in Keys,
                    objectCache'[c][k] # Absent, ~objectCache'[c][k].deleting,
                    objectCache'[c][k].finalizer
             PROVE  Guarded(k)'
  BY DEF SeenGuardedInv
<1>1. CASE objectCache'[c][k] = objectCache[c][k]
  <2>1. Guarded(k)
    BY <1>1 DEF SeenGuardedInv
  <2>2. ASSUME NEW d \in Controllers, RemoveFinalizer(d), work[d].key = k,
               work[d].obj = objects[k]
        PROVE  FALSE
    <3>1. d = c
      BY DEF OneController
    <3>2. work[c].pc \in DeletePcs
      BY <2>2, <3>1 DEF RemoveFinalizer, At, DeletePcs
    <3>3. Later(objectCache[c][k], objects[k])
      BY <2>2, <3>1, <3>2 DEF DeleteInv
    <3>4. /\ objects[k].uid < objectCache[c][k].uid
          /\ objectCache[c][k].uid <= uids[k]
          /\ objects[k].uid = uids[k]
      BY <1>1, <2>1, <3>3 DEF Later, VersionsInv, Guarded
    <3>5. uids[k] \in Nat /\ objectCache[c][k].uid \in Nat
      <4>1. objectCache[c][k] \in Objects
        BY <1>1 DEF TypeOK
      <4> QED
        BY <4>1 DEF TypeOK, Objects
    <3> QED
      BY <3>4, <3>5
  <2> QED
    BY <2>1, <2>2, GuardedStep
<1>2. CASE objectCache'[c][k] = objects[k] /\ objects' = objects
  BY <1>2 DEF Guarded
<1> QED
  BY <1>1, <1>2, CacheStep

\* A reconcile that goes on to its next call works on the same object.
LEMMA GotoKeeps ==
    ASSUME TypeOK, NEW c \in Controllers, NEW pc, Goto(c, pc)
    PROVE  /\ work'[c].pc = pc /\ work'[c].key = work[c].key
           /\ work'[c].path = work[c].path /\ work'[c].obj = work[c].obj
<1>1. /\ work \in [Controllers -> Works]
      /\ work[c] \in [pc : Pcs, key : Keys \cup {None}, obj : Objects \cup {Absent},
                      phase : Phases, nodes : SUBSET Nodes, path : Workspaces \cup {None}]
  BY DEF TypeOK, Works
<1> QED
  BY <1>1 DEF Goto

\* A reconcile keeps its object and its path when it goes on to its next call.
LEMMA MoveKeeps ==
    ASSUME TypeOK, NEW c \in Controllers, NEW pc, NEW x
    PROVE  /\ \/ work' = [work EXCEPT ![c].pc = pc, ![c].phase = x]
              \/ work' = [work EXCEPT ![c].pc = pc, ![c].nodes = x]
              => /\ work'[c].pc = pc /\ work'[c].key = work[c].key
                 /\ work'[c].path = work[c].path /\ work'[c].obj = work[c].obj
           /\ work' = [work EXCEPT ![c].pc = pc, ![c].obj = x]
              => work'[c].pc = pc /\ work'[c].key = work[c].key
<1>1. /\ work \in [Controllers -> Works]
      /\ work[c] \in [pc : Pcs, key : Keys \cup {None}, obj : Objects \cup {Absent},
                      phase : Phases, nodes : SUBSET Nodes, path : Workspaces \cup {None}]
  BY DEF TypeOK, Works
<1>2. work' = [work EXCEPT ![c].pc = pc, ![c].phase = x]
      => /\ work'[c].pc = pc /\ work'[c].key = work[c].key
         /\ work'[c].path = work[c].path /\ work'[c].obj = work[c].obj
  BY <1>1
<1>4. work' = [work EXCEPT ![c].pc = pc, ![c].obj = x]
      => work'[c].pc = pc /\ work'[c].key = work[c].key
  BY <1>1
<1>5. work' = [work EXCEPT ![c].pc = pc, ![c].nodes = x]
      => /\ work'[c].pc = pc /\ work'[c].key = work[c].key
         /\ work'[c].path = work[c].path /\ work'[c].obj = work[c].obj
  BY <1>1
<1> QED
  BY <1>2, <1>4, <1>5

\* A reconcile that resolves the path of the tenant keeps its object.
LEMMA PathKeeps ==
    ASSUME TypeOK, NEW c \in Controllers, NEW pc, NEW x,
           work' = [work EXCEPT ![c].pc = pc, ![c].path = x]
    PROVE  /\ work'[c].pc = pc /\ work'[c].key = work[c].key
           /\ work'[c].path = x /\ work'[c].obj = work[c].obj
<1>1. /\ work \in [Controllers -> Works]
      /\ work[c] \in [pc : Pcs, key : Keys \cup {None}, obj : Objects \cup {Absent},
                      phase : Phases, nodes : SUBSET Nodes, path : Workspaces \cup {None}]
  BY DEF TypeOK, Works
<1> QED
  BY <1>1

\* The reconcile a controller runs after a step: the one it ran, none, a new
\* one, or the same one at its next call.
LEMMA WorkStep ==
    ASSUME TypeOK, [Next]_vars, NEW c \in Controllers
    PROVE  \/ work'[c] = work[c]
           \/ work'[c].pc = "idle"
           \/ \E k \in Keys : Enter(c, k)
           \/ AddFinalizer(c)
           \/ LookupWorkspace(c) \/ LookupWorkspaceForDelete(c) \/ DeleteMounted(c)
           \/ /\ work[c].pc \in {"observe", "calico", "schedule", "taint",
                                "get", "create"}
              /\ work'[c].pc \in {"calico", "schedule", "taint", "lookup",
                                 "create", "patch"}
              /\ work'[c].pc = "create" => work[c].pc = "get"
              /\ work'[c].key = work[c].key /\ work'[c].path = work[c].path
              /\ \/ Observe(c) \/ InstallCalico(c) \/ ListNodes(c)
                 \/ UpdateNode(c) \/ GetMounted(c) \/ CreateMounted(c)
<1>1. work \in [Controllers -> Works]
  BY DEF TypeOK
<1>2. ASSUME NEW d \in Controllers, Reconcile(d) \/ Fail(d), c # d
      PROVE  work'[c] = work[c]
  BY <1>1, <1>2 DEF Reconcile, Enter, AddFinalizer, Observe, InstallCalico,
       InstallCalicoPartly, ListNodes, UpdateNode, LookupWorkspace,
       GetMounted, CreateMounted, PatchStatus, LookupWorkspaceForDelete,
       DeleteMounted, RemoveFinalizer, Refuse, Fail, Goto, Return
<1>3. Return(c) => work'[c].pc = "idle"
  BY <1>1 DEF Return, Idle
<1>4. CASE \/ InstallCalicoPartly(c) \/ PatchStatus(c) \/ RemoveFinalizer(c)
           \/ Refuse(c) \/ Fail(c)
  BY <1>3, <1>4 DEF InstallCalicoPartly, PatchStatus, RemoveFinalizer, Refuse,
       Fail
<1>5. CASE \/ Observe(c) \/ InstallCalico(c) \/ ListNodes(c) \/ UpdateNode(c)
           \/ GetMounted(c) \/ CreateMounted(c)
  <2>1. CASE Observe(c)
    <3> DEFINE pc == IF kubeconfig[work[c].key] THEN "calico" ELSE "patch"
               phase == ReportedPhase(c, work[c].key)
    <3>1. /\ work[c].pc = "observe" /\ pc \in {"calico", "patch"}
          /\ work' = [work EXCEPT ![c].pc = pc, ![c].phase = phase]
      BY <2>1 DEF Observe, At
    <3> HIDE DEF pc, phase
    <3> QED
      BY <2>1, <3>1, MoveKeeps
  <2>2. CASE InstallCalico(c)
    BY <2>2, GotoKeeps DEF InstallCalico, At
  <2>3. CASE ListNodes(c) \/ UpdateNode(c)
    <3>1. /\ work[c].pc \in {"schedule", "taint"}
          /\ \E pc \in {"lookup", "patch", "taint"} : \E x :
                work' = [work EXCEPT ![c].pc = pc, ![c].nodes = x]
      BY <2>3 DEF ListNodes, UpdateNode, AfterNodes, At
    <3>2. PICK pc \in {"lookup", "patch", "taint"} : \E x :
             work' = [work EXCEPT ![c].pc = pc, ![c].nodes = x]
      BY <3>1
    <3>3. PICK x : work' = [work EXCEPT ![c].pc = pc, ![c].nodes = x]
      BY <3>2
    <3>4. /\ work'[c].pc = pc /\ work'[c].key = work[c].key
          /\ work'[c].path = work[c].path
      BY <3>3, MoveKeeps
    <3> QED
      BY <2>3, <3>1, <3>4
  <2>4. CASE GetMounted(c)
    <3>1. /\ work[c].pc = "get"
          /\ Goto(c, "create") \/ Goto(c, "patch")
      BY <2>4 DEF GetMounted, At
    <3> QED
      BY <2>4, <3>1, GotoKeeps
  <2>5. CASE CreateMounted(c)
    <3>1. work[c].pc = "create"
      BY <2>5 DEF CreateMounted, At
    <3>2. Goto(c, "patch")
      BY <2>5 DEF CreateMounted
    <3> QED
      BY <2>5, <3>1, <3>2, GotoKeeps
  <2> QED
    BY <1>5, <2>1, <2>2, <2>3, <2>4, <2>5
<1>6. ASSUME NEW d \in Controllers, Informer(d) PROVE work' = work
  BY <1>6 DEF Informer, SyncObject, SyncCluster
<1>7. ASSUME NEW k \in Keys, Platform(k) PROVE work' = work
  BY <1>7 DEF Platform, CreateObject, DeleteObject, PurgeObject, CreateCluster,
       DeleteCluster, ProgressCluster, IssueKubeconfig, TurnWorkload, ChangeTaint
<1>8. ASSUME NEW cl \in Clusters, Tenant(cl) PROVE work' = work
  BY <1>8 DEF Tenant, TenantCreatesChild, TenantDeletesChild, DeleteTenant,
       CreateTenant
<1>9. CASE UNCHANGED vars
  BY <1>9 DEF vars
<1>10. CASE Reconcile(c) \/ Fail(c)
  BY <1>4, <1>5, <1>10 DEF Reconcile
<1> QED
  BY <1>2, <1>6, <1>7, <1>8, <1>9, <1>10 DEF Next

\* How a reconcile of a live object, and one of a deleted object, starts.
LEMMA EnterStep ==
    ASSUME TypeOK, NEW c \in Controllers, NEW k \in Keys, Enter(c, k)
    PROVE  /\ work'[c].key = k
           /\ work'[c].obj = objectCache[c][k] /\ objectCache[c][k] \in Objects
           /\ \/ /\ work'[c].pc = "lookupDelete"
                 /\ work'[c].obj.deleting /\ work'[c].obj.finalizer
              \/ /\ work'[c].pc \in {"observe", "guard"}
                 /\ ~work'[c].obj.deleting
                 /\ work'[c].pc = "observe" => work'[c].obj.finalizer
                 /\ work'[c].pc = "guard" => ~work'[c].obj.finalizer
           /\ UNCHANGED <<objects, uids, objectCache>>
<1> DEFINE obj == objectCache[c][k]
           start(pc) == [Idle EXCEPT !.pc = pc, !.key = k, !.obj = obj]
<1>1. /\ work \in [Controllers -> Works]
      /\ obj \in Objects
  BY DEF TypeOK, Enter
<1>2. /\ \/ /\ obj.deleting /\ obj.finalizer
            /\ work'[c] = start("lookupDelete")
         \/ /\ ~obj.deleting /\ obj.finalizer
            /\ work'[c] = start("observe")
         \/ /\ ~obj.deleting /\ ~obj.finalizer
            /\ work'[c] = start("guard")
      /\ UNCHANGED <<objects, uids, objectCache>>
  BY <1>1 DEF Enter, caches
<1>3. work'[c].key = k /\ work'[c].obj = obj
  BY <1>2 DEF Idle
<1>4. \/ obj.deleting /\ obj.finalizer /\ work'[c].pc = "lookupDelete"
      \/ ~obj.deleting /\ obj.finalizer /\ work'[c].pc = "observe"
      \/ ~obj.deleting /\ ~obj.finalizer /\ work'[c].pc = "guard"
  BY <1>2 DEF Idle
<1> HIDE DEF start, obj
<1> QED
  BY <1>1, <1>2, <1>3, <1>4 DEF obj

\* How the reconcile of a live object goes on, once it has the finalizer, and
\* once it has the path of the tenant's workspace.
LEMMA AddFinalizerStep ==
    ASSUME TypeOK, NEW c \in Controllers, AddFinalizer(c)
    PROVE  work'[c].pc = "observe" /\ work'[c].key = work[c].key
<1> DEFINE obj == [work[c].obj EXCEPT !.finalizer = TRUE]
<1>1. work' = [work EXCEPT ![c].pc = "observe", ![c].obj = obj]
  BY DEF AddFinalizer
<1> HIDE DEF obj
<1> QED
  BY <1>1, MoveKeeps

\* The path of a live object's reconcile is that of its tenant's workspace.
LEMMA LookupStep ==
    ASSUME TypeOK, NEW c \in Controllers, LookupWorkspace(c),
           NEW cl, cl = LogicalCluster[work[c].key]
    PROVE  /\ cl \in live
           /\ work'[c].pc = "get" /\ work'[c].key = work[c].key
           /\ work'[c].path = workspace[cl]
<1> DEFINE path == workspace[cl]
<1>1. cl \in live /\ work' = [work EXCEPT ![c].pc = "get", ![c].path = path]
  BY DEF LookupWorkspace
<1>2. /\ work \in [Controllers -> Works]
      /\ work[c] \in [pc : Pcs, key : Keys \cup {None}, obj : Objects \cup {Absent},
                      phase : Phases, nodes : SUBSET Nodes, path : Workspaces \cup {None}]
  BY DEF TypeOK, Works
<1> HIDE DEF path
<1>3. work'[c].pc = "get" /\ work'[c].key = work[c].key /\ work'[c].path = path
  BY <1>1, <1>2
<1> QED
  BY <1>1, <1>3 DEF path

\* How the reconcile of a deleted object goes on.
LEMMA LookupForDeleteStep ==
    ASSUME TypeOK, NEW c \in Controllers, LookupWorkspaceForDelete(c),
           NEW cl, cl = LogicalCluster[work[c].key]
    PROVE  /\ work'[c].key = work[c].key /\ work'[c].obj = work[c].obj
           /\ \/ /\ cl \in live
                 /\ work'[c].pc = "delete" /\ work'[c].path = workspace[cl]
              \/ cl \notin live /\ work'[c].pc = "release"
<1> DEFINE pc == IF cl \in live THEN "delete" ELSE "release"
           path == IF cl \in live THEN workspace[cl] ELSE None
<1>1. work' = [work EXCEPT ![c].pc = pc, ![c].path = path]
  BY DEF LookupWorkspaceForDelete
<1>2. \/ cl \in live /\ pc = "delete" /\ path = workspace[cl]
      \/ cl \notin live /\ pc = "release"
  OBVIOUS
<1> HIDE DEF pc, path
<1>3. /\ work'[c].pc = pc /\ work'[c].key = work[c].key
      /\ work'[c].path = path /\ work'[c].obj = work[c].obj
  BY <1>1, PathKeeps
<1> QED
  BY <1>2, <1>3

\* ApplyInv is inductive.
LEMMA ApplyStep ==
    ASSUME TypeOK, SeenGuardedInv, ApplyInv, OneController, [Next]_vars
    PROVE  ApplyInv'
<1> SUFFICES ASSUME NEW c \in Controllers, work'[c].pc \in ApplyPcs
             PROVE  /\ work'[c].key \in Keys
                    /\ work'[c].pc # "guard" => Guarded(work[c].key)'
                    /\ work'[c].pc = "guard" =>
                          /\ work'[c].obj # Absent
                          /\ ~work'[c].obj.deleting /\ ~work'[c].obj.finalizer
  BY DEF ApplyInv, Guarded
<1>0. Absent \notin Objects
  BY ConstantTypes
<1>1. ASSUME NEW k \in Keys, Enter(c, k)
      PROVE  /\ work'[c].key \in Keys
             /\ work'[c].pc # "guard" => Guarded(work[c].key)'
             /\ work'[c].pc = "guard" =>
                   /\ work'[c].obj # Absent
                   /\ ~work'[c].obj.deleting /\ ~work'[c].obj.finalizer
  <2>1. objectCache[c][k] \in Objects => objectCache[c][k] # Absent
    BY <1>0
  <2> QED
    BY <1>1, <2>1, EnterStep DEF SeenGuardedInv, Guarded, ApplyPcs
<1>2. CASE AddFinalizer(c)
  <2>1. /\ work'[c].pc = "observe" /\ work'[c].key = work[c].key
        /\ work[c].key \in Keys
    BY <1>2, AddFinalizerStep DEF AddFinalizer, At, ApplyInv, ApplyPcs
  <2>2. Guarded(work[c].key)'
    <3> DEFINE k == work[c].key
               on == [objects[k] EXCEPT !.finalizer = TRUE]
    <3>1. objects[k] \in Objects /\ objects' = [objects EXCEPT ![k] = on]
      BY <1>2, UpdateKeeps DEF AddFinalizer, RemoveFinalizer, At
    <3>2. on \in Objects /\ on.finalizer
      BY <3>1 DEF Objects
    <3> HIDE DEF on
    <3>3. objects'[k] = on
      BY <2>1, <3>1 DEF TypeOK
    <3> QED
      BY <1>0, <2>1, <3>2, <3>3 DEF Guarded
  <2> QED
    BY <2>1, <2>2 DEF Guarded
<1>3. CASE /\ work[c].pc \in ApplyPcs /\ work'[c].key = work[c].key
           /\ work[c].pc # "guard" /\ work'[c].pc # "guard"
  <2>1. work[c].key \in Keys /\ Guarded(work[c].key)
    BY <1>3 DEF ApplyInv
  <2>2. ASSUME NEW d \in Controllers, RemoveFinalizer(d) PROVE FALSE
    BY <1>3, <2>2 DEF OneController, RemoveFinalizer, At, ApplyPcs
  <2> QED
    BY <1>3, <2>1, <2>2, GuardedStep DEF Guarded
<1>4. CASE work'[c] = work[c]
  BY <1>3, <1>4 DEF ApplyInv
<1>5. CASE LookupWorkspace(c)
  <2>1. work'[c].pc = "get" /\ work'[c].key = work[c].key
    BY <1>5, LookupStep
  <2> QED
    BY <1>3, <1>5, <2>1 DEF LookupWorkspace, At, ApplyPcs
<1>6. ~LookupWorkspaceForDelete(c) /\ ~DeleteMounted(c)
  BY LookupForDeleteStep, GotoKeeps DEF DeleteMounted, ApplyPcs
<1> QED
  BY <1>1, <1>2, <1>3, <1>4, <1>5, <1>6, WorkStep DEF ApplyPcs

\* DeleteInv is inductive.
LEMMA DeleteStep ==
    ASSUME TypeOK, VersionsInv, DeleteInv, [Next]_vars
    PROVE  DeleteInv'
<1> SUFFICES ASSUME NEW c \in Controllers, work'[c].pc \in DeletePcs,
                    NEW k, k = work'[c].key, NEW y, y = work'[c].obj
             PROVE  /\ k \in Keys
                    /\ y # Absent /\ y.deleting /\ y.finalizer
                    /\ y.uid <= uids'[k]
                    /\ Later(objects'[k], y)
                    /\ Later(objectCache'[c][k], y)
  BY DEF DeleteInv, Later
<1>0. Absent \notin Objects
  BY ConstantTypes
<1>1. CASE \E j \in Keys : Enter(c, j)
  <2>1. PICK j \in Keys : Enter(c, j)
    BY <1>1
  <2>2. /\ k = j /\ y = objectCache[c][k] /\ y \in Objects
        /\ y.deleting /\ y.finalizer
        /\ UNCHANGED <<objects, uids, objectCache>>
    BY <2>1, EnterStep DEF DeletePcs
  <2> QED
    BY <1>0, <2>2 DEF VersionsInv, Later
<1>2. CASE /\ work[c].pc \in DeletePcs
           /\ work'[c].key = work[c].key /\ work'[c].obj = work[c].obj
  <2>1. /\ k \in Keys
        /\ y # Absent /\ y.deleting /\ y.finalizer
        /\ y.uid <= uids[k]
        /\ Later(objects[k], y)
        /\ Later(objectCache[c][k], y)
    BY <1>2 DEF DeleteInv
  <2>2. y \in Objects
    BY <1>2, <2>1 DEF TypeOK, Works, DeletePcs
  <2> QED
    BY <2>1, <2>2, LaterStep, CacheStep
<1>3. CASE LookupWorkspaceForDelete(c) \/ DeleteMounted(c)
  BY <1>2, <1>3, LookupForDeleteStep, GotoKeeps
     DEF LookupWorkspaceForDelete, DeleteMounted, At, DeletePcs
<1>4. ~AddFinalizer(c) /\ ~LookupWorkspace(c)
  BY AddFinalizerStep, LookupStep DEF DeletePcs
<1> QED
  BY <1>1, <1>2, <1>3, <1>4, WorkStep DEF DeletePcs

\* How tenant workspaces come and go.
LEMMA TenantStep ==
    ASSUME [Next]_vars
    PROVE  \/ UNCHANGED <<workspace, live>>
           \/ \E cl \in Clusters : DeleteTenant(cl)
           \/ \E cl \in Clusters, w \in Workspaces : CreateTenant(cl, w)
<1>1. ASSUME NEW c \in Controllers, Reconcile(c) \/ Fail(c) \/ Informer(c)
      PROVE  UNCHANGED <<workspace, live>>
  BY <1>1 DEF Reconcile, Enter, AddFinalizer, Observe, InstallCalico,
       InstallCalicoPartly, ListNodes, UpdateNode, LookupWorkspace,
       GetMounted, CreateMounted, PatchStatus, LookupWorkspaceForDelete,
       DeleteMounted, RemoveFinalizer, Refuse, Fail, Informer, SyncObject,
       SyncCluster, tenants
<1>2. ASSUME NEW k \in Keys, Platform(k)
      PROVE  UNCHANGED <<workspace, live>>
  BY <1>2 DEF Platform, CreateObject, DeleteObject, PurgeObject, CreateCluster,
       DeleteCluster, ProgressCluster, IssueKubeconfig, TurnWorkload, ChangeTaint,
       tenants
<1>3. CASE UNCHANGED vars
  BY <1>3 DEF vars, tenants
<1> QED
  BY <1>1, <1>2, <1>3 DEF Next, Tenant, TenantCreatesChild, TenantDeletesChild

\* A logical cluster belongs to its workspace for good, and a reconcile resolves
\* the path once: RoutesInv is inductive.
LEMMA RoutesStep ==
    ASSUME TypeOK, RoutesInv, [Next]_vars
    PROVE  /\ RoutesInv'
           /\ \A cl \in Clusters : workspace[cl] # None
                                     => workspace'[cl] = workspace[cl]
<1>1. /\ workspace \in [Clusters -> Workspaces \cup {None}]
      /\ live \subseteq Clusters
      /\ None \notin Workspaces
  BY ConstantTypes DEF TypeOK
<1>2. /\ \A cl \in live' : workspace'[cl] # None
      /\ \A cl \in Clusters : workspace[cl] # None => workspace'[cl] = workspace[cl]
  <2>1. CASE UNCHANGED <<workspace, live>>
    BY <1>1, <2>1 DEF RoutesInv
  <2>2. CASE \E cl \in Clusters : DeleteTenant(cl)
    BY <1>1, <2>2 DEF RoutesInv, DeleteTenant
  <2>3. ASSUME NEW cl \in Clusters, NEW w \in Workspaces, CreateTenant(cl, w)
        PROVE  /\ \A a \in live' : workspace'[a] # None
               /\ \A a \in Clusters : workspace[a] # None
                                        => workspace'[a] = workspace[a]
    BY <1>1, <2>3 DEF RoutesInv, CreateTenant
  <2> QED
    BY <2>1, <2>2, <2>3, TenantStep
<1>3. ASSUME NEW c \in Controllers, work'[c].pc \in {"get", "create", "delete"}
      PROVE  /\ work'[c].path # None
             /\ work'[c].path = workspace'[LogicalCluster[work'[c].key]]
  <2> DEFINE cl == LogicalCluster[work[c].key]
  <2>1. work[c].pc # "idle" => cl \in Clusters
    BY ConstantTypes DEF TypeOK, Works
  <2>2. CASE /\ work'[c].key = work[c].key /\ work'[c].path = work[c].path
             /\ work[c].pc \in {"get", "create", "delete"}
    BY <1>2, <2>1, <2>2 DEF RoutesInv
  <2>3. CASE LookupWorkspace(c)
    <3>1. UNCHANGED <<workspace, live>>
      BY <2>3 DEF LookupWorkspace, tenants
    <3> QED
      BY <2>3, <3>1, LookupStep DEF RoutesInv
  <2>4. CASE LookupWorkspaceForDelete(c)
    <3>1. UNCHANGED <<workspace, live>>
      BY <2>4 DEF LookupWorkspaceForDelete, tenants
    <3> QED
      BY <1>3, <2>4, <3>1, LookupForDeleteStep DEF RoutesInv
  <2>5. CASE AddFinalizer(c)
    BY <1>3, <2>5, AddFinalizerStep
  <2>6. CASE DeleteMounted(c)
    BY <1>3, <2>6, GotoKeeps DEF DeleteMounted
  <2>7. CASE \E k \in Keys : Enter(c, k)
    BY <1>3, <2>7, EnterStep
  <2>8. CASE work'[c] = work[c]
    BY <1>3, <2>2, <2>8
  <2> QED
    BY <1>3, <2>2, <2>3, <2>4, <2>5, <2>6, <2>7, <2>8, WorkStep
<1> QED
  BY <1>2, <1>3 DEF RoutesInv

\* A tenant's path is not given to another logical cluster: PathsInv is inductive
\* without reuse of names.
LEMMA PathsStep ==
    ASSUME TypeOK, PathsInv, ~ReuseNames, [Next]_vars
    PROVE  PathsInv'
<1>1. /\ workspace \in [Clusters -> Workspaces \cup {None}]
      /\ None \notin Workspaces
  BY ConstantTypes DEF TypeOK
<1>2. \A a, b \in Clusters : workspace'[a] = workspace'[b]
                               /\ workspace'[a] # None => a = b
  <2>1. CASE UNCHANGED workspace
    BY <2>1 DEF PathsInv
  <2>2. ASSUME NEW cl \in Clusters, DeleteTenant(cl) PROVE UNCHANGED workspace
    BY <2>2 DEF DeleteTenant
  <2>3. ASSUME NEW cl \in Clusters, NEW w \in Workspaces, CreateTenant(cl, w)
        PROVE  \A a, b \in Clusters : workspace'[a] = workspace'[b]
                                         /\ workspace'[a] # None => a = b
    <3>1. /\ workspace' = [workspace EXCEPT ![cl] = w]
          /\ \A d \in Clusters : workspace[d] # w
      BY <2>3 DEF CreateTenant
    <3> QED
      BY <1>1, <3>1 DEF PathsInv
  <2> QED
    BY <2>1, <2>2, <2>3, TenantStep
<1> QED
  BY <1>2, RoutesStep DEF PathsInv

\* How child workspaces come and go: where nothing is put by CreateMounted, or
\* by a tenant, who puts what mounts nothing, they are only removed.
LEMMA ChildrenStep ==
    ASSUME TypeOK, [Next]_vars
    PROVE  \/ \E c \in Controllers : CreateMounted(c)
           \/ \E cl \in Clusters, n \in ChildNames : TenantCreatesChild(cl, n)
           \/ \A cl \in Clusters, n \in ChildNames :
                 children'[cl][n] \in {children[cl][n], None}
<1>1. children \in [Clusters -> [ChildNames -> Refs \cup {None, Plain}]]
  BY DEF TypeOK
<1>2. ASSUME NEW c \in Controllers, Reconcile(c) \/ Fail(c) \/ Informer(c)
      PROVE  \/ CreateMounted(c) \/ DeleteMounted(c) \/ children' = children
  BY <1>2 DEF Reconcile, Enter, AddFinalizer, Observe, InstallCalico,
       InstallCalicoPartly, ListNodes, UpdateNode, LookupWorkspace,
       GetMounted, PatchStatus, LookupWorkspaceForDelete,
       RemoveFinalizer, Refuse, Fail, Informer, SyncObject, SyncCluster, tenants
<1>3. ASSUME NEW c \in Controllers, DeleteMounted(c)
      PROVE  \A cl \in Clusters, n \in ChildNames :
                children'[cl][n] \in {children[cl][n], None}
  <2> DEFINE m == MountedWorkspace(work[c].key)
  <2>1. children' = [cl \in Clusters |-> IF cl \in Reached(work[c].path)
                        THEN [children[cl] EXCEPT ![m] = None]
                        ELSE children[cl]]
    BY <1>3 DEF DeleteMounted
  <2> HIDE DEF m
  <2> QED
    BY <1>1, <2>1
<1>4. ASSUME NEW k \in Keys, Platform(k) PROVE children' = children
  BY <1>4 DEF Platform, CreateObject, DeleteObject, PurgeObject, CreateCluster,
       DeleteCluster, ProgressCluster, IssueKubeconfig, TurnWorkload, ChangeTaint,
       tenants
<1>5. ASSUME NEW cl \in Clusters, NEW n \in ChildNames, TenantDeletesChild(cl, n)
      PROVE  \A a \in Clusters, m \in ChildNames :
                children'[a][m] \in {children[a][m], None}
  BY <1>1, <1>5 DEF TenantDeletesChild
<1>6. ASSUME NEW cl \in Clusters, DeleteTenant(cl)
      PROVE  \A a \in Clusters, m \in ChildNames :
                children'[a][m] \in {children[a][m], None}
  BY <1>1, <1>6 DEF DeleteTenant
<1>7. ASSUME NEW cl \in Clusters, NEW w \in Workspaces, CreateTenant(cl, w)
      PROVE  children' = children
  BY <1>7 DEF CreateTenant
<1>8. CASE UNCHANGED vars
  BY <1>8 DEF vars, tenants
<1> QED
  BY <1>1, <1>2, <1>3, <1>4, <1>5, <1>6, <1>7, <1>8 DEF Next, Tenant

\* CreateMounted puts a workspace where the path it read leads.
LEMMA CreateStep ==
    ASSUME TypeOK, NEW c \in Controllers, CreateMounted(c)
    PROVE  /\ work[c].pc = "create" /\ work[c].key \in Keys
           /\ UNCHANGED <<objects, workspace, live>>
           /\ \E cl \in live :
                 /\ workspace[cl] = work[c].path
                 /\ \A a \in Clusters, n \in ChildNames :
                       \/ children'[a][n] = children[a][n]
                       \/ /\ a = cl /\ n = MountedWorkspace(work[c].key)
                          /\ children[a][n] = None
                          /\ children'[a][n] = Ref(work[c].key)
<1>1. /\ children \in [Clusters -> [ChildNames -> Refs \cup {None, Plain}]]
      /\ live \subseteq Clusters
      /\ work[c].pc = "create" /\ work[c].key \in Keys
  BY DEF TypeOK, CreateMounted, At, Works
<1> DEFINE n == MountedWorkspace(work[c].key)
           ref == Ref(work[c].key)
<1>2. PICK cl \in live :
         /\ workspace[cl] = work[c].path
         /\ \/ children' = children
            \/ /\ children[cl][n] = None
               /\ children' = [children EXCEPT ![cl][n] = ref]
  BY DEF CreateMounted, Reached
<1>3. \A a \in Clusters, m \in ChildNames :
         \/ children'[a][m] = children[a][m]
         \/ a = cl /\ m = n /\ children[a][m] = None /\ children'[a][m] = ref
  <2> HIDE DEF n, ref
  <2> QED
    BY <1>1, <1>2
<1>4. UNCHANGED <<objects, workspace, live>>
  BY DEF CreateMounted
<1> QED
  BY <1>1, <1>2, <1>3, <1>4

\* Only the reconcile of an object creates its mounted workspace.
LEMMA MountedStep ==
    ASSUME TypeOK, PathsInv, [Next]_vars,
           NEW k \in Keys, Mounted(k)', ~Mounted(k)
    PROVE  \E c \in Controllers : CreateMounted(c) /\ work[c].key = k
<1>1. /\ children \in [Clusters -> [ChildNames -> Refs \cup {None, Plain}]]
      /\ LogicalCluster[k] \in Clusters /\ MountedWorkspace(k) \in ChildNames
      /\ Ref(k) # None /\ Ref(k) # Plain
  BY ConstantTypes, NamesAreChildNames DEF TypeOK, Refs
<1>2. ASSUME NEW cl \in Clusters, NEW n \in ChildNames, TenantCreatesChild(cl, n)
      PROVE  FALSE
  BY <1>1, <1>2 DEF TenantCreatesChild, Mounted
<1>3. ASSUME NEW c \in Controllers, CreateMounted(c) PROVE work[c].key = k
  <2> DEFINE j == work[c].key
  <2>1. /\ work[c].pc = "create" /\ j \in Keys
        /\ workspace[LogicalCluster[k]] = work[c].path
        /\ Ref(j) = Ref(k)
    BY <1>1, <1>3, CreateStep DEF Mounted
  <2>2. LogicalCluster[j] = LogicalCluster[k]
    BY <1>1, <1>3, <2>1, ConstantTypes DEF PathsInv, RoutesInv
  <2> QED
    BY <2>1, <2>2, RefsIdentify
<1> QED
  BY <1>1, <1>2, <1>3, ChildrenStep DEF Mounted

\* ContentInv is inductive.
LEMMA ContentStep ==
    ASSUME TypeOK, ContentInv, [Next]_vars
    PROVE  ContentInv'
<1> SUFFICES ASSUME NEW cl \in Clusters \ live', NEW n \in ChildNames
             PROVE  children'[cl][n] = None
  BY DEF ContentInv
<1>1. /\ live \subseteq Clusters
      /\ children \in [Clusters -> [ChildNames -> Refs \cup {None, Plain}]]
  BY DEF TypeOK
<1>2. CASE cl \in live
  <2>1. DeleteTenant(cl)
    BY <1>2, TenantStep DEF DeleteTenant, CreateTenant
  <2> QED
    BY <1>1, <2>1 DEF DeleteTenant
<1>3. CASE cl \notin live
  <2>1. children[cl][n] = None
    BY <1>3 DEF ContentInv
  <2>2. ASSUME NEW c \in Controllers, CreateMounted(c)
        PROVE  children'[cl][n] = None
    BY <1>3, <2>1, <2>2, CreateStep
  <2>3. ASSUME NEW d \in Clusters, NEW m \in ChildNames, TenantCreatesChild(d, m)
        PROVE  children'[cl][n] = None
    BY <1>1, <1>3, <2>1, <2>3 DEF TenantCreatesChild
  <2> QED
    BY <2>1, <2>2, <2>3, ChildrenStep
<1> QED
  BY <1>2, <1>3

\* ReleaseInv is inductive: the mounted workspace is gone when a reconcile gets
\* to the release of the finalizer, and no other reconcile creates it again.
LEMMA ReleaseStep ==
    ASSUME TypeOK, PathsInv, ContentInv, DeleteInv, ReleaseInv, OneController,
           [Next]_vars
    PROVE  ReleaseInv'
<1> SUFFICES ASSUME NEW c \in Controllers, work'[c].pc = "release"
             PROVE  ~Mounted(work[c].key)'
  BY DEF ReleaseInv, Mounted
<1> DEFINE k == work[c].key
           cl == LogicalCluster[k]
           n == MountedWorkspace(k)
<1>1. CASE work'[c] = work[c]
  <2>1. k \in Keys /\ ~Mounted(k) /\ work'[c].key = k
    BY <1>1 DEF ReleaseInv, DeleteInv, DeletePcs
  <2>2. ASSUME NEW d \in Controllers, CreateMounted(d) PROVE FALSE
    BY <1>1, <2>2 DEF OneController, CreateMounted, At
  <2>3. ~Mounted(k)'
    BY <2>1, <2>2, MountedStep
  <2> QED
    BY <2>1, <2>3 DEF Mounted
<1>2. ASSUME LookupWorkspaceForDelete(c) \/ DeleteMounted(c)
      PROVE  /\ work'[c].key = k /\ k \in Keys
             /\ cl \in Clusters /\ n \in ChildNames /\ Ref(k) # None
  BY <1>2, LookupForDeleteStep, GotoKeeps, ConstantTypes, NamesAreChildNames
     DEF LookupWorkspaceForDelete, DeleteMounted, At, DeleteInv, DeletePcs, Refs
<1>3. CASE LookupWorkspaceForDelete(c)
  <2>1. cl \notin live /\ children' = children
    BY <1>3, LookupForDeleteStep DEF LookupWorkspaceForDelete, tenants
  <2> QED
    BY <1>2, <1>3, <2>1 DEF ContentInv, Mounted
<1>4. CASE DeleteMounted(c)
  <2>1. /\ children' = [a \in Clusters |-> IF a \in Reached(work[c].path)
                          THEN [children[a] EXCEPT ![n] = None]
                          ELSE children[a]]
        /\ children[cl] \in [ChildNames -> Refs \cup {None, Plain}]
    BY <1>2, <1>4 DEF DeleteMounted, TypeOK
  <2>2. cl \in live => cl \in Reached(work[c].path)
    BY <1>4 DEF DeleteMounted, At, PathsInv, RoutesInv, Reached
  <2>3. children'[cl][n] = None
    <3> HIDE DEF n, k, cl
    <3> QED
      BY <1>2, <1>4, <2>1, <2>2 DEF ContentInv
  <2> QED
    BY <1>2, <1>4, <2>3 DEF Mounted
<1>5. ~AddFinalizer(c) /\ ~LookupWorkspace(c)
  BY AddFinalizerStep, LookupStep
<1>6. \A j \in Keys : ~Enter(c, j)
  BY EnterStep
<1> QED
  BY <1>1, <1>3, <1>4, <1>5, <1>6, WorkStep

\* NoOrphanMount is inductive with them.
LEMMA NoOrphanStep ==
    ASSUME TypeOK, ApplyInv, PathsInv, ReleaseInv, NoOrphanMount, [Next]_vars
    PROVE  NoOrphanMount'
<1> SUFFICES ASSUME NEW k \in Keys, Mounted(k)'
             PROVE  Guarded(k)'
  BY DEF NoOrphanMount
<1>1. CASE Mounted(k)
  <2>1. Guarded(k)
    BY <1>1 DEF NoOrphanMount
  <2>2. ASSUME NEW c \in Controllers, RemoveFinalizer(c), work[c].key = k
        PROVE  FALSE
    BY <1>1, <2>2 DEF RemoveFinalizer, At, ReleaseInv
  <2> QED
    BY <2>1, <2>2, GuardedStep
<1>2. CASE ~Mounted(k)
  <2>1. PICK c \in Controllers : CreateMounted(c) /\ work[c].key = k
    BY <1>2, MountedStep
  <2>2. work[c].pc = "create" /\ objects' = objects
    BY <2>1, CreateStep
  <2> QED
    BY <2>1, <2>2 DEF ApplyInv, ApplyPcs, Guarded
<1> QED
  BY <1>1, <1>2

\* The invariant holds initially, and in every step.
LEMMA InitInv == Init => IInv
<1> SUFFICES ASSUME Init PROVE IInv
  OBVIOUS
<1>1. TypeOK
  BY InitTypes
<1>2. \A c \in Controllers : work[c].pc = "idle"
  BY DEF Init, Idle
<1>3. VersionsInv /\ SeenGuardedInv
  BY DEF Init, VersionsInv, SeenGuardedInv
<1>4. ApplyInv /\ DeleteInv /\ ReleaseInv
  BY <1>2 DEF ApplyInv, DeleteInv, ReleaseInv, ApplyPcs, DeletePcs
<1>5. PathsInv
  BY <1>2, HomeInjective, ConstantTypes DEF Init, PathsInv, RoutesInv
<1>6. ContentInv
  BY DEF Init, ContentInv
<1>7. NoOrphanMount
  BY ConstantTypes, NamesAreChildNames
     DEF Init, NoOrphanMount, Mounted, Refs
<1> QED
  BY <1>1, <1>3, <1>4, <1>5, <1>6, <1>7 DEF IInv

\* IInv is inductive, as far as one controller and names that are not reused go.
LEMMA InvStep ==
    ASSUME Exclusive, IInv, [Next]_vars
    PROVE  IInv'
<1>1. TypeOK'
  BY TypeStep DEF IInv
<1>2. VersionsInv' /\ SeenGuardedInv'
  BY VersionsStep, SeenGuardedStep DEF IInv, Exclusive
<1>3. ApplyInv' /\ DeleteInv'
  BY ApplyStep, DeleteStep DEF IInv, Exclusive
<1>4. PathsInv' /\ ContentInv'
  BY PathsStep, ContentStep DEF IInv, Exclusive
<1>5. ReleaseInv' /\ NoOrphanMount'
  BY ReleaseStep, NoOrphanStep DEF IInv, Exclusive
<1> QED
  BY <1>1, <1>2, <1>3, <1>4, <1>5 DEF IInv

\* No orphan: with one controller process, and without reuse of tenant names, a
\* mounted workspace exists only while its object is there and carries the
\* finalizer, so that the object cannot go without its workspace.
THEOREM NoOrphan ==
    ASSUME Exclusive
    PROVE  Spec => []NoOrphanMount
<1>1. Init => IInv
  BY InitInv
<1>2. IInv /\ [Next]_vars => IInv'
  BY InvStep
<1>3. IInv => NoOrphanMount
  BY DEF IInv
<1> QED
  BY <1>1, <1>2, <1>3, PTL DEF Spec

(***************************************************************************)
(* The controller implements MountContract.                                *)
(***************************************************************************)

\* The steps that change which objects are guarded.
LEMMA GuardedSetStep ==
    ASSUME TypeOK, [Next]_vars
    PROVE  \/ \A k \in Keys : Guarded(k)' <=> Guarded(k)
           \/ \E c \in Controllers : AddFinalizer(c) \/ RemoveFinalizer(c)
<1>1. CASE UNCHANGED <<objects, uids, objectCache>>
  BY <1>1 DEF Guarded
<1>2. ASSUME NEW c \in Controllers, NEW k \in Keys, SyncObject(c, k)
      PROVE  \A j \in Keys : Guarded(j)' <=> Guarded(j)
  BY <1>2 DEF SyncObject, Guarded
<1>3. ASSUME NEW k \in Keys, CreateObject(k) \/ DeleteObject(k) \/ PurgeObject(k),
             NEW j \in Keys
      PROVE  Guarded(j)' <=> Guarded(j)
  <2>1. objects \in [Keys -> Objects \cup {Absent}]
    BY DEF TypeOK
  <2> DEFINE new  == [uid |-> uids[k] + 1, deleting |-> FALSE, finalizer |-> FALSE]
             dead == [objects[k] EXCEPT !.deleting = TRUE]
  <2>2. CASE CreateObject(k)
    <3>1. objects[k] = Absent /\ objects' = [objects EXCEPT ![k] = new]
      BY <2>2 DEF CreateObject
    <3>2. ~new.finalizer
      OBVIOUS
    <3> HIDE DEF new
    <3> QED
      BY <2>1, <3>1, <3>2 DEF Guarded
  <2>3. CASE DeleteObject(k)
    <3>1. /\ objects[k] # Absent /\ objects[k] \in Objects
          /\ objects' = [objects EXCEPT ![k] = dead]
      BY <2>1, <2>3 DEF DeleteObject
    <3>2. dead.finalizer = objects[k].finalizer /\ dead \in Objects
      BY <3>1 DEF Objects
    <3> HIDE DEF dead
    <3>3. dead # Absent
      BY <3>2, ConstantTypes
    <3> QED
      BY <2>1, <3>1, <3>2, <3>3 DEF Guarded
  <2>4. CASE PurgeObject(k)
    BY <2>1, <2>4 DEF PurgeObject, Guarded
  <2> QED
    BY <1>3, <2>2, <2>3, <2>4
<1> QED
  BY <1>1, <1>2, <1>3, ObjectSteps

\* Every step is one of the contract, or leaves its state alone.
LEMMA ContractStep ==
    ASSUME IInv, [Next]_vars
    PROVE  \/ Contract!Next
           \/ UNCHANGED <<{k \in Keys : Guarded(k)}, {k \in Keys : Mounted(k)}>>
<1> DEFINE guarded == {k \in Keys : Guarded(k)}
           mounted == {k \in Keys : Mounted(k)}
<1>1. ASSUME NEW c \in Controllers, AddFinalizer(c)
      PROVE  Contract!Next
  <2> DEFINE k == work[c].key
             on == [objects[k] EXCEPT !.finalizer = TRUE]
  <2>1. k \in Keys /\ objects[k] \in Objects /\ objects' = [objects EXCEPT ![k] = on]
    BY <1>1, UpdateKeeps DEF IInv, AddFinalizer, RemoveFinalizer, At
  <2>2. on \in Objects /\ on.finalizer /\ on # Absent
    BY <2>1, ConstantTypes DEF Objects
  <2>3. UNCHANGED children
    BY <1>1 DEF AddFinalizer, tenants
  <2> HIDE DEF k, on
  <2>4. guarded' = guarded \cup {k}
    BY <2>1, <2>2 DEF IInv, TypeOK, Guarded
  <2>5. mounted' = mounted
    BY <2>3 DEF Mounted
  <2>6. Contract!Guard(k)
    BY <2>4, <2>5 DEF Contract!Guard
  <2> QED
    BY <2>1, <2>6 DEF Contract!Next
<1>2. ASSUME NEW c \in Controllers, RemoveFinalizer(c)
      PROVE  Contract!Next
  <2> DEFINE k == work[c].key
             off == [objects[k] EXCEPT !.finalizer = FALSE]
  <2>1. k \in Keys /\ objects[k] \in Objects /\ objects' = [objects EXCEPT ![k] = off]
    BY <1>2, UpdateKeeps DEF IInv, AddFinalizer, RemoveFinalizer, At
  <2>2. ~off.finalizer
    BY <2>1 DEF Objects
  <2>3. UNCHANGED children
    BY <1>2 DEF RemoveFinalizer, tenants
  <2>4. ~Mounted(k)
    BY <1>2 DEF RemoveFinalizer, At, IInv, ReleaseInv
  <2> HIDE DEF k, off
  <2>5. guarded' = guarded \ {k}
    BY <2>1, <2>2 DEF IInv, TypeOK, Guarded
  <2>6. mounted' = mounted
    BY <2>3 DEF Mounted
  <2>7. Contract!Release(k)
    BY <2>4, <2>5, <2>6 DEF Contract!Release
  <2> QED
    BY <2>1, <2>7 DEF Contract!Next
<1>3. ASSUME \A k \in Keys : Guarded(k)' <=> Guarded(k)
      PROVE  Contract!Next \/ UNCHANGED <<guarded, mounted>>
  <2>1. guarded' = guarded
    BY <1>3
  <2>2. CASE \E k \in Keys : Mounted(k)' /\ ~Mounted(k)
    <3>1. PICK k \in Keys : Mounted(k)' /\ ~Mounted(k)
      BY <2>2
    <3>2. PICK c \in Controllers : CreateMounted(c) /\ work[c].key = k
      BY <3>1, MountedStep DEF IInv
    <3>3. k \in guarded
      BY <3>2, CreateStep DEF IInv, ApplyInv, ApplyPcs
    <3>4. \A j \in Keys : j # k => (Mounted(j)' <=> Mounted(j))
      <4> SUFFICES ASSUME NEW j \in Keys, j # k PROVE Mounted(j)' <=> Mounted(j)
        OBVIOUS
      <4>1. /\ LogicalCluster[j] \in Clusters /\ LogicalCluster[k] \in Clusters
            /\ MountedWorkspace(j) \in ChildNames /\ Ref(j) # None
        BY ConstantTypes, NamesAreChildNames DEF Refs
      <4>2. PICK cl \in live :
               /\ workspace[cl] = work[c].path
               /\ \A a \in Clusters, n \in ChildNames :
                     \/ children'[a][n] = children[a][n]
                     \/ /\ a = cl /\ children[a][n] = None
                        /\ children'[a][n] = Ref(k)
        BY <3>2, CreateStep DEF IInv
      <4>3. cl = LogicalCluster[k]
        BY <3>1, <4>1, <4>2, NamesAreChildNames DEF Mounted
      <4> QED
        BY <4>1, <4>2, <4>3, RefsIdentify DEF Mounted
    <3>5. mounted' = mounted \cup {k}
      BY <3>1, <3>4
    <3> QED
      BY <2>1, <3>3, <3>5 DEF Contract!Next, Contract!Mount
  <2>3. CASE \A k \in Keys : Mounted(k)' => Mounted(k)
    <3>1. mounted' = mounted \ (mounted \ mounted')
      BY <2>3
    <3>2. Contract!Unmount(mounted \ mounted')
      BY <2>1, <3>1 DEF Contract!Unmount
    <3> QED
      BY <3>2 DEF Contract!Next
  <2> QED
    BY <2>2, <2>3
<1> QED
  BY <1>1, <1>2, <1>3, GuardedSetStep DEF IInv

\* The refinement: with one controller process, and without reuse of tenant
\* names, every behaviour of the controller is one of MountContract, in which an
\* object is guarded before its workspace is mounted and released after it.
THEOREM Refinement ==
    ASSUME Exclusive
    PROVE  Spec => ImplementsContract
<1>1. Init => Contract!Init
  BY InitInv DEF Init, Contract!Init, Guarded, IInv, NoOrphanMount
<1>2. Init => IInv
  BY InitInv
<1>3. IInv /\ [Next]_vars => IInv'
  BY InvStep
<1>4. IInv /\ [Next]_vars
        => [Contract!Next]_<<{k \in Keys : Guarded(k)}, {k \in Keys : Mounted(k)}>>
  BY ContractStep
<1> QED
  BY <1>1, <1>2, <1>3, <1>4, PTL DEF Spec, ImplementsContract, Contract!Spec

=============================================================================
