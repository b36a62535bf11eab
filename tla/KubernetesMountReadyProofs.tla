--------------------- MODULE KubernetesMountReadyProofs ---------------------
(***************************************************************************)
(* Theorems about what KubernetesMount publishes and deletes: Ready stands  *)
(* for a prepared workload cluster, and a deletion by name meets only what  *)
(* goes by the name in the object's own tenant workspace.                   *)
(***************************************************************************)
EXTENDS KubernetesMountProofs

(***************************************************************************)
(* A reconcile that has installed Calico can rely on it until it publishes, *)
(* or else works on an object whose Cluster has been deleted, and cannot    *)
(* come back while the object carries the finalizer.                       *)
(***************************************************************************)

Prepared(k) == kubeconfig[k] /\ workload[k].cni = "Installed"
Gone(k)     == cluster[k] = Absent /\ objects[k].deleting

\* The reconcile is past the installation of Calico, and may publish Ready.
MayPublishReady(c) ==
    \/ work[c].pc \in {"schedule", "taint", "lookup", "get", "create"}
    \/ work[c].pc = "patch" /\ work[c].phase = "Ready"

PreparedInv ==
    \A c \in Controllers : MayPublishReady(c) =>
        /\ work[c].key \in Keys
        /\ Prepared(work[c].key) \/ Gone(work[c].key)

\* How the phase gets to the patch: from the observation of a workload cluster
\* without kubeconfig, or from the nodes, it is not Ready.
LEMMA PhaseStep ==
    ASSUME TypeOK, NEW c \in Controllers
    PROVE  /\ Observe(c) /\ work'[c].pc = "patch" => work'[c].phase # "Ready"
           /\ Observe(c) => work'[c].pc \in {"calico", "patch"}
           /\ (ListNodes(c) \/ UpdateNode(c)) /\ work'[c].pc = "patch"
                 => work'[c].phase # "Ready"
<1>1. /\ work \in [Controllers -> Works]
      /\ work[c] \in [pc : Pcs, key : Keys \cup {None}, obj : Objects \cup {Absent},
                      phase : Phases, nodes : SUBSET Nodes, path : Workspaces \cup {None}]
  BY DEF TypeOK, Works
<1>2. ASSUME Observe(c)
      PROVE  /\ work'[c].pc \in {"calico", "patch"}
             /\ work'[c].pc = "patch" => work'[c].phase # "Ready"
  <2> DEFINE k == work[c].key
             phase == ReportedPhase(c, k)
             pc == IF kubeconfig[k] THEN "calico" ELSE "patch"
  <2>1. work' = [work EXCEPT ![c].pc = pc, ![c].phase = phase]
    BY <1>2 DEF Observe
  <2>2. pc \in {"calico", "patch"} /\ (pc = "patch" => phase # "Ready")
    BY DEF ReportedPhase
  <2> HIDE DEF pc, phase
  <2>3. work'[c].pc = pc /\ work'[c].phase = phase
    BY <1>1, <2>1
  <2> QED
    BY <2>2, <2>3
<1>3. ASSUME ListNodes(c) \/ UpdateNode(c), work'[c].pc = "patch"
      PROVE  work'[c].phase # "Ready"
  <2> DEFINE after == AfterNodes(c)
  <2>1. \E pc \in {after, "taint"} : \E x :
           work' = [work EXCEPT ![c].pc = pc, ![c].nodes = x]
    BY <1>3 DEF ListNodes, UpdateNode
  <2>2. after = "patch" => work[c].phase # "Ready"
    BY DEF AfterNodes
  <2> HIDE DEF after
  <2>3. PICK pc \in {after, "taint"} : \E x :
           work' = [work EXCEPT ![c].pc = pc, ![c].nodes = x]
    BY <2>1
  <2>4. PICK x : work' = [work EXCEPT ![c].pc = pc, ![c].nodes = x]
    BY <2>3
  <2>5. work'[c].pc = pc /\ work'[c].phase = work[c].phase
    BY <1>1, <2>4
  <2> QED
    BY <1>3, <2>2, <2>5
<1> QED
  BY <1>2, <1>3

\* How the Clusters, their status and the workload clusters change.
LEMMA PlatformSteps ==
    ASSUME [Next]_vars
    PROVE  \/ UNCHANGED platform
           \/ \E c \in Controllers : InstallCalico(c) \/ InstallCalicoPartly(c)
                                       \/ UpdateNode(c) \/ PatchStatus(c)
           \/ \E k \in Keys : CreateCluster(k) \/ DeleteCluster(k) \/ ProgressCluster(k)
                                \/ IssueKubeconfig(k) \/ TurnWorkload(k)
                                \/ ChangeTaint(k)
<1>1. ASSUME NEW c \in Controllers, Reconcile(c) \/ Fail(c) \/ Informer(c)
      PROVE  \/ UNCHANGED platform
             \/ InstallCalico(c) \/ InstallCalicoPartly(c)
             \/ UpdateNode(c) \/ PatchStatus(c)
  BY <1>1 DEF Reconcile, Enter, AddFinalizer, Observe, ListNodes,
       LookupWorkspace, GetMounted, CreateMounted, LookupWorkspaceForDelete,
       DeleteMounted, RemoveFinalizer, Refuse, Fail, Informer, SyncObject,
       SyncCluster
<1>2. ASSUME NEW k \in Keys, Platform(k)
      PROVE  \/ UNCHANGED platform
             \/ CreateCluster(k) \/ DeleteCluster(k) \/ ProgressCluster(k)
             \/ IssueKubeconfig(k) \/ TurnWorkload(k) \/ ChangeTaint(k)
  BY <1>2 DEF Platform, CreateObject, DeleteObject, PurgeObject
<1>3. ASSUME NEW cl \in Clusters, Tenant(cl) PROVE UNCHANGED platform
  BY <1>3 DEF Tenant, TenantCreatesChild, TenantDeletesChild, DeleteTenant,
       CreateTenant
<1>4. CASE UNCHANGED vars
  BY <1>4 DEF vars
<1> QED
  BY <1>1, <1>2, <1>3, <1>4 DEF Next

\* A prepared workload cluster stays so until its Cluster is deleted, which
\* happens to the Cluster of a deleted object only.
LEMMA PreparedStep ==
    ASSUME TypeOK, [Next]_vars, NEW k \in Keys, Prepared(k)
    PROVE  Prepared(k)' \/ Gone(k)'
<1>1. /\ kubeconfig \in [Keys -> BOOLEAN]
      /\ workload \in [Keys -> Workloads]
      /\ cluster \in [Keys -> CAPI \cup {Absent}]
  BY DEF TypeOK
<1>2. CASE UNCHANGED platform
  BY <1>2 DEF platform, Prepared
<1>3. ASSUME NEW c \in Controllers, InstallCalico(c) \/ InstallCalicoPartly(c)
      PROVE  Prepared(k)'
  BY <1>1, <1>3 DEF InstallCalico, InstallCalicoPartly, Workloads, Prepared
<1>4. ASSUME NEW c \in Controllers, UpdateNode(c)
      PROVE  Prepared(k)'
  <2>1. \E j, x : workload' = [workload EXCEPT ![j].tainted = x]
    <3>1. PICK n : workload' = [workload EXCEPT ![work[c].key].tainted =
              IF AllowScheduling[work[c].key] THEN @ \ {n} ELSE @ \cup {n}]
      BY <1>4 DEF UpdateNode
    <3> DEFINE j == work[c].key
               x == IF AllowScheduling[j] THEN workload[j].tainted \ {n}
                    ELSE workload[j].tainted \cup {n}
    <3>2. workload' = [workload EXCEPT ![j].tainted = x]
      BY <3>1
    <3> QED
      BY <3>2
  <2> QED
    BY <1>1, <1>4, <2>1 DEF UpdateNode, Prepared
<1>5. ASSUME NEW c \in Controllers, PatchStatus(c)
      PROVE  Prepared(k)'
  BY <1>5 DEF PatchStatus, Prepared
<1>6. ASSUME NEW j \in Keys, CreateCluster(j) \/ ProgressCluster(j) \/ IssueKubeconfig(j)
      PROVE  Prepared(k)'
  BY <1>1, <1>6 DEF CreateCluster, ProgressCluster, IssueKubeconfig, Prepared
<1>9. ASSUME NEW j \in Keys, TurnWorkload(j)
      PROVE  Prepared(k)'
  BY <1>1, <1>9 DEF TurnWorkload, Workloads, Prepared
<1>7. ASSUME NEW j \in Keys, ChangeTaint(j)
      PROVE  Prepared(k)'
  <2>1. PICK n : workload' = [workload EXCEPT ![j].tainted =
            IF n \in @ THEN @ \ {n} ELSE @ \cup {n}]
    BY <1>7 DEF ChangeTaint
  <2> DEFINE x == IF n \in workload[j].tainted THEN workload[j].tainted \ {n}
                  ELSE workload[j].tainted \cup {n}
  <2>2. workload' = [workload EXCEPT ![j].tainted = x]
    BY <2>1
  <2> HIDE DEF x
  <2> QED
    BY <1>1, <1>7, <2>2 DEF ChangeTaint, Prepared
<1>8. ASSUME NEW j \in Keys, DeleteCluster(j)
      PROVE  Prepared(k)' \/ Gone(k)'
  BY <1>1, <1>8 DEF DeleteCluster, Prepared, Gone
<1> QED
  BY <1>2, <1>3, <1>4, <1>5, <1>6, <1>7, <1>8, <1>9, PlatformSteps

\* A Cluster that is published Ready after a step was so before, or is patched
\* in the step by a reconcile that goes to publish it; no step publishes a
\* status for a Cluster that is not there.
LEMMA StatusStep ==
    ASSUME TypeOK, [Next]_vars, NEW k \in Keys, cluster'[k] # Absent
    PROVE  \/ cluster[k] # Absent /\ cluster'[k].status = cluster[k].status
           \/ /\ cluster[k] = Absent /\ ~objects[k].deleting
              /\ cluster'[k].status = "Unset"
           \/ /\ cluster[k] # Absent
              /\ \E c \in Controllers :
                    /\ PatchStatus(c) /\ work[c].key = k
                    /\ cluster'[k].status = work[c].phase
<1>1. cluster \in [Keys -> CAPI \cup {Absent}]
  BY DEF TypeOK
<1>2. CASE UNCHANGED cluster
  BY <1>2
<1>3. ASSUME NEW c \in Controllers, PatchStatus(c)
      PROVE  \/ cluster[k] # Absent /\ cluster'[k].status = cluster[k].status
             \/ /\ cluster[k] # Absent /\ work[c].key = k
                /\ cluster'[k].status = work[c].phase
  <2>1. \/ cluster' = cluster
        \/ /\ cluster[work[c].key] # Absent
           /\ cluster' = [cluster EXCEPT ![work[c].key].status = work[c].phase]
    BY <1>3 DEF PatchStatus
  <2> QED
    BY <1>1, <2>1 DEF CAPI
<1>4. ASSUME NEW j \in Keys, CreateCluster(j)
      PROVE  \/ cluster[k] # Absent /\ cluster'[k].status = cluster[k].status
             \/ /\ cluster[k] = Absent /\ ~objects[k].deleting
                /\ cluster'[k].status = "Unset"
  BY <1>1, <1>4 DEF CreateCluster
<1>5. ASSUME NEW j \in Keys, DeleteCluster(j) \/ ProgressCluster(j)
      PROVE  cluster[k] # Absent /\ cluster'[k].status = cluster[k].status
  BY <1>1, <1>5 DEF DeleteCluster, ProgressCluster, CAPI
<1>6. ASSUME NEW c \in Controllers,
             InstallCalico(c) \/ InstallCalicoPartly(c) \/ UpdateNode(c)
      PROVE  UNCHANGED cluster
  BY <1>6 DEF InstallCalico, InstallCalicoPartly, UpdateNode
<1>7. ASSUME NEW j \in Keys, IssueKubeconfig(j) \/ TurnWorkload(j) \/ ChangeTaint(j)
      PROVE  UNCHANGED cluster
  BY <1>7 DEF IssueKubeconfig, TurnWorkload, ChangeTaint
<1> QED
  BY <1>2, <1>3, <1>4, <1>5, <1>6, <1>7, PlatformSteps DEF platform

\* An object that carries the finalizer keeps what is true of its Cluster: the
\* Cluster of one that is deleted is not created again.
LEMMA GoneStep ==
    ASSUME TypeOK, [Next]_vars, NEW k \in Keys, Guarded(k), Gone(k)
    PROVE  Gone(k)'
<1>1. objects'[k].deleting
  BY ObjectStep DEF Guarded, Gone
<1>2. cluster'[k] = Absent
  BY StatusStep DEF Gone
<1> QED
  BY <1>1, <1>2 DEF Gone

\* The reconcile of a controller gets past the installation of Calico by
\* installing it, and stays there on the same object.
LEMMA MayPublishStep ==
    ASSUME TypeOK, [Next]_vars, NEW c \in Controllers, MayPublishReady(c)'
    PROVE  /\ work'[c].key = work[c].key
           /\ \/ MayPublishReady(c)
              \/ InstallCalico(c)
<1>1. work'[c].pc \in {"schedule", "taint", "lookup", "get", "create", "patch"}
  BY DEF MayPublishReady
<1>2. CASE work'[c] = work[c]
  BY <1>2 DEF MayPublishReady
<1>3. CASE LookupWorkspace(c)
  BY <1>3, LookupStep DEF LookupWorkspace, At, MayPublishReady
<1>4. CASE /\ work'[c].key = work[c].key
           /\ \/ Observe(c) \/ InstallCalico(c) \/ ListNodes(c)
              \/ UpdateNode(c) \/ GetMounted(c) \/ CreateMounted(c)
  <2>1. ~Observe(c)
    BY PhaseStep DEF MayPublishReady
  <2> QED
    BY <1>4, <2>1 DEF ListNodes, UpdateNode, GetMounted, CreateMounted, At,
                      MayPublishReady
<1>5. \A k \in Keys : ~Enter(c, k)
  BY <1>1, EnterStep
<1>6. ~AddFinalizer(c) /\ ~LookupWorkspaceForDelete(c) /\ ~DeleteMounted(c)
  BY <1>1, AddFinalizerStep, LookupForDeleteStep, GotoKeeps DEF DeleteMounted
<1> QED
  BY <1>1, <1>2, <1>3, <1>4, <1>5, <1>6, WorkStep

\* PreparedInv is inductive: the object of the reconcile keeps its finalizer.
LEMMA PreparedInvStep ==
    ASSUME TypeOK, ApplyInv, PreparedInv, [Next]_vars
    PROVE  PreparedInv'
<1> SUFFICES ASSUME NEW c \in Controllers, MayPublishReady(c)',
                    NEW k, k = work[c].key
             PROVE  k \in Keys /\ (Prepared(k)' \/ Gone(k)')
  BY MayPublishStep DEF PreparedInv, Prepared, Gone
<1>1. CASE MayPublishReady(c)
  <2>1. k \in Keys /\ (Prepared(k) \/ Gone(k))
    BY <1>1 DEF PreparedInv
  <2>2. Guarded(k)
    BY <1>1 DEF MayPublishReady, ApplyInv, ApplyPcs, Guarded
  <2> QED
    BY <2>1, <2>2, PreparedStep, GoneStep
<1>2. CASE InstallCalico(c)
  <2>1. k \in Keys
    BY <1>2 DEF InstallCalico, At, ApplyInv, ApplyPcs
  <2> QED
    BY <1>2, <2>1 DEF InstallCalico, Answers, TypeOK, Workloads, Prepared
<1> QED
  BY <1>1, <1>2, MayPublishStep

\* ReadyIsPrepared is inductive with it.
LEMMA ReadyStep ==
    ASSUME TypeOK, PreparedInv, ReadyIsPrepared, [Next]_vars
    PROVE  ReadyIsPrepared'
<1> SUFFICES ASSUME NEW k \in Keys, cluster'[k] # Absent, cluster'[k].status = "Ready"
             PROVE  Prepared(k)'
  BY DEF ReadyIsPrepared, Prepared
<1>1. Prepared(k) => Prepared(k)'
  BY PreparedStep DEF Gone
<1>2. CASE cluster[k] # Absent /\ cluster[k].status = "Ready"
  BY <1>1, <1>2 DEF ReadyIsPrepared, Prepared
<1>3. ASSUME NEW c \in Controllers, PatchStatus(c), work[c].key = k,
             work[c].phase = "Ready", cluster[k] # Absent
      PROVE  Prepared(k)
  BY <1>3 DEF PatchStatus, At, PreparedInv, MayPublishReady, Gone
<1> QED
  BY <1>1, <1>2, <1>3, StatusStep

\* What ReadyIsPrepared needs: the objects of the reconciles, and their Clusters,
\* cannot go and come back while the reconciles run.
ReadyInv ==
    /\ TypeOK
    /\ VersionsInv /\ SeenGuardedInv /\ ApplyInv /\ DeleteInv
    /\ PreparedInv /\ ReadyIsPrepared

\* Ready means prepared: with one controller process, a Cluster that is
\* published Ready has a kubeconfig, and Calico is installed in its workload
\* cluster, whatever the informers showed, whichever calls failed, and however
\* often names and objects are used again.
THEOREM ReadyMeansPrepared ==
    ASSUME OneController
    PROVE  Spec => []ReadyIsPrepared
<1>1. Init => ReadyInv
  <2> SUFFICES ASSUME Init PROVE ReadyInv
    OBVIOUS
  <2>1. IInv
    BY InitInv
  <2>2. PreparedInv
    BY DEF Init, Idle, PreparedInv, MayPublishReady
  <2>3. ReadyIsPrepared
    BY DEF Init, ReadyIsPrepared
  <2> QED
    BY <2>1, <2>2, <2>3 DEF IInv, ReadyInv
<1>2. ReadyInv /\ [Next]_vars => ReadyInv'
  <2> SUFFICES ASSUME ReadyInv, [Next]_vars PROVE ReadyInv'
    OBVIOUS
  <2>1. TypeOK' /\ VersionsInv' /\ DeleteInv'
    BY TypeStep, VersionsStep, DeleteStep DEF ReadyInv
  <2>2. SeenGuardedInv' /\ ApplyInv'
    BY SeenGuardedStep, ApplyStep DEF ReadyInv
  <2>3. PreparedInv' /\ ReadyIsPrepared'
    BY PreparedInvStep, ReadyStep DEF ReadyInv
  <2> QED
    BY <2>1, <2>2, <2>3 DEF ReadyInv
<1>3. ReadyInv => ReadyIsPrepared
  BY DEF ReadyInv
<1> QED
  BY <1>1, <1>2, <1>3, PTL DEF Spec

(***************************************************************************)
(* A deletion by name.  It may meet a workspace that is not the object's:   *)
(* one that the tenant created by the name, or the mount of an object whose *)
(* name is the same.  It meets nothing else, for any number of controllers, *)
(* and however often names are used again.                                 *)
(***************************************************************************)

\* The child workspace n of cl is the mount of object j, in a logical cluster
\* that the workspace of j's tenant has, or had.
MountOf(j, cl, n) ==
    /\ children[cl][n] = Ref(j) /\ MountedWorkspace(j) = n
    /\ workspace[LogicalCluster[j]] = workspace[cl]

\* Every child workspace that mounts something mounts an object by its name, in
\* the workspace of the object's tenant.
PlacesInv ==
    \A cl \in Clusters, n \in ChildNames :
        children[cl][n] \notin {None, Plain} =>
            workspace[cl] # None /\ \E j \in Keys : MountOf(j, cl, n)

\* PlacesInv is inductive: a mount is created where the path leads that was
\* resolved for its object, and logical clusters do not move.
LEMMA PlacesStep ==
    ASSUME TypeOK, RoutesInv, PlacesInv, [Next]_vars
    PROVE  PlacesInv'
<1> SUFFICES ASSUME NEW cl \in Clusters, NEW n \in ChildNames,
                    children'[cl][n] \notin {None, Plain}
             PROVE  workspace'[cl] # None /\ \E j \in Keys : MountOf(j, cl, n)'
  BY DEF PlacesInv
<1>1. /\ children \in [Clusters -> [ChildNames -> Refs \cup {None, Plain}]]
      /\ live \subseteq Clusters
      /\ \A j \in Keys : LogicalCluster[j] \in Clusters
      /\ \A a \in Clusters : workspace[a] # None => workspace'[a] = workspace[a]
  BY RoutesStep, ConstantTypes DEF TypeOK
<1>2. CASE children'[cl][n] = children[cl][n]
  <2>1. PICK j \in Keys : workspace[cl] # None /\ MountOf(j, cl, n)
    BY <1>2 DEF PlacesInv
  <2>2. /\ workspace'[cl] = workspace[cl]
        /\ workspace'[LogicalCluster[j]] = workspace[LogicalCluster[j]]
    BY <1>1, <2>1 DEF MountOf
  <2> QED
    BY <1>2, <2>1, <2>2 DEF MountOf
<1>3. ASSUME NEW c \in Controllers, CreateMounted(c),
             children'[cl][n] # children[cl][n]
      PROVE  workspace'[cl] # None /\ \E j \in Keys : MountOf(j, cl, n)'
  <2>0. PICK j \in Keys : j = work[c].key
    BY <1>3, CreateStep
  <2>1. /\ work[c].pc = "create"
        /\ UNCHANGED <<workspace, live>>
        /\ workspace[cl] = work[c].path
        /\ n = MountedWorkspace(j) /\ children'[cl][n] = Ref(j)
    BY <1>3, <2>0, CreateStep
  <2>2. workspace[cl] # None /\ workspace[LogicalCluster[j]] = workspace[cl]
    BY <2>0, <2>1 DEF RoutesInv
  <2>3. MountOf(j, cl, n)'
    BY <2>1, <2>2 DEF MountOf
  <2> QED
    BY <2>1, <2>2, <2>3
<1>4. ASSUME NEW a \in Clusters, NEW m \in ChildNames, TenantCreatesChild(a, m)
      PROVE  children'[cl][n] \in {children[cl][n], Plain}
  BY <1>1, <1>4 DEF TenantCreatesChild
<1> QED
  BY <1>2, <1>3, <1>4, ChildrenStep

\* The step that ends the deletion of a mounted workspace is DeleteMounted, or
\* leaves the children alone.
LEMMA DeletionStep ==
    ASSUME TypeOK, [Next]_vars, NEW c \in Controllers,
           work[c].pc = "delete", work'[c].pc # "delete"
    PROVE  DeleteMounted(c) \/ UNCHANGED children
<1>1. work \in [Controllers -> Works]
  BY DEF TypeOK
<1>2. ASSUME NEW d \in Controllers, Reconcile(d) \/ Fail(d), d # c
      PROVE  work'[c] = work[c]
  BY <1>1, <1>2 DEF Reconcile, Enter, AddFinalizer, Observe, InstallCalico,
       InstallCalicoPartly, ListNodes, UpdateNode, LookupWorkspace,
       GetMounted, CreateMounted, PatchStatus, LookupWorkspaceForDelete,
       DeleteMounted, RemoveFinalizer, Refuse, Fail, Goto, Return
<1>3. ASSUME Reconcile(c) \/ Fail(c)
      PROVE  DeleteMounted(c) \/ UNCHANGED children
  BY <1>3 DEF Reconcile, Enter, AddFinalizer, Observe, InstallCalico,
       InstallCalicoPartly, ListNodes, UpdateNode, LookupWorkspace,
       GetMounted, CreateMounted, PatchStatus, LookupWorkspaceForDelete,
       RemoveFinalizer, Refuse, Fail, At, tenants
<1>4. ASSUME NEW d \in Controllers, Informer(d) PROVE work' = work
  BY <1>4 DEF Informer, SyncObject, SyncCluster
<1>5. ASSUME NEW k \in Keys, Platform(k) PROVE work' = work
  BY <1>5 DEF Platform, CreateObject, DeleteObject, PurgeObject, CreateCluster,
       DeleteCluster, ProgressCluster, IssueKubeconfig, TurnWorkload, ChangeTaint
<1>6. ASSUME NEW cl \in Clusters, Tenant(cl) PROVE work' = work
  BY <1>6 DEF Tenant, TenantCreatesChild, TenantDeletesChild, DeleteTenant,
       CreateTenant
<1>7. CASE UNCHANGED vars
  BY <1>7 DEF vars
<1> QED
  BY <1>2, <1>3, <1>4, <1>5, <1>6, <1>7 DEF Next

\* What a deletion for object k may remove: the child workspace by k's name in
\* the workspace of k's tenant, if it is the tenant's own, or the mount of an
\* object, k or another, with the same name and tenant.
MayBeDeletedFor(k, cl, n) ==
    /\ n = MountedWorkspace(k) /\ workspace[cl] = workspace[LogicalCluster[k]]
    /\ children[cl][n] = Plain \/ \E j \in Keys : MountOf(j, cl, n)

\* What DeleteMounted removes.
LEMMA DeletesByName ==
    ASSUME TypeOK, RoutesInv, PlacesInv, NEW c \in Controllers,
           DeleteMounted(c), NEW cl \in Clusters, NEW n \in ChildNames,
           children'[cl][n] # children[cl][n]
    PROVE  MayBeDeletedFor(work[c].key, cl, n)
<1> DEFINE m == MountedWorkspace(work[c].key)
<1>1. /\ children \in [Clusters -> [ChildNames -> Refs \cup {None, Plain}]]
      /\ work[c].pc = "delete"
      /\ children' = [a \in Clusters |-> IF a \in Reached(work[c].path)
                         THEN [children[a] EXCEPT ![m] = None]
                         ELSE children[a]]
  BY DEF TypeOK, DeleteMounted, At
<1>2. cl \in Reached(work[c].path) /\ n = m /\ children[cl][n] # None
  <2> HIDE DEF m
  <2> QED
    BY <1>1
<1>3. workspace[cl] = workspace[LogicalCluster[work[c].key]]
  BY <1>1, <1>2 DEF Reached, RoutesInv
<1> QED
  BY <1>2, <1>3 DEF PlacesInv, MayBeDeletedFor

\* A deletion stays within its name and tenant: whatever the controllers, the
\* tenants and the names, a step that ends the deletion of a mounted workspace
\* removes nothing but what goes by the object's name in the workspace of its
\* tenant, and of the mounts only those of objects with that name and tenant.
THEOREM DeletesWithinNameAndTenant ==
    Spec => [][\A c \in Controllers : At(c, "delete") /\ ~At(c, "delete")' =>
                \A cl \in Clusters, n \in ChildNames :
                    children'[cl][n] # children[cl][n] =>
                        MayBeDeletedFor(work[c].key, cl, n)]_vars
<1> DEFINE Inv == TypeOK /\ RoutesInv /\ PlacesInv
<1>1. Init => Inv
  <2> SUFFICES ASSUME Init PROVE Inv
    OBVIOUS
  <2>1. TypeOK /\ RoutesInv
    BY InitInv DEF IInv, PathsInv
  <2>2. PlacesInv
    BY DEF Init, PlacesInv
  <2> QED
    BY <2>1, <2>2
<1>2. Inv /\ [Next]_vars => Inv'
  BY TypeStep, RoutesStep, PlacesStep
<1>3. Inv /\ [Next]_vars =>
         [\A c \in Controllers : At(c, "delete") /\ ~At(c, "delete")' =>
            \A cl \in Clusters, n \in ChildNames :
                children'[cl][n] # children[cl][n] =>
                    MayBeDeletedFor(work[c].key, cl, n)]_vars
  <2> SUFFICES ASSUME Inv, [Next]_vars, NEW c \in Controllers,
                      At(c, "delete"), ~At(c, "delete")',
                      NEW cl \in Clusters, NEW n \in ChildNames,
                      children'[cl][n] # children[cl][n]
               PROVE  MayBeDeletedFor(work[c].key, cl, n)
    OBVIOUS
  <2>1. DeleteMounted(c)
    BY DeletionStep DEF At
  <2> QED
    BY <2>1, DeletesByName
<1> HIDE DEF Inv
<1> QED
  BY <1>1, <1>2, <1>3, PTL DEF Spec

=============================================================================
