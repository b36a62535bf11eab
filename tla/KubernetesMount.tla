-------------------------- MODULE KubernetesMount --------------------------
(***************************************************************************)
(* The kubernetes-controller (internal/controller/kubernetes/controller.go)*)
(*                                                                         *)
(* The controller watches the Kubernetes objects that the API Sync Agent   *)
(* mirrors from the tenants' logical clusters.  For each object it holds a *)
(* finalizer, prepares the CAPI workload cluster (Calico, control-plane    *)
(* taints), creates a mounted child workspace in the tenant's workspace    *)
(* and publishes a status through an annotation of the CAPI Cluster; on    *)
(* deletion it removes the child workspace and then the finalizer.         *)
(*                                                                         *)
(* A reconcile is a sequence of remote calls, and each call is one action: *)
(* anything can happen between two of them, and each of them may fail      *)
(* (actions Refuse and Fail), which ends it; the work queue retries it.    *)
(* Objects and Clusters are read from informer caches that lag behind the  *)
(* API server.                                                             *)
(***************************************************************************)
EXTENDS Naturals, FiniteSets

CONSTANTS
    Controllers,      \* controller processes (two overlap during a rollout)
    Keys,             \* Kubernetes objects of the service cluster
    Clusters,         \* kcp logical clusters; one per incarnation of a tenant
    Workspaces,       \* names of the tenant workspaces under root:consumers
    Home,             \* Home[cl]: workspace of the clusters that exist initially
    LogicalCluster,   \* LogicalCluster[k]: the namespace of k names its tenant
    RemoteName,       \* RemoteName[k]: name of the object in the tenant cluster
    RemoteNamespace,  \* RemoteNamespace[k]: its namespace in the tenant cluster
    Hashed,           \* Hashed[ns, n]: n, a dash and the digest of ns/n
    ChildNames,       \* names of child workspaces
    TenantNames,      \* child workspaces tenants create on their own
    AllowScheduling,  \* AllowScheduling[k]: spec.allowSchedulingOnControlPlanes
    Nodes,            \* control-plane nodes of a workload cluster
    ReuseNames,       \* may a tenant workspace name be used a second time?
    MaxUid,           \* bound: incarnations of an object
    Absent,           \* what is read of an object that does not exist
    None,             \* no workspace, no logical cluster
    Plain             \* a child workspace that mounts nothing

Ref(k) == [name |-> RemoteName[k], namespace |-> RemoteNamespace[k]]
Refs == {Ref(k) : k \in Keys}

\* Faulty variant of MountedWorkspace: the namespace is left out of the name.
UnhashedWorkspace(k) == RemoteName[k]

\* The name of the mounted workspace: the remote name, made unique with a
\* digest of the namespace unless that is "default".
MountedWorkspace(k) ==
    IF RemoteNamespace[k] = "default"
    THEN RemoteName[k]
    ELSE Hashed[RemoteNamespace[k], RemoteName[k]]

Phases  == {"Initializing", "Connecting", "Ready"}
Stages  == {"New", "Provisioning", "Available"}
Objects == [uid : 1..MaxUid, deleting : BOOLEAN, finalizer : BOOLEAN]
CAPI    == [stage : Stages, status : Phases \cup {"Unset"}]
Workloads == [up : BOOLEAN, cni : {"Missing", "Partial", "Installed"},
              tainted : SUBSET Nodes]
ApplyPcs  == {"guard", "observe", "calico", "schedule", "taint", "lookup", "get",
              "create", "patch"}
DeletePcs == {"lookupDelete", "delete", "release"}
Pcs       == {"idle"} \cup ApplyPcs \cup DeletePcs

ASSUME ConstantTypes ==
    /\ LogicalCluster \in [Keys -> Clusters]
    /\ Home \in [Clusters -> Workspaces \cup {None}]
    /\ AllowScheduling \in [Keys -> BOOLEAN]
    /\ ReuseNames \in BOOLEAN
    /\ TenantNames \subseteq ChildNames
    /\ MaxUid \in Nat
    /\ None \notin Workspaces \cup Clusters \cup Controllers \cup Keys
    /\ None # Plain /\ None \notin Refs /\ Plain \notin Refs
    /\ Absent \notin Objects \cup CAPI

\* At most one logical cluster per tenant workspace at a time.
ASSUME HomeInjective ==
    \A a, b \in Clusters : Home[a] = Home[b] /\ Home[a] # None => a = b

\* The sync agent mirrors an object of a logical cluster to one key.
ASSUME RefsIdentify ==
    \A j, k \in Keys :
        LogicalCluster[j] = LogicalCluster[k] /\ Ref(j) = Ref(k) => j = k

ASSUME NamesAreChildNames == \A k \in Keys : MountedWorkspace(k) \in ChildNames

VARIABLES
    objects,       \* the Kubernetes objects in the API server
    uids,          \* uids[k]: how often k has been created
    objectCache,   \* objectCache[c][k]: the informer copy of controller c
    cluster,       \* the CAPI Clusters, with the published status annotation
    clusterCache,  \* clusterCache[c][k]: the informer copy of controller c
    kubeconfig,    \* kubeconfig[k]: does the <k>-kubeconfig secret exist?
    workload,      \* the workload cluster behind the kubeconfig
    workspace,     \* workspace[cl]: tenant workspace cl was created for, for good
    live,          \* logical clusters that exist
    children,      \* children[cl][n]: the child workspace n of cl
    work           \* work[c]: the reconcile that controller c runs

platform == <<cluster, kubeconfig, workload>>
caches   == <<objectCache, clusterCache>>
tenants  == <<workspace, live, children>>
vars     == <<objects, uids, caches, platform, tenants, work>>

Idle == [pc |-> "idle", key |-> None, obj |-> Absent, phase |-> "Initializing",
         nodes |-> {}, path |-> None]

\* up: the API server of the workload cluster can be reached.
Bare == [up |-> FALSE, cni |-> "Missing", tainted |-> Nodes]

-----------------------------------------------------------------------------
Init ==
    /\ objects = [k \in Keys |-> Absent]
    /\ uids = [k \in Keys |-> 0]
    /\ objectCache = [c \in Controllers |-> [k \in Keys |-> Absent]]
    /\ cluster = [k \in Keys |-> Absent]
    /\ clusterCache = [c \in Controllers |-> [k \in Keys |-> Absent]]
    /\ kubeconfig = [k \in Keys |-> FALSE]
    /\ workload = [k \in Keys |-> Bare]
    /\ workspace = Home
    /\ live = {cl \in Clusters : Home[cl] # None}
    /\ children = [cl \in Clusters |-> [n \in ChildNames |-> None]]
    /\ work = [c \in Controllers |-> Idle]

At(c, pc)    == work[c].pc = pc
Goto(c, pc)  == work' = [work EXCEPT ![c].pc = pc]
Return(c)    == work' = [work EXCEPT ![c] = Idle]

\* The logical clusters a request to a workspace path reaches now.
Reached(path) == {cl \in live : workspace[cl] = path}

\* A request made with the kubeconfig of the workload cluster is answered.
Answers(k) == kubeconfig[k] /\ workload[k].up

-----------------------------------------------------------------------------
(* The reconcile of a live object.                                         *)

\* Reconcile reads the object from the cache and branches on it.
Enter(c, k) ==
    LET obj == objectCache[c][k]
        Start(pc) == work' = [work EXCEPT ![c] =
                        [Idle EXCEPT !.pc = pc, !.key = k, !.obj = obj]]
    IN  /\ At(c, "idle")
        /\ obj # Absent
        /\ \/ obj.deleting /\ obj.finalizer /\ Start("lookupDelete")
           \/ ~obj.deleting /\ obj.finalizer /\ Start("observe")
           \/ ~obj.deleting /\ ~obj.finalizer /\ Start("guard")
        /\ UNCHANGED <<objects, uids, caches, platform, tenants>>

\* An Update carries the resource version of the object it was made from, so
\* it succeeds only if the object is still that one.
Update(c, obj) ==
    /\ objects[work[c].key] = work[c].obj
    /\ objects' = [objects EXCEPT ![work[c].key] = obj]

\* Faulty variant of AddFinalizer: the object in memory is not written back.
AddFinalizerInMemory(c) ==
    /\ At(c, "guard")
    /\ work' = [work EXCEPT ![c].pc = "observe", ![c].obj.finalizer = TRUE]
    /\ UNCHANGED <<objects, uids, caches, platform, tenants>>

AddFinalizer(c) ==
    LET obj == [work[c].obj EXCEPT !.finalizer = TRUE]
    IN  /\ At(c, "guard")
        /\ Update(c, obj)
        /\ work' = [work EXCEPT ![c].pc = "observe", ![c].obj = obj]
        /\ UNCHANGED <<uids, caches, platform, tenants>>

\* Faulty variant of ReportedPhase: the phase of the Cluster as it is.
RawPhase(c, k) ==
    IF clusterCache[c][k] = Absent THEN "Initializing" ELSE clusterCache[c][k].stage

\* workloadClusterPhase, clusterKubeconfigExists and the phase they give.
ReportedPhase(c, k) ==
    LET seen == clusterCache[c][k]
    IN  CASE seen = Absent -> "Initializing"
          [] seen # Absent /\ seen.stage = "New" -> "Initializing"
          [] seen # Absent /\ seen.stage = "Provisioning" -> "Connecting"
          [] OTHER -> IF kubeconfig[k] THEN "Ready" ELSE "Connecting"

Observe(c) ==
    /\ At(c, "observe")
    /\ work' = [work EXCEPT
            ![c].pc = IF kubeconfig[work[c].key] THEN "calico" ELSE "patch",
            ![c].phase = ReportedPhase(c, work[c].key)]
    /\ UNCHANGED <<objects, uids, caches, platform, tenants>>

\* ensureCalicoInstalled applies the manifest document by document ...
InstallCalico(c) ==
    /\ At(c, "calico")
    /\ Answers(work[c].key)
    /\ workload' = [workload EXCEPT ![work[c].key].cni = "Installed"]
    /\ Goto(c, "schedule")
    /\ UNCHANGED <<objects, uids, caches, cluster, kubeconfig, tenants>>

\* Faulty variant of InstallCalicoPartly: a document that fails is skipped.
InstallCalicoSkipping(c) ==
    /\ At(c, "calico")
    /\ Answers(work[c].key)
    /\ workload[work[c].key].cni = "Missing"
    /\ workload' = [workload EXCEPT ![work[c].key].cni = "Partial"]
    /\ Goto(c, "schedule")
    /\ UNCHANGED <<objects, uids, caches, cluster, kubeconfig, tenants>>

\* ... and may stop after some of them.
InstallCalicoPartly(c) ==
    /\ At(c, "calico")
    /\ Answers(work[c].key)
    /\ workload[work[c].key].cni = "Missing"
    /\ workload' = [workload EXCEPT ![work[c].key].cni = "Partial"]
    /\ Return(c)
    /\ UNCHANGED <<objects, uids, caches, cluster, kubeconfig, tenants>>

\* Faulty variant of NodesToChange: a node that is as it should be ends the loop.
NodesToChangeUntilOneIsRight(k) ==
    IF AllowScheduling[k]
    THEN IF workload[k].tainted = Nodes THEN Nodes ELSE {}
    ELSE IF workload[k].tainted = {} THEN Nodes ELSE {}

\* desiredControlPlaneTaints: the nodes whose NoSchedule taint is to be taken
\* away, or added.
NodesToChange(k) ==
    IF AllowScheduling[k] THEN workload[k].tainted ELSE Nodes \ workload[k].tainted

\* The step after the nodes.
AfterNodes(c) == IF work[c].phase = "Ready" THEN "lookup" ELSE "patch"

\* reconcileControlPlaneScheduling lists the nodes ...
ListNodes(c) ==
    LET nodes == NodesToChange(work[c].key)
    IN  /\ At(c, "schedule")
        /\ Answers(work[c].key)
        /\ work' = [work EXCEPT
                ![c].pc = IF nodes = {} THEN AfterNodes(c) ELSE "taint",
                ![c].nodes = nodes]
        /\ UNCHANGED <<objects, uids, caches, platform, tenants>>

\* ... and updates one after the other.  A node that has been changed since the
\* list is a conflict (Refuse), and the rest of them stay as they are.
UpdateNode(c) ==
    LET k == work[c].key
    IN  /\ At(c, "taint")
        /\ Answers(k)
        /\ \E n \in work[c].nodes \cap NodesToChange(k) :
              /\ workload' = [workload EXCEPT ![k].tainted =
                    IF AllowScheduling[k] THEN @ \ {n} ELSE @ \cup {n}]
              /\ work' = [work EXCEPT
                    ![c].pc = IF work[c].nodes = {n} THEN AfterNodes(c) ELSE "taint",
                    ![c].nodes = @ \ {n}]
        /\ UNCHANGED <<objects, uids, caches, cluster, kubeconfig, tenants>>

\* consumerWorkspacePathForCluster, in ensureMountedWorkspace; no workspace is
\* an error (Refuse).
LookupWorkspace(c) ==
    LET cl == LogicalCluster[work[c].key]
    IN  /\ At(c, "lookup")
        /\ cl \in live
        /\ work' = [work EXCEPT ![c].pc = "get", ![c].path = workspace[cl]]
        /\ UNCHANGED <<objects, uids, caches, platform, tenants>>

\* The child workspace is looked up by path and name.  One with another mount
\* reference, or without a mount, is an error (Refuse).
GetMounted(c) ==
    LET k == work[c].key
    IN  /\ At(c, "get")
        /\ \E cl \in Reached(work[c].path) :
              LET child == children[cl][MountedWorkspace(k)]
              IN  \/ child = Ref(k) /\ Goto(c, "patch")
                  \/ child = None /\ Goto(c, "create")
        /\ UNCHANGED <<objects, uids, caches, platform, tenants>>

\* AlreadyExists is taken for success, whoever created the workspace.
CreateMounted(c) ==
    LET k == work[c].key
        n == MountedWorkspace(k)
    IN  /\ At(c, "create")
        /\ \E cl \in Reached(work[c].path) :
              /\ children' = IF children[cl][n] = None
                             THEN [children EXCEPT ![cl][n] = Ref(k)]
                             ELSE children
        /\ Goto(c, "patch")
        /\ UNCHANGED <<objects, uids, caches, platform, workspace, live>>

\* Faulty variants of PublishedAlready: any annotation will do, and Ready is for
\* good.
PublishedSomething(c) ==
    LET seen == clusterCache[c][work[c].key]
    IN  IF seen = Absent THEN TRUE ELSE seen.status # "Unset"

PublishedReady(c) ==
    LET seen == clusterCache[c][work[c].key]
    IN  IF seen = Absent THEN TRUE ELSE seen.status \in {"Ready", work[c].phase}

\* patchStatusAnnotation: a merge patch without a resource version, skipped
\* when the cached copy is gone or already carries the annotation.
PublishedAlready(c) ==
    LET seen == clusterCache[c][work[c].key]
    IN  IF seen = Absent THEN TRUE ELSE seen.status = work[c].phase

PatchStatus(c) ==
    LET k == work[c].key
    IN  /\ At(c, "patch")
        /\ PublishedAlready(c) \/ cluster[k] # Absent
        /\ cluster' = IF PublishedAlready(c) THEN cluster
                      ELSE [cluster EXCEPT ![k].status = work[c].phase]
        /\ Return(c)
        /\ UNCHANGED <<objects, uids, caches, kubeconfig, workload, tenants>>

-----------------------------------------------------------------------------
(* The reconcile of an object under deletion.                              *)

\* Faulty variants of LookupWorkspaceForDelete: no workspace is an error, as it
\* is for a live object, and a Cluster that is gone is taken to mean that the
\* mounted workspace is.
LookupWorkspaceOrFail(c) ==
    /\ At(c, "lookupDelete")
    /\ LogicalCluster[work[c].key] \in live
    /\ work' = [work EXCEPT ![c].pc = "delete",
                            ![c].path = workspace[LogicalCluster[work[c].key]]]
    /\ UNCHANGED <<objects, uids, caches, platform, tenants>>

LookupWorkspaceOfCluster(c) ==
    LET k == work[c].key
        there == LogicalCluster[k] \in live /\ clusterCache[c][k] # Absent
    IN  /\ At(c, "lookupDelete")
        /\ work' = [work EXCEPT
                ![c].pc   = IF there THEN "delete" ELSE "release",
                ![c].path = IF there THEN workspace[LogicalCluster[k]] ELSE None]
        /\ UNCHANGED <<objects, uids, caches, platform, tenants>>

LookupWorkspaceForDelete(c) ==
    LET cl == LogicalCluster[work[c].key]
    IN  /\ At(c, "lookupDelete")
        /\ work' = [work EXCEPT
                ![c].pc   = IF cl \in live THEN "delete" ELSE "release",
                ![c].path = IF cl \in live THEN workspace[cl] ELSE None]
        /\ UNCHANGED <<objects, uids, caches, platform, tenants>>

\* Faulty variant of DeleteMounted: an error is taken for NotFound.
DeleteMountedOrNot(c) ==
    /\ At(c, "delete")
    /\ \/ UNCHANGED children
       \/ \E cl \in Reached(work[c].path) : children' =
             [children EXCEPT ![cl][MountedWorkspace(work[c].key)] = None]
    /\ Goto(c, "release")
    /\ UNCHANGED <<objects, uids, caches, platform, workspace, live>>

\* deleteMountedWorkspace deletes by path and name, whatever the workspace
\* mounts.  NotFound is success; so may be the answer for a path that is gone.
DeleteMounted(c) ==
    LET reached == Reached(work[c].path)
    IN  /\ At(c, "delete")
        /\ children' = [cl \in Clusters |-> IF cl \in reached
                THEN [children[cl] EXCEPT ![MountedWorkspace(work[c].key)] = None]
                ELSE children[cl]]
        /\ Goto(c, "release")
        /\ UNCHANGED <<objects, uids, caches, platform, workspace, live>>

RemoveFinalizer(c) ==
    /\ At(c, "release")
    /\ Update(c, [work[c].obj EXCEPT !.finalizer = FALSE])
    /\ Return(c)
    /\ UNCHANGED <<uids, caches, platform, tenants>>

-----------------------------------------------------------------------------
(* Early returns with an error; the work queue starts the reconcile again.  *)

\* The calls that cannot succeed in the state they meet: an Update made from
\* an old version, a workload cluster that is gone or does not answer, a tenant
\* workspace that is gone, a child workspace of that name that is not the object's, an
\* annotation for a Cluster that is gone.
Refused(c) ==
    LET k == work[c].key
    IN  \/ work[c].pc \in {"guard", "release"} /\ objects[k] # work[c].obj
        \/ work[c].pc \in {"calico", "schedule", "taint"} /\ ~Answers(k)
        \/ At(c, "taint") /\ ~(work[c].nodes \subseteq NodesToChange(k))
        \/ At(c, "lookup") /\ LogicalCluster[k] \notin live
        \/ /\ At(c, "get")
           /\ \A cl \in Reached(work[c].path) :
                 children[cl][MountedWorkspace(k)] \notin {None, Ref(k)}
        \/ work[c].pc \in {"create", "delete"} /\ Reached(work[c].path) = {}
        \/ /\ At(c, "patch")
           /\ ~PublishedAlready(c) /\ cluster[k] = Absent

Refuse(c) ==
    /\ Refused(c)
    /\ Return(c)
    /\ UNCHANGED <<objects, uids, caches, platform, tenants>>

\* Any other call may fail as well or its answer may be lost, another writer
\* may cause a conflict, and the process may stop: the reconcile ends.
Fail(c) ==
    /\ ~At(c, "idle") /\ ~Refused(c)
    /\ Return(c)
    /\ UNCHANGED <<objects, uids, caches, platform, tenants>>

-----------------------------------------------------------------------------
(* The informers.                                                          *)

SyncObject(c, k) ==
    /\ objectCache[c][k] # objects[k]
    /\ objectCache' = [objectCache EXCEPT ![c][k] = objects[k]]
    /\ UNCHANGED <<objects, uids, clusterCache, platform, tenants, work>>

SyncCluster(c, k) ==
    /\ clusterCache[c][k] # cluster[k]
    /\ clusterCache' = [clusterCache EXCEPT ![c][k] = cluster[k]]
    /\ UNCHANGED <<objects, uids, objectCache, platform, tenants, work>>

-----------------------------------------------------------------------------
(* Tenants, the API Sync Agent, kro, CAPI and the workload clusters, as the *)
(* controller depends on them.                                             *)

CreateObject(k) ==
    /\ objects[k] = Absent
    /\ LogicalCluster[k] \in live
    /\ uids[k] < MaxUid
    /\ uids' = [uids EXCEPT ![k] = @ + 1]
    /\ objects' = [objects EXCEPT ![k] =
            [uid |-> uids[k] + 1, deleting |-> FALSE, finalizer |-> FALSE]]
    /\ UNCHANGED <<caches, platform, tenants, work>>

DeleteObject(k) ==
    /\ objects[k] # Absent
    /\ ~objects[k].deleting
    /\ objects' = [objects EXCEPT ![k].deleting = TRUE]
    /\ UNCHANGED <<uids, caches, platform, tenants, work>>

\* The API server drops the object when no finalizer is left: this
\* controller's, and kro's, which waits for the Cluster to be gone.
PurgeObject(k) ==
    /\ objects[k] # Absent
    /\ objects[k].deleting /\ ~objects[k].finalizer
    /\ cluster[k] = Absent
    /\ objects' = [objects EXCEPT ![k] = Absent]
    /\ UNCHANGED <<uids, caches, platform, tenants, work>>

CreateCluster(k) ==
    /\ objects[k] # Absent
    /\ ~objects[k].deleting
    /\ cluster[k] = Absent
    /\ cluster' = [cluster EXCEPT ![k] = [stage |-> "New", status |-> "Unset"]]
    /\ UNCHANGED <<objects, uids, caches, kubeconfig, workload, tenants, work>>

DeleteCluster(k) ==
    /\ cluster[k] # Absent
    /\ objects[k] # Absent /\ objects[k].deleting
    /\ cluster' = [cluster EXCEPT ![k] = Absent]
    /\ kubeconfig' = [kubeconfig EXCEPT ![k] = FALSE]
    /\ workload' = [workload EXCEPT ![k] = Bare]
    /\ UNCHANGED <<objects, uids, caches, tenants, work>>

\* The Cluster moves between its stages; Available may be lost again.
ProgressCluster(k) ==
    /\ cluster[k] # Absent
    /\ \E s \in {"Provisioning", "Available"} :
          /\ cluster[k].stage # s
          /\ cluster' = [cluster EXCEPT ![k].stage = s]
    /\ UNCHANGED <<objects, uids, caches, kubeconfig, workload, tenants, work>>

IssueKubeconfig(k) ==
    /\ cluster[k] # Absent /\ ~kubeconfig[k]
    /\ kubeconfig' = [kubeconfig EXCEPT ![k] = TRUE]
    /\ UNCHANGED <<objects, uids, caches, cluster, workload, tenants, work>>

\* The API server of the workload cluster comes up, and may go away again.
TurnWorkload(k) ==
    /\ kubeconfig[k]
    /\ workload' = [workload EXCEPT ![k].up = ~@]
    /\ UNCHANGED <<objects, uids, caches, cluster, kubeconfig, tenants, work>>

\* kubeadm taints the control-plane nodes it adds, or puts in the place of one;
\* whoever has the kubeconfig may taint a node, or remove the taint.
ChangeTaint(k) ==
    /\ Answers(k)
    /\ \E n \in Nodes : workload' = [workload EXCEPT ![k].tainted =
            IF n \in @ THEN @ \ {n} ELSE @ \cup {n}]
    /\ UNCHANGED <<objects, uids, caches, cluster, kubeconfig, tenants, work>>

TenantCreatesChild(cl, n) ==
    /\ cl \in live /\ n \in TenantNames
    /\ children[cl][n] = None
    /\ children' = [children EXCEPT ![cl][n] = Plain]
    /\ UNCHANGED <<objects, uids, caches, platform, workspace, live, work>>

TenantDeletesChild(cl, n) ==
    /\ children[cl][n] # None
    /\ children' = [children EXCEPT ![cl][n] = None]
    /\ UNCHANGED <<objects, uids, caches, platform, workspace, live, work>>

\* DeleteWorkspace of the provisioner: the content of the cluster goes with it.
DeleteTenant(cl) ==
    /\ cl \in live
    /\ live' = live \ {cl}
    /\ children' = [children EXCEPT ![cl] = [n \in ChildNames |-> None]]
    /\ UNCHANGED <<objects, uids, caches, platform, workspace, work>>

\* ProvisionWorkspace: a workspace gets a logical cluster of its own.
CreateTenant(cl, w) ==
    /\ workspace[cl] = None
    /\ Reached(w) = {}
    /\ ReuseNames \/ w \notin {workspace[d] : d \in Clusters}
    /\ workspace' = [workspace EXCEPT ![cl] = w]
    /\ live' = live \cup {cl}
    /\ UNCHANGED <<objects, uids, caches, platform, children, work>>

-----------------------------------------------------------------------------
Reconcile(c) ==
    \/ \E k \in Keys : Enter(c, k)
    \/ AddFinalizer(c) \/ Observe(c)
    \/ InstallCalico(c) \/ InstallCalicoPartly(c)
    \/ ListNodes(c) \/ UpdateNode(c)
    \/ LookupWorkspace(c) \/ GetMounted(c) \/ CreateMounted(c)
    \/ PatchStatus(c)
    \/ LookupWorkspaceForDelete(c) \/ DeleteMounted(c) \/ RemoveFinalizer(c)
    \/ Refuse(c)

Informer(c) == \E k \in Keys : SyncObject(c, k) \/ SyncCluster(c, k)

Platform(k) ==
    \/ CreateObject(k) \/ DeleteObject(k) \/ PurgeObject(k)
    \/ CreateCluster(k) \/ DeleteCluster(k) \/ ProgressCluster(k)
    \/ IssueKubeconfig(k) \/ TurnWorkload(k) \/ ChangeTaint(k)

Tenant(cl) ==
    \/ \E n \in ChildNames : TenantCreatesChild(cl, n) \/ TenantDeletesChild(cl, n)
    \/ DeleteTenant(cl)
    \/ \E w \in Workspaces : CreateTenant(cl, w)

Next ==
    \/ \E c \in Controllers : Reconcile(c) \/ Fail(c) \/ Informer(c)
    \/ \E k \in Keys : Platform(k)
    \/ \E cl \in Clusters : Tenant(cl)

Spec == Init /\ [][Next]_vars

-----------------------------------------------------------------------------
(* Safety.                                                                 *)

Works == {w \in [pc : Pcs, key : Keys \cup {None}, obj : Objects \cup {Absent},
                 phase : Phases, nodes : SUBSET Nodes,
                 path : Workspaces \cup {None}] :
            w.pc # "idle" => w.key \in Keys /\ w.obj \in Objects}

\* The types of the variables, and of the reconcile each controller runs: the
\* object it was started with, the phase and the workspace path it has read.
TypeOK ==
    /\ objects \in [Keys -> Objects \cup {Absent}]
    /\ uids \in [Keys -> 0..MaxUid]
    /\ objectCache \in [Controllers -> [Keys -> Objects \cup {Absent}]]
    /\ cluster \in [Keys -> CAPI \cup {Absent}]
    /\ clusterCache \in [Controllers -> [Keys -> CAPI \cup {Absent}]]
    /\ kubeconfig \in [Keys -> BOOLEAN]
    /\ workload \in [Keys -> Workloads]
    /\ workspace \in [Clusters -> Workspaces \cup {None}]
    /\ live \subseteq Clusters
    /\ children \in [Clusters -> [ChildNames -> Refs \cup {None, Plain}]]
    /\ work \in [Controllers -> Works]

Guarded(k) == objects[k] # Absent /\ objects[k].finalizer
Mounted(k) == children[LogicalCluster[k]][MountedWorkspace(k)] = Ref(k)

\* No orphan: while the mounted workspace of an object exists, the object is
\* there and carries the controller's finalizer, so that its deletion cannot
\* complete without the workspace being removed (Reconcile adds the finalizer
\* before it creates, reconcileDelete deletes before it removes it).
NoOrphanMount == \A k \in Keys : Mounted(k) => Guarded(k)

\* deleteMountedWorkspace deletes by name: in a step of the controller that
\* removes a child workspace, the workspace is the mount of the object that is
\* being deleted.
OnlyOwnMountDeleted ==
    [][\A c \in Controllers : At(c, "delete") /\ ~At(c, "delete")' =>
        \A cl \in Clusters, n \in ChildNames :
            children'[cl][n] # children[cl][n] =>
                children[cl][n] = Ref(work[c].key)]_vars

\* A tenant that reads the phase Ready can run workloads: Calico has been
\* installed in the cluster behind the annotation, in full and not in part,
\* whatever the informers showed the reconcile that published it.
ReadyIsPrepared ==
    \A k \in Keys : cluster[k] # Absent /\ cluster[k].status = "Ready" =>
        kubeconfig[k] /\ workload[k].cni = "Installed"

-----------------------------------------------------------------------------
(* Liveness.  A reconcile that can go on does (WF): every call returns.  The*)
(* work queue hands every key out again and again (SF of Enter): a failed   *)
(* reconcile is requeued, a successful one is requeued after 15 seconds and *)
(* a change in the cache queues its key.  Informers catch up.  Calls do not *)
(* fail for ever once nothing stands in their way: steps that are failures  *)
(* and nothing else (a PatchStatus with nothing to do looks like one) stop  *)
(* some time, after any number of them; the errors of Refuse may go on.     *)

Fairness ==
    /\ \A c \in Controllers :
          /\ WF_vars(Reconcile(c))
          /\ <>[][Fail(c) => Reconcile(c)]_vars
    /\ \A c \in Controllers, k \in Keys :
          /\ SF_vars(Enter(c, k))
          /\ WF_vars(SyncObject(c, k)) /\ WF_vars(SyncCluster(c, k))

FairSpec == Spec /\ Fairness

\* A deleted object is let go: its finalizer is removed in the end, whatever
\* happens to the tenant's workspace, its children and the Cluster meanwhile.
DeletionCompletes ==
    \A k \in Keys : (objects[k] # Absent /\ objects[k].deleting) ~> ~Guarded(k)

IsLive(k) == objects[k] # Absent /\ ~objects[k].deleting
IsAvailable(k) == cluster[k] # Absent /\ cluster[k].stage = "Available"

\* Nothing outside the controller stands in the way of readiness.
Unobstructed(k) ==
    /\ IsLive(k) /\ IsAvailable(k) /\ Answers(k)
    /\ LogicalCluster[k] \in live
    /\ children[LogicalCluster[k]][MountedWorkspace(k)] \in {None, Ref(k)}

\* Changes of its nodes' taints stop some time; each may end a reconcile.
NodesLeftAlone(k) == <>[][~ChangeTaint(k)]_vars

\* An object whose workload cluster stays available is published as Ready for
\* good, and its mounted workspace is there again and again however often the
\* tenant deletes it.
BecomesReady ==
    \A k \in Keys : <>[]Unobstructed(k) /\ NodesLeftAlone(k) =>
        <>[](cluster[k] # Absent /\ cluster[k].status = "Ready") /\ []<>Mounted(k)

\* Ready is withdrawn from a workload cluster that stays unavailable, even if
\* the informer showed an annotation that was no longer the published one, as
\* long as the API server of the cluster answers: Calico and the taints come
\* before the patch, so that Ready stays on a cluster that cannot be reached.
ReadyWithdrawn ==
    \A k \in Keys :
        <>[](IsLive(k) /\ cluster[k] # Absent /\ ~IsAvailable(k)
             /\ (kubeconfig[k] => Answers(k)))
        /\ NodesLeftAlone(k) =>
        <>[](IsLive(k) /\ cluster[k] # Absent /\ cluster[k].status # "Ready")

\* No control-plane node is left behind: however many of the updates conflict
\* or fail, and end the reconcile before the later nodes, in the end every node
\* has the taint, or lacks it, as the object says, once nobody else changes any.
SchedulingSettles ==
    \A k \in Keys :
        <>[](IsLive(k) /\ Answers(k)) /\ NodesLeftAlone(k) =>
        <>[](workload[k].tainted = IF AllowScheduling[k] THEN {} ELSE Nodes)

-----------------------------------------------------------------------------
(* What the controller promises, with the workload cluster, the informers  *)
(* and the steps of a reconcile hidden.                                     *)
Contract == INSTANCE MountContract WITH
    guarded <- {k \in Keys : Guarded(k)},
    mounted <- {k \in Keys : Mounted(k)}

\* Every step of the controller is a step of MountContract, or none: the
\* finalizer is on the object before the workspace is created and stays until
\* after it is gone.
ImplementsContract == Contract!Spec

=============================================================================
