# A TLA+ model of the DBaaS demo platform

This directory models the control code of the repository: the
`kubernetes-controller` with its mount proxy, the `provisioner` with its two
background activities and its HTTP handlers, the mock of the MongoDB operator, and
the script that shares a secret with the provisioner. Each component has a TLA+
module with one action per call the code makes to another process, and TLC
configurations that check it on small instances. All but one of the safety
properties that the passing runs check also have a TLAPS proof for every value of
the constants.

Paths below are relative to `src/`. `controller.go` is
`internal/controller/kubernetes/controller.go`; `headlamp.go`, `binding.go`,
`credentials.go`, `kubeconfig.go` and `workspace.go` are in
`internal/provisioner/`.

## 1. The system

A tenant of the platform gets a workspace in kcp (`root:consumers:<name>`) in
which APIs for databases and Kubernetes clusters are bound. Objects the tenant
creates there are mirrored to a service cluster, where kro expands them and
controllers act on them.

| Component | Code | State it keeps | Operations |
|---|---|---|---|
| kubernetes-controller, reconciler | `controller.go`, `cmd/kubernetes-controller/main.go` | none of its own; informer caches of `Kubernetes` and CAPI `Cluster` objects; writes finalizers, the `Cluster` status annotation, mounted child workspaces, Calico and taints in the workload cluster | `Reconcile`, `reconcileDelete` and the calls they make |
| kubernetes-controller, mount proxy | `mount_proxy.go` | none | forwards requests below `/mounts/<namespace>/<name>/` to the workload cluster of that name |
| provisioner, workspace setup | `workspace.go`, `binding.go`, `credentials.go` | none of its own; writes APIBindings, namespace, service account, token secret and role binding of each workspace, and an annotation of the Workspace | `ReconcileWorkspaceBindings`, `EnsureWorkspaceSetup`; `ProvisionWorkspace`, `DeleteWorkspace` |
| provisioner, Headlamp sync | `headlamp.go` | none of its own; writes one shared kubeconfig secret and the Headlamp deployment | `syncHeadlamp`, from a loop and from goroutines |
| provisioner, HTTP | `cmd/provisioner/main.go`, `kubeconfig.go`, `provisioner.go`, `static/index.html` | none | create, list, delete workspaces; kubeconfig downloads |
| mock MCK controller | `internal/controller/mck/mongodb_controller.go` | none | reports every MongoDB as running |
| kro graphs | `config/kro/*.yaml` | none | expand a `Kubernetes` or `MongoDatabase` object, project status |
| Headlamp plugin | `headlamp-plugin/kcp/src` | React state | workspaces, bindings, instances views |
| deploy pipeline | `scripts/deploy.py`, `mk/`, `Makefile` | progress display, one lock | runs make targets |
| bootstrap script | `scripts/bootstrap_headlamp_kubeconfig.sh`, `mk/headlamp.mk` | the shared kubeconfig secret | a deployment empties the secret; the script adds two fixed contexts |

External to the repository, and modelled only as these parts depend on them:
kcp, the API Sync Agents, kro's engine, CAPI/CAPD and kubeadm, the token
controller, the Headlamp deployment.

**Interactions.** Nothing calls anything in memory across components: they meet
in API servers. The controller reads objects from lagging informer caches, and
reads kubeconfigs, tenants and child workspaces live. Its writes to the
`Kubernetes` object are conditional on a resource version; those to the status
annotation, the workload cluster and kcp are not. The setup of a workspace and
the Headlamp sync meet in the annotation `scoped credentials` of the Workspace:
the setup writes it, the sync and the kubeconfig handler believe it. The setup
ends by starting a sync in a goroutine. The secret has another writer, the
bootstrap script. The controller publishes URLs of mounts, which kcp uses to
reach the mount proxy; the provisioner publishes URLs of kcp in its kubeconfigs.

**What is hard.**
- Every step of a reconcile is a remote call. Between two of them objects
  are deleted and recreated, tenants leave, caches catch up, and the process
  stops.
- Requests to kcp address a workspace by *path*, so by a name that may have
  passed to another workspace.
- `syncHeadlamp` runs any number of times at once, as a read-modify-write of one
  secret. A slow one holds an old listing.
- A setup is ten calls without a transaction. Its last one is a promise about
  the others.
- The status page is put together from a listing and later reads of other
  objects; a kubeconfig from a workspace and a later read of its token.
- Status is patched without a version, as the difference to a cached copy.
- Everything is best effort: errors are logged or requeued, and only repetition
  makes the result right. So liveness matters as much as safety.

**What makes each component correct.** The controller: no mounted workspace
outlives the object that it belongs to, none is deleted for another object, `Ready`
means a cluster that was prepared, deletion ends, an available cluster becomes
Ready and one that is no longer available stops being so, as long as its API server
answers. The sync: a stale sync never wins, a workspace that is annotated and whose
token is written does not fall back to admin credentials, and the secret converges.
The setup: an annotated workspace has been set up in full, as long as its tenant
leaves that alone and its name is not used again, and every workspace gets the
annotation in the end, whatever its neighbours do and for all its tenant can damage
but the role of a binding. The HTTP side: credentials never fall back to
those of the provisioner, the page never goes back on a deletion and does not stop
while something is pending, and every URL leads where its reader expects. The
mock: the status ends as that of the present spec. `PROJECT.json` lists the
hazards line by line.

## 2. Modules

| Module | Models |
|---|---|
| `KubernetesMount` | the controller's reconcile, its caches, tenants and the platform around it |
| `MountContract` | abstract: what the controller owes its tenants about mounted workspaces |
| `HeadlampSync` | `syncHeadlamp`, its loop and goroutines, the secret and Headlamp |
| `HeadlampBootstrap` | `HeadlampSync` composed with the deployment of Headlamp and the bootstrap script |
| `WorkspaceSetup` | the setup loop of the provisioner, the content of workspaces, tenants |
| `WorkspaceLife` | abstract: what the rest of the provisioner may see happen to a workspace |
| `ProvisionerRequests` | the status page, its reloads and deletion statuses; the kubeconfig download |
| `ExternalURLs` | forwarded hosts and the URLs of answers; the URLs of mounts and the mount proxy |
| `MockMongoDB` | the mock MCK controller behind an on-premise `Database` |
| `MC*` | instances for TLC |
| `*Proofs` | theorems and proofs; `KubernetesMountReadyProofs` builds on `KubernetesMountProofs`, the others are about one module each |

Definitions named "Faulty variant of X" are not part of a specification. Each is
what X would be with one plausible bug; putting it in the place of X makes TLC
find a counterexample to the property that `PROJECT.json` pairs it with
(`mutants`), which shows that the property depends on the code.

### KubernetesMount

`work[c]` is the reconcile that controller process `c` runs: its `pc` names the
next call, and the other fields are the locals that survive from one call to the
next (the object it was started with, the phase, the tenant's path). `Enter` is
`Reconcile`'s cache read and the branch on the deletion timestamp and finalizer.
For a live object follow `AddFinalizer`, `Observe` (phase and kubeconfig),
`InstallCalico`, `ListNodes`, `UpdateNode`, `LookupWorkspace`,
`GetMounted`, `CreateMounted`, `PatchStatus`; for a deleted one
`LookupWorkspaceForDelete`, `DeleteMounted`, `RemoveFinalizer`. `Refuse` is an
error return that the state forces (a conflict, no kubeconfig, a workload cluster
that does not answer, no tenant, a foreign workspace), `Fail` any other, and a crash. Everything a reconcile keeps
is lost with it.

Abstractions:
- Resource versions: an `Update` succeeds if the object equals the copy it was
  made from. Objects carry an incarnation number, so a recreated one differs.
- `Observe` reads the cached Cluster and the live kubeconfig secret in one step.
  The lag of the cache already gives every pair of an old Cluster and a present
  secret.
- `workload[k].up` says whether the API server of a workload cluster answers. It
  comes and goes (`TurnWorkload`) independently of the condition of the Cluster.
- The documents of the Calico manifest are `Missing`, `Partial` or `Installed`.
- The control-plane nodes are listed once and then updated one by one; of the
  taints of a node only the one that `desiredControlPlaneTaints` adds or removes
  is kept. A node that somebody else has changed since the listing is a conflict,
  which ends the reconcile and leaves the nodes after it as they are.
- A deleted child workspace vanishes at once. In kcp it may be terminating for a
  while, in which case a delete is answered as success as well.
- A tenant is a logical cluster; `workspace[cl]` is the name it was created
  under. A path reaches the live logical cluster that has the name *now*.

### HeadlampSync

`sync[p]` is one running call of `syncHeadlamp`. Its actions follow the code:
`GetSecret`, `ListConsumerWorkspaces`, `Recheck` (the second Get after an add),
`ReadToken` once per workspace that it saw annotated, `UpdateSecret` or `Conflict`,
`RestartHeadlamp`. The loop is the process `Loop`; the others are goroutines.
The resource version of the secret becomes the flag `fresh`: the version a sync
read is still the present one. An Update without changes does not move it.
`epoch` counts the changes that a listing of the workspaces shows, and dates listings
and, in `since`, the annotation of a live workspace and its deletion; both are
history, for the properties only. Of the setup of a workspace two things matter here:
the token, which is created, and may be lost, at any time (`TurnToken`), and the
annotation (`MarkWorkspace`). The token is usually there before the annotation, and
`ReadToken` returns it whatever the annotation is; `WorkspaceSetup` has the detail.
The contexts of the bootstrap
script are in `HeadlampBootstrap`.

### HeadlampBootstrap

Extends `HeadlampSync`: its steps are taken over, each joined (`Carry`) with what
it does to the contexts `root` and `kind`, which a sync reads and writes with the
rest of the kubeconfig but never looks at. They are represented by the number of
the run of the script that wrote them: in the secret (`bootstrap`), in the copy of
each sync (`carried`), in Headlamp (`shown`). `ApplyManifest` is the `kubectl apply`
of `mk/headlamp.mk` with its empty kubeconfig, `LoadExisting` and `ApplySecret` are
the script's read and its apply, which has no version check, and `ScriptFails` ends
it anywhere. A write of the deployment makes the copies of all syncs old ones.

### ProvisionerRequests

`page` is the status page in a browser: the rows it shows, those of the page that
is loading (`next`), and the terminating workspaces whose logical cluster is still
to be asked (`todo`). `ListWorkspaces` is the listing, `ReadDeletionStatus` one
call of `logicalClusterDeletionStatus`, `RenderPage` the answer, `Reload` the
script of `index.html`. `download` is a kubeconfig request: `GetWorkspace` decides
between the provisioner's credentials and the token, `ReadToken` reads that by the
path of the workspace. The setup of a workspace is one step, and the deletion of
its logical cluster a sequence of stages. `FinishSetUp` is the mark that comes late:
of a setup that began with an earlier incarnation of the workspace, or went on
while it was being deleted. A row has, besides what the page shows,
two history fields: the incarnation it is about, and whether the logical cluster
has answered.

### ExternalURLs

Text is a sequence of tokens; the characters that the code looks for (`:`, `,`,
`/`, brackets, quotes) are tokens, so that trimming, splitting and joining are what
they are in Go, on short sequences. `strings.Cut`, `Trim` and the loop over the parts
of a header are written with positions in the text (the first comma, the first part
that names a host) and not as recursion over it, so that they can be reasoned
about. Requests pass reverse proxies that record the host in `Forwarded`, in
`X-Forwarded-Host`, or not at all, before `Handle` answers with a URL; requests below a published mount path go to `HandleMount`, which is
`mount_proxy.go`, while the kubeconfig secrets come, go and change. Its answer is the
cluster and the path to which it sends the request, or one of its errors: a path that
names no cluster (`BadRequest`), a secret that is not there or not read (`NotLoaded`,
possible at any time), a kubeconfig of which it can make no URL or no transport
(`NotUsable`). `client` and `hops` are history: whom the sender meant, and what the proxies did.

### MockMongoDB

`work` is a reconcile: read from the cache, then one merge patch of the status.
`MergeFrom` gives the fields that differ from the copy, and `PatchStatus` applies
them to whatever object has the name by then. kro creates the object while the
`Database` is on-premise and prunes it otherwise; somebody may edit its spec.

### WorkspaceSetup

`job[p]` is the round of the loop in process `p`; several processes run together
during a rollout. `content[n]` is what the logical cluster of workspace `n`
holds. A Get followed by a Create that tolerates AlreadyExists is one step, since
no other order of the two calls has another outcome; the creation of an
APIBinding does not tolerate it, and is two. The token controller
fills token secrets and removes those without account. With `Tampering`, tenants
change or delete anything the setup has created. `Broken` names the workspaces
whose calls may fail for ever. A crash loses the round.

### WorkspaceLife

A workspace is absent, live or terminating, marked or not, and has a token or not. It
is created, marked once and for all, deleted, purged; its token comes and goes. That is what the Headlamp sync and the
kubeconfig handler rely on. `WorkspaceSetup` maps to it with `LifeOf`, which hides the
phases, the content but for the token, and the steps of the setups.

### MountContract

An object can be *guarded*, and *mounted*; mounting needs the guard, and the
guard is released only when the mount is gone. `KubernetesMount` maps to it with
`guarded` = the objects that exist and carry the finalizer, `mounted` = those
whose mounted workspace exists. The caches, the phases and the steps of a
reconcile are hidden.

## 3. Runs

Passing:

| Run | Instance | What it shows |
|---|---|---|
| `mount_safety` | 1 controller, 2 objects of one tenant with one remote name in two namespaces | `NoOrphanMount`, `OnlyOwnMountDeleted` (no tenant takes a derived name here; see `mount_foreign`), and every step is one of `MountContract` |
| `mount_recovers` | 1 controller, 1 object created twice, all phases, 2 nodes, failures, a tenant that takes and deletes child workspaces and leaves | `NoOrphanMount` and `ReadyIsPrepared` across incarnations; `DeletionCompletes`, `BecomesReady`, `ReadyWithdrawn`, `SchedulingSettles` |
| `headlamp_sync` | the loop and a goroutine, 2 incarnations of a workspace | `NoContextOfTheGone`, `NeverFromOlderListing`, `TokenContextKept`, `CurrentListingWritten`, `SecretAligned`, `HeadlampAligned` |
| `bootstrap` | the same two syncs, 1 incarnation, 2 runs of the script, deployments that stop anywhere | `BootstrapContextsKept`, `RepairedAfterDeployment` |
| `setup_safety` | 2 processes, 1 workspace, 2 bindings | `MarkedIsSetUp`, `SetupCompletes`, and every step is one of `WorkspaceLife` |
| `setup_repairs` | 1 process, a workspace with a tampering tenant and one whose setup fails for ever | `SetupCompletes` for the first, unless its role binding has got another role, which the API server does not let the setup change back |
| `requests` | a page and a download, 2 incarnations of a workspace | `NeverBackToAdmin`, `DeletionStatusAdvances`, `PageComesToRest`, `AdminDownloadsEnd` |
| `urls` | a host name and an IPv6 address, with and without port, up to 3 proxies; 2 mounts, one of them in a namespace called `mounts` | `URLsNameTheClientsHost`, `MountRequestReachesItsCluster` |
| `database` | 2 versions, 2 incarnations, 2 edits | `NothingLeftUndone`, `StatusSettles`, `OnPremiseComesUp` |

Expected violations, each a disagreement between the code and what the repository
says (quoted in `PROJECT.json`, `findings`):

| Run | What TLC finds |
|---|---|
| `mount_foreign` | `deleteMountedWorkspace` deletes by name: a tenant's own child workspace of that name, over which the object never became Ready, is deleted with the object |
| `mount_rollout` | two controllers overlap (`--leader-elect=false`, rolling update): one creates the workspace after the other has cleaned up and released the object |
| `requests_reload` | an empty phase does not count as transient: a page that was loaded before kcp has given a new workspace its phase does not reload itself |

Other disagreements that the models show, without a run of their own, since
each is one step long:
- A child workspace that appears between Get and Create passes for the
  mounted one, and Ready is published over it (`controller.go:427`; `GetMounted`,
  `CreateMounted`). The next reconcile finds it, fails before the patch, and so
  leaves Ready there as long as that workspace stays. No property covers this.
- Calico and the taints come before the patch of the status, and an error there ends
  the reconcile (`controller.go:84-90`). A cluster whose API server no longer answers
  therefore keeps a Ready that was published before, however long it is unavailable,
  while `dbaas.md:331` speaks of "reflecting workload-cluster readiness into
  `Kubernetes.status`". `ReadyWithdrawn` is about clusters that answer; without that
  condition TLC finds it violated.
- Every tick of the sync ends with a restart of Headlamp, so at least every 30
  seconds, whether its secret has changed or not (`headlamp.go:134`, while
  `dbaas.md:385-387` speaks of changes). `RepairedAfterDeployment` depends on that:
  the script restarts nothing.
- Workspaces that are not marked yet get contexts and kubeconfigs with the
  provisioner's admin credentials (`headlamp.go:107`, `kubeconfig.go:69`, while
  `dbaas.md:136-137` and `389-391` speak of scoped ones). `AdminDownloadsEnd` and
  `SecretAligned` say that this ends.
- The setup begins with an empty phase, before kcp has scheduled the workspace
  (`binding.go:39`, `workspace.go:40-42`), and fails until it has.
- "Block until the token is populated" (`credentials.go:75`) does not block; the
  setup ends with an error, and the next round repeats it.
- The script can bring back an admin entry over the token of a workspace, when it
  read the secret before a sync and applies it afterwards; the next sync repairs it.

**Bounds, and why they are enough.** One name and two incarnations of it are
what staleness needs: old and present. Two objects are what a collision of
names needs, two processes what a lost update needs; a third adds no new kind of
conflict, since every write concerns one object, one secret or one workspace.
The bounds on counters are `MaxUid` (incarnations), `MaxRuns` (runs of the script),
`MaxGeneration` (edits of a MongoDB object) and `MaxHops` (proxies); `epoch`
moves only with changes of the workspaces, which `MaxUid` bounds.
In `mount_safety` the constraint `ComesUpAtOnce` lets a workload cluster come up
in one go and there are no nodes, to keep the product of two objects small;
`mount_recovers` has every phase, and two nodes, with one object: two are what it
takes for one to be left behind. `bootstrap` has one incarnation, since the
script knows nothing of them; two runs are one that a sync carries and one that
overtakes it. Three proxies are one that records the host, one that records
something else, and a later one that records its own. The `mount_*` runs switch
deadlock checking off since the system may stop there: all objects are gone, and
the bound allows no others.

## 4. Fairness

- `KubernetesMount`. A reconcile that can go on does (weak fairness of
  `Reconcile(c)`): calls return, with an answer or
  an error. `Enter(c, k)` is
  strongly fair: the work queue hands a key out again after an error, after
  a success (every 15 seconds, `controller.go:105`) and after each change in the
  cache, and it is first in, first out. Informers catch up. Failures stop some
  time: from some point on a `Fail` step is also a `Reconcile` step. (The form
  matters. A successful `PatchStatus` with nothing to patch has the effect of a
  `Fail`; to forbid `Fail` outright would forbid it too and leave no fair
  behaviour.) `Refuse` may go on for ever: its errors, among them those of a workload cluster
  that does not answer, are what the properties have to survive. Nothing is assumed of tenants or of the platform; the
  properties say what they need of them (`Unobstructed`, and `Answers` in
  `ReadyWithdrawn` and `SchedulingSettles`).
  `SchedulingSettles` and `BecomesReady` also need `NodesLeftAlone`: somebody who
  changes a node in every reconcile makes every reconcile end in a conflict.
- `HeadlampSync`. The loop ticks, running syncs go on, failures stop some time in
  the same sense, a requested rollout happens. Goroutines need not be started:
  after a crash they are not, and only the loop is left. `HeadlampBootstrap` has
  the same fairness for the steps it has taken over; the deployment need not go on
  or end, and the property assumes that it has ended, wherever it stopped.
- `WorkspaceSetup`. Processes go on; crashes, and failures with workspaces that
  are not `Broken`, stop some time; the token controller works.
- `ProvisionerRequests`. A page loads, reads end (with an answer or an error) and
  an open page with something pending reloads after its 3 seconds (`Load`): the
  script waits while a dialog is open or the form is being filled in, which nobody
  does for ever. Requests are answered (`Respond`). kcp and the background setup
  finish what they have begun with each workspace (`Settle`), as `setup_safety`
  shows of the setup. Users need not do anything.
- `MockMongoDB`. The queue hands out its key and calls return, the informer catches
  up, kro applies its graph. Errors stop some time, except that a patch of an object
  that is gone always fails.
- `ExternalURLs` has safety properties only.

## 5. Theorems

All proofs are checked by TLAPS with the named assumptions of the modules
(`ConstantTypes`, `HomeInjective`, `RefsIdentify`, `NamesAreChildNames`,
`MaxRunsType`, `BasePathIsRoot`, `PathTypes`, `HostTypes`).

| Theorem | States | Assumes besides |
|---|---|---|
| `KubernetesMountProofs!TypeCorrect` | `Spec => []TypeOK` | |
| `KubernetesMountProofs!NoOrphan` | `Spec => []NoOrphanMount` | `Exclusive` |
| `KubernetesMountProofs!Refinement` | `Spec => ImplementsContract` | `Exclusive` |
| `KubernetesMountReadyProofs!ReadyMeansPrepared` | `Spec => []ReadyIsPrepared` | `OneController` |
| `KubernetesMountReadyProofs!DeletesWithinNameAndTenant` | what a deletion by name may take | |
| `HeadlampSyncProofs!TypeCorrect` | `Spec => []TypeOK` | |
| `HeadlampSyncProofs!NewestListingWins` | `Spec => NeverFromOlderListing` | |
| `HeadlampSyncProofs!TokenKept` | `Spec => TokenContextKept` | |
| `HeadlampSyncProofs!GoneFromTheSecret` | `Spec => []NoContextOfTheGone` | |
| `HeadlampSyncProofs!CurrentWritten` | `Spec => CurrentListingWritten` | |
| `HeadlampSyncProofs!EveryStepOfLife` | a step of `WorkspaceLife` is a step of `Kcp`, the token's included | the bound `MaxUid` |
| `HeadlampBootstrapProofs!BTypeCorrect` | `BSpec => []BTypeOK` | |
| `HeadlampBootstrapProofs!ContextsKept` | `BSpec => BootstrapContextsKept` | |
| `WorkspaceSetupProofs!TypeCorrect` | `Spec => []TypeOK` | |
| `WorkspaceSetupProofs!MarkKeepsPromise` | `Spec => []MarkedIsSetUp` | `Unspoilt` |
| `WorkspaceSetupProofs!LifeRefinement` | `Spec => ImplementsLife` | |
| `ProvisionerRequestsProofs!TypeCorrect` | `Spec => []TypeOK` | |
| `ProvisionerRequestsProofs!CredentialsKept` | `Spec => NeverBackToAdmin` | |
| `ProvisionerRequestsProofs!DeletionAdvances` | `Spec => DeletionStatusAdvances` | |
| `MockMongoDBProofs!TypeCorrect` | `Spec => []TypeOK` | |
| `MockMongoDBProofs!NothingIsLeftUndone` | `Spec => []NothingLeftUndone` | |
| `ExternalURLsProofs!MountsLeadToTheirClusters` | `Spec => MountRequestReachesItsCluster` | |
| `ExternalURLsProofs!URLsAreTheClients` | `Spec => []URLsNameTheClientsHost` | |

**KubernetesMount.** `Exclusive` says that there is one controller process and
that names of tenant workspaces are not reused. `mount_rollout` shows that the
first is needed, and that the deployment does not provide it during a rollout.
Without the second, a path that was looked up may lead to another tenant.
`NoOrphanMount` alone is not inductive: nothing in it keeps a reconcile
of a live object from creating a workspace for an object that has been released.
`IInv` adds: `VersionsInv` (a cached deletion is final for that incarnation),
`SeenGuardedInv` (a live object seen with the finalizer still has it, since only
this controller removes it, and only from a deleted one), `ApplyInv` (so
a reconcile past the finalizer works on a guarded object), `DeleteInv` (a delete
was started from a deleted version, and any live version the cache can still show
is of a later incarnation), `PathsInv` and `ContentInv` (a path means one
logical cluster; one that is gone is empty), `ReleaseInv` (at `release` the mount
is gone). The refinement takes the same invariant: each step that changes the set
of guarded or of mounted objects is then one of the contract.

*Ready is prepared.* Names may be used again here; only the single controller
matters. `ReadyIsPrepared` looks at the status alone, while Calico is installed many
calls before the status is published. `PreparedInv` covers what lies between: a
reconcile that is past the installation, and may still publish Ready, works on a
workload cluster that is prepared, or on an object that is being deleted and whose
Cluster is gone for good. The second case is why the invariant of `NoOrphan` up to
`DeleteInv` is needed: the object a live reconcile works on carries the finalizer,
so it cannot be purged and recreated under it. `PhaseStep` shows that no other way
through a reconcile leads to Ready.

*Deletion by name.* `OnlyOwnMountDeleted` is not true of the code (`mount_foreign`);
conditions under which it is would have to rule out every other owner of the name.
What the code does guarantee, with any number of controllers, tenants that create
what they like, names that are used again and digests that coincide, is
`DeletesWithinNameAndTenant`: a deletion takes nothing but the child workspace of the
derived name, in a workspace that has the tenant's name, and of the mounts only those
of an object of the same tenant and derived name. `RoutesInv` says that the path a
reconcile works with is the one its object's tenant has; `PlacesInv`, that a mount lies
where an object of its reference would have it. The code keeps eight hexadecimal
digits of a SHA-1 sum, so that the names derived from two objects of a tenant differ is
likely, not certain; in the instance of `mount_safety` they do.

**HeadlampSync.** `EpochInv`: a sync whose copy of the secret is current, and
that has listed the workspaces, has a listing that is no older than the one the
secret was written from. It holds because the secret is read *before* the
listing, and any write in between makes the copy stale.

*Tokens are kept.* A token in the secret does not mean that its workspace is annotated:
a slow sync that listed an annotated workspace of the name reads whatever token the
present one has, and a sync that lists that one as not annotated replaces the token by
admin credentials. So `TokenContextKept` begins with the first write from a listing
that shows the annotation, and `since` dates that. By `EpochInv` no sync with an
older listing can write any more. `KeptInv` says what the others have for such a
workspace: they listed it annotated, so they have its token or no entry, and do not
prune it. A sync for the
deletion of an earlier workspace of the name relies on the order of `syncHeadlamp`: it
prunes before it drops the name (`headlamp.go:74`, `:82`).

*Contexts of deleted workspaces.* `NoContextOfTheGone` dates deletions: a secret
written from a listing that is not older than the deletion of a workspace has no
context of it. A sync reads after its listing, too: the workspace it was started for
and the tokens. `UnlistedInv` says that what it reads there cannot bring a deleted
workspace back, whenever it was listed after the deletion; a deletion gets a date
later than every listing so far, which takes `EpochInv`. A second look that
does not ask whether the workspace is being deleted (`headlamp.go:78`) breaks it.

*The safety half of convergence.* `SecretAligned` needs fairness and stays with TLC;
what it rests on is `CurrentListingWritten`: a sync that writes while
its listing is still how things are leaves each entry as it should be, or as it was,
and the latter only for the name it was told is deleted or a token it could not
read. `CurrentInv` says what such a sync has listed, wants and has collected, and
that any change makes its listing an old one.

*The environment.* `EveryStepOfLife` is about the abstraction: `Kcp` leaves out nothing
that `WorkspaceLife` allows, up to the number of incarnations. `LifeRefinement` shows
that the setups in detail do nothing that `WorkspaceLife` does not allow. Both have the
token beside the mark, so that the time in which a workspace has the one without the
other is among what the syncs are proved to bear. `IncarnationInv` is what the first
needs of the model: a workspace that exists is the last of its name.

**HeadlampBootstrap.** `CarryInv`: while a sync's version of the secret is the
present one, the contexts it carries are those of the secret. A write of the script
makes every version an old one, so a sync that carries older contexts meets a
conflict. The types of the sync's variables are taken over from the proofs about
`HeadlampSync`, one step of which every step of a sync still is (`StepKinds`).

**WorkspaceSetup.** `Unspoilt` says that tenants do not tamper and a name is used
once. A tenant is an administrator of the workspace, so the annotation cannot
promise anything against it; and a workspace recreated under the same name
between the setup and the annotation is marked though it is empty (TLC finds this
with `MaxUid = 2`): `markWorkspaceScopedCredentials` reads it by name.
`ProgressInv` says what a setup has done, by its program counter. It is stable
under the steps of other processes since content only grows (`AtLeast`).

The refinement needs none of this. Apart from the token, whose secret it creates,
marking is the only thing a setup ever does to a workspace (`StepOfLife`), and it writes back a whole copy: the step is one of
`WorkspaceLife` only because the API server refuses a copy that is not the present
object, which the mutant without that check shows. `KcpOfLife` has the handlers, kcp
and the tenants, and `AbsentInv` says that a workspace that is gone has left no token
behind; it and `TypeOK` are all the proof takes.

**ProvisionerRequests.** What a row says must remain true while the page lies open
and while the next one loads. `Holds(n, row)` says of a row of workspace `n` that
its incarnation exists or has existed, that a workspace shown with Headlamp access
is still marked if it exists, and that the deletion is at least as far as shown.
The last needs `Ended`: an incarnation whose deletion has begun never comes back
to life. `RowsInv` has this for both pages, and `StatusInv` compares them; a
status is read anew for every load, from a deletion that has only gone on.
`PresentInv` ties a workspace to its incarnation.

**MockMongoDB.** A merge patch from a lagging copy can leave a status that is a mix of
two versions, and a patch may fail. `NothingLeftUndone` says that such a state never
rests: whenever nothing is queued, under way or still to be learnt by the informer,
the status is the wanted one. The invariant follows the wakeups. `CopyInv`: the
copy is not ahead of the object (so equality of incarnation and generation
means that it is the object of that spec). `PatchInv`: with nothing queued, the patch
under way is made from the present copy, since whatever changes the copy queues the
key. `IdleInv`: with nothing queued or under way, a copy with an unwanted status is
an old one.

**ExternalURLs.** `RequestInv` says of a request on its way that its path is the one
published for its mount, followed by the path asked for. The rest is about text:
the handler splits the path at its first three slashes, and must find the
namespace and the name that the controller joined, for names and paths of any length
and content, even ones that look like the prefix. `MinWithThree` and `SlashesFound`
find the slashes, `PublishedForm` and `PrefixCut` show that the controller's prefix
and the handler's are the same text, and `SplitMount` puts them together.
`PathTypes` says that namespaces and names are tokens that are not a slash, which
Kubernetes guarantees of them.

*The host.* `HostInv` says of a request that has passed any number of proxies where
the host its client used still is: in `Forwarded` if a proxy has written a host
there, else in `X-Forwarded-Host` if one has written that, else in the request's own
host (`HostKept`). A proxy that writes `Forwarded` behind one that has only used
`X-Forwarded-Host` names that one and not the client; `HostRecorded` leaves such chains
out, and a chain that is left out remains so (`OneMoreHop`). The headers are texts to which each proxy appends, so the invariant speaks of positions:
`NamesHost` of the first part of `Forwarded` that names a host, which later
entries leave where it is (`NameKept`), and `BeginsWithHost` of what stands before
the first comma. `EntriesName` and `NameAdded` show that an entry with a host, quoted
when it has a colon, is read back as that host, and `PortSplit` and
`NameRead` that a host with a port, an IPv6 address with its brackets included, can be
taken apart in one way only. That nothing else in the text is taken for a mark is
`HostTypes`: names, addresses and ports have none of the characters of headers and
URLs, and only addresses have colons. No induction over the text is needed,
since reading it is a matter of positions and no definition recurses.

`IInv` of each module (`ReadyInv`, `PlacesInv`, `DoneInv`, `RequestInv`,
`HostInv`, `GoneInv`, `KeptInv`, `AbsentInv`, `CurrentInv`) was first checked with
TLC, as an invariant, on the instances above.

**Only model-checked**: the liveness properties and whatever depends on fairness,
which is out of reach of the prover, as are ENABLED, induction over data and recursive
operators; and `OnlyOwnMountDeleted`, which holds of an instance whose tenants leave
derived names alone. Every other safety property of the passing runs is stated by a
theorem above.

## 6. What is not modelled

- A kubeconfig secret of Headlamp that cannot be parsed: `syncHeadlamp` would start from
  an empty one and drop the bootstrap contexts (`headlamp.go:54-56`). The script, the
  manifest and the syncs only write what can be parsed.
- A host with an empty port (`host:`), and several `Forwarded` lines in one request:
  no client or proxy of `ExternalURLs` sends them.
- Whether a workload cluster answers a request that the mount proxy has sent on.
- Percent-encoding: the mount proxy joins decoded paths and leaves the raw path
  alone. Which of the two is sent is decided in Go's library.
- Consumer workspaces named `root` or `kind`: their contexts would collide with
  those of the script. `HeadlampBootstrap` assumes that there are none.
- How the script obtains the credentials of its contexts (`kubectl config` and
  sequential shell).
- The number of databases on the status page, and the fallback to the URL of the
  consumers workspace in `kubeconfig.go`, which no handler uses.
- The Atlas objects of the database graph and the projected status: both depend on
  kro and on the Atlas operator, which are not part of the repository.
- The Headlamp plugin, a read-only user interface, and the deploy pipeline, a
  terminal front end of make targets; planned as small modules.
- Time: timeouts, the 3, 15 and 30 second periods, and the one-second resolution of
  the restart annotation (a lost restart is repeated by the next tick).
- `Makefile`, `mk/` but for the deployment of Headlamp, third-party and generated
  manifests and CRDs.

## 7. Plan

Done: (1) `KubernetesMount`, `MountContract`, their refinement; (2)
`HeadlampSync`; (3) `WorkspaceSetup`; (4) the control-plane nodes in
`KubernetesMount`; (5) `HeadlampBootstrap`; (6) `ProvisionerRequests`; (7)
`ExternalURLs`; (8) `MockMongoDB`; the proofs of section 5.

Next, in this order:
1. That the steps of `ProvisionerRequests` cover `WorkspaceLife` as those of
   `HeadlampSync` do: its `FinishSetUp` leaves out marks of a first incarnation that
   has not been scheduled, so this takes a finer `WorkspaceLife`, in which a mark
   needs a scheduled workspace, and `LifeRefinement` for it.
2. `PluginResources`: discovery against cluster switches, and the schema panel's
   stale answers. `DeployPipeline`: the lock and the resize handler.

Runs to come are merged with those above where they ask the same question of a
larger module, so that the number of runs stays small.
