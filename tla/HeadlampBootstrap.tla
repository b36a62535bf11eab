-------------------------- MODULE HeadlampBootstrap --------------------------
(***************************************************************************)
(* The synchronisation of HeadlampSync together with the other writer of   *)
(* the secret, the deployment of Headlamp (mk/headlamp.mk): it applies a   *)
(* manifest with an empty kubeconfig and runs the bootstrap script         *)
(* (scripts/bootstrap_headlamp_kubeconfig.sh), which reads the kubeconfig,  *)
(* puts the contexts root and kind into it, and applies the whole of it     *)
(* without a version check.  The script may also be run on its own.         *)
(*                                                                         *)
(* No workspace is named root or kind here: removeStaleHeadlampEntries     *)
(* tells the contexts of workspaces from others by their server, but       *)
(* writes them by name.                                                    *)
(***************************************************************************)
EXTENDS HeadlampSync

CONSTANT MaxRuns   \* bound: runs of the script

ASSUME MaxRunsType == MaxRuns \in Nat

VARIABLES
    bootstrap,  \* the run of the script whose contexts are in the secret, or 0
    carried,    \* carried[p]: those that sync p has read
    shown,      \* those Headlamp has loaded
    script,     \* the progress of a deployment, and the entries it has read
    runs        \* how often the script has been run

deployment == <<script, runs>>
allVars    == <<vars, bootstrap, carried, shown, deployment>>

NoScript == [pc |-> "idle", entries |-> NoEntries]

\* Headlamp has been deployed once, with no workspaces yet.
BInit ==
    /\ Init
    /\ bootstrap = 1
    /\ carried = [p \in Procs |-> 0]
    /\ shown = 1
    /\ script = NoScript
    /\ runs = 1

-----------------------------------------------------------------------------
(* What the steps of HeadlampSync do with the contexts of the script: the   *)
(* kubeconfig is read, written and loaded as a whole.                       *)

\* (A sync takes a kubeconfig that cannot be parsed for an empty one.  The script,
\* the manifest and the syncs only write what can be.)
Carry(p) ==
    /\ carried' = IF At(p, "get") /\ sync'[p].pc = "list"
                  THEN [carried EXCEPT ![p] = bootstrap]
                  ELSE IF sync'[p].pc = "idle"
                       THEN [carried EXCEPT ![p] = 0] ELSE carried
    /\ bootstrap' = IF At(p, "update") /\ sync'[p].pc = "restart"
                    THEN carried[p] ELSE bootstrap
    /\ UNCHANGED <<shown, deployment>>

SyncGoesOn(p) == Step(p) /\ Carry(p)

SyncFails(p) == (Fail(p) \/ TokensFail(p)) /\ Carry(p)

Tick == ReconcileHeadlamp /\ Carry(Loop)

SpawnSync(p) == Spawn(p) /\ Carry(p)

LoadKubeconfig ==
    /\ RollOut
    /\ shown' = bootstrap
    /\ UNCHANGED <<bootstrap, carried, deployment>>

KcpChanges(n) == Kcp(n) /\ UNCHANGED <<bootstrap, carried, shown, deployment>>

-----------------------------------------------------------------------------
(* The deployment of Headlamp.                                             *)

\* A write to the secret is a conflict for the syncs that have read it.  (The
\* history in secret.epoch is about the syncs, and is left alone.)
WriteSecret(entries) ==
    /\ secret' = [secret EXCEPT !.entries = entries]
    /\ sync' = [p \in Procs |-> [sync[p] EXCEPT !.fresh = FALSE]]
    /\ UNCHANGED <<kcp, rollout, loaded, carried, shown>>

\* make deploy-headlamp applies the manifest of the secret, which is empty ...
ApplyManifest ==
    /\ script.pc = "idle" /\ runs < MaxRuns
    /\ WriteSecret(NoEntries)
    /\ bootstrap' = 0
    /\ script' = [script EXCEPT !.pc = "read"]
    /\ UNCHANGED runs

\* ... and runs the script; make bootstrap-headlamp-kubeconfig only runs it.
LoadExisting ==
    /\ script.pc \in {"idle", "read"} /\ runs < MaxRuns
    /\ script' = [pc |-> "apply", entries |-> secret.entries]
    /\ UNCHANGED <<vars, bootstrap, carried, shown, runs>>

ApplySecret ==
    /\ script.pc = "apply"
    /\ WriteSecret(script.entries)
    /\ runs' = runs + 1
    /\ bootstrap' = runs'
    /\ script' = NoScript

\* The script, and the deployment with it, ends with the first error.
ScriptFails ==
    /\ script.pc # "idle"
    /\ script' = NoScript
    /\ runs' = runs + 1
    /\ UNCHANGED <<vars, bootstrap, carried, shown>>

Deploy == ApplyManifest \/ LoadExisting \/ ApplySecret \/ ScriptFails

BNext ==
    \/ Tick \/ LoadKubeconfig \/ Deploy
    \/ \E p \in Procs : SyncGoesOn(p) \/ SyncFails(p) \/ SpawnSync(p)
    \/ \E n \in Names : KcpChanges(n)

BSpec == BInit /\ [][BNext]_allVars

-----------------------------------------------------------------------------
\* A sync keeps the bootstrap contexts of the secret as they are: it neither
\* brings back those of an earlier run nor loses those that a script has applied
\* between its read and its write.  Only the deployment changes them.
BootstrapContextsKept == [][bootstrap' # bootstrap => script' # script]_allVars

BFairness ==
    /\ WF_allVars(Tick)
    /\ \A p \in Procs : WF_allVars(SyncGoesOn(p))
    /\ <>[][\A p \in Procs : SyncFails(p) => SyncGoesOn(p)]_allVars
    /\ WF_allVars(LoadKubeconfig)

BFairSpec == BSpec /\ BFairness

\* What the script has undone is done again: once the workspaces stop changing
\* and deployments have ended, wherever they stopped, the secret holds the
\* contexts of the live workspaces again, and Headlamp runs with them and with
\* the bootstrap contexts of the secret.  The script restarts nothing; it takes
\* a sync that restarts Headlamp although it finds its entries in the secret.
RepairedAfterDeployment ==
    Quiet /\ <>[](script.pc = "idle") =>
        <>[](/\ \A n \in Names : Tokenless(n) \/ secret.entries[n] = Wanted(n)
             /\ loaded = secret.entries
             /\ shown = bootstrap)

=============================================================================
