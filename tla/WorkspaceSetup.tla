--------------------------- MODULE WorkspaceSetup ---------------------------
(***************************************************************************)
(* The provisioner's workspace setup (internal/provisioner/workspace.go,    *)
(* binding.go, credentials.go): every 30 seconds ReconcileWorkspaceBindings *)
(* lists the consumer workspaces and runs EnsureWorkspaceSetup for those   *)
(* that are neither terminating nor in a transient phase.  A setup creates *)
(* the APIBindings, a service account, its token secret and a cluster role *)
(* binding in the workspace, and marks the workspace with an annotation.   *)
(*                                                                         *)
(* Every call addresses the workspace by its path, so it reaches whatever   *)
(* has the name then.  The steps of two provisioner processes, which run    *)
(* together during a rollout, interleave, and tenants change what is in     *)
(* their workspaces.                                                        *)
(***************************************************************************)
EXTENDS Naturals, FiniteSets

CONSTANTS
    Procs,      \* provisioner processes
    Names,      \* workspace names
    Bindings,   \* names of the APIBindings of every workspace
    Tampering,  \* workspaces in which tenants change what the setup created
    Broken,     \* workspaces whose calls may fail for ever
    MaxUid,     \* bound: incarnations of a workspace name
    None        \* no workspace, no name

Phases == {"", "Scheduling", "Initializing", "Ready", "Unavailable"}
Workspace == [uid : 1..MaxUid, phase : Phases, marked : BOOLEAN,
              terminating : BOOLEAN]

ASSUME ConstantTypes ==
    /\ Tampering \subseteq Names
    /\ Broken \subseteq Names
    /\ MaxUid \in Nat
    /\ None \notin Names /\ None \notin Workspace

VARIABLES
    workspaces,  \* the Workspace objects under root:consumers
    uids,        \* uids[n]: how often a workspace n has been created
    content,     \* content[n]: what the logical cluster of n holds
    job          \* job[p]: the round of the loop that process p runs

vars == <<workspaces, uids, content, job>>

\* secret: the token secret, which the token controller fills in; crb: the
\* cluster role binding, whose subjects or whose role may be others.
Secrets == {"none", "empty", "token"}
Roles   == {"none", "otherSubjects", "otherRole", "admin"}
Content == [bindings : SUBSET Bindings, namespace : BOOLEAN,
            account : BOOLEAN, secret : Secrets, crb : Roles]

Fresh == [bindings |-> {}, namespace |-> TRUE, account |-> FALSE,
          secret |-> "none", crb |-> "none"]

Pcs == {"down", "idle", "round", "bindings", "create", "namespace", "account",
        "secret", "role", "token", "read", "mark"}

\* round: the listed workspaces not yet dealt with; todo: the bindings not yet
\* seen; binding: the one to create; copy: the workspace to set the annotation on.
Idle == [pc |-> "idle", round |-> {}, name |-> None, todo |-> {},
         binding |-> None, copy |-> None]

Init ==
    /\ workspaces = [n \in Names |-> None]
    /\ uids = [n \in Names |-> 0]
    /\ content = [n \in Names |-> Fresh]
    /\ job = [p \in Procs |-> Idle]

At(p, pc)   == job[p].pc = pc
Goto(p, pc) == job' = [job EXCEPT ![p].pc = pc]

\* The rest of the round goes on after a setup, whether or not it failed.
Done(p) == job' = [job EXCEPT ![p] = [Idle EXCEPT !.pc = "round",
                                                  !.round = job[p].round]]

Exists(n) == workspaces[n] # None
IsLive(n) == IF Exists(n) THEN ~workspaces[n].terminating ELSE FALSE
IsReady(n) == IF IsLive(n) THEN workspaces[n].phase = "Ready" ELSE FALSE

\* A request to the path of n is answered once n has a logical cluster.
Reachable(n) ==
    IF Exists(n) THEN workspaces[n].phase \notin {"", "Scheduling"} ELSE FALSE

IsTransientPhase(phase) == phase \notin {"Ready", ""}

-----------------------------------------------------------------------------
(* The loop.                                                               *)

ReconcileWorkspaceBindings(p) ==
    LET listed == {n \in Names :
            IF IsLive(n) THEN ~IsTransientPhase(workspaces[n].phase) ELSE FALSE}
    IN  /\ At(p, "idle")
        /\ job' = [job EXCEPT ![p].pc = "round", ![p].round = listed]
        /\ UNCHANGED <<workspaces, uids, content>>

EnsureWorkspaceSetup(p, n) ==
    /\ At(p, "round")
    /\ n \in job[p].round
    /\ job' = [job EXCEPT ![p] =
            [Idle EXCEPT !.pc = "bindings", !.round = job[p].round \ {n},
                         !.name = n, !.todo = Bindings]]
    /\ UNCHANGED <<workspaces, uids, content>>

EndRound(p) ==
    /\ At(p, "round")
    /\ job[p].round = {}
    /\ job' = [job EXCEPT ![p] = Idle]
    /\ UNCHANGED <<workspaces, uids, content>>

-----------------------------------------------------------------------------
(* One setup.                                                              *)

\* ensureWorkspaceBindings looks for each binding and creates it if it is not
\* there; unlike below, one that another process has created meanwhile is an
\* error (Refuse).
EnsureBinding(p) ==
    LET n == job[p].name
    IN  /\ At(p, "bindings")
        /\ Reachable(n)
        /\ \E b \in job[p].todo :
              IF b \in content[n].bindings
              THEN job' = [job EXCEPT ![p].todo = @ \ {b}]
              ELSE job' = [job EXCEPT ![p].pc = "create", ![p].binding = b]
        /\ UNCHANGED <<workspaces, uids, content>>

CreateBinding(p) ==
    LET n == job[p].name
        b == job[p].binding
    IN  /\ At(p, "create")
        /\ Reachable(n)
        /\ b \notin content[n].bindings
        /\ content' = [content EXCEPT ![n].bindings = @ \cup {b}]
        /\ job' = [job EXCEPT ![p].pc = "bindings", ![p].todo = @ \ {b},
                              ![p].binding = None]
        /\ UNCHANGED <<workspaces, uids>>

BindingsDone(p) ==
    /\ At(p, "bindings")
    /\ job[p].todo = {}
    /\ Goto(p, "namespace")
    /\ UNCHANGED <<workspaces, uids, content>>

\* A Get, and a Create that tolerates AlreadyExists.
EnsureWorkspaceNamespace(p) ==
    /\ At(p, "namespace")
    /\ Reachable(job[p].name)
    /\ content' = [content EXCEPT ![job[p].name].namespace = TRUE]
    /\ Goto(p, "account")
    /\ UNCHANGED <<workspaces, uids>>

EnsureServiceAccount(p) ==
    LET n == job[p].name
    IN  /\ At(p, "account")
        /\ Reachable(n) /\ content[n].namespace
        /\ content' = [content EXCEPT ![n].account = TRUE]
        /\ Goto(p, "secret")
        /\ UNCHANGED <<workspaces, uids>>

\* Faulty variant of EnsureTokenSecret: a secret that is there is replaced.
ReplaceTokenSecret(p) ==
    LET n == job[p].name
    IN  /\ At(p, "secret")
        /\ Reachable(n) /\ content[n].namespace
        /\ content' = [content EXCEPT ![n].secret = "empty"]
        /\ Goto(p, "role")
        /\ UNCHANGED <<workspaces, uids>>

EnsureTokenSecret(p) ==
    LET n == job[p].name
    IN  /\ At(p, "secret")
        /\ Reachable(n) /\ content[n].namespace
        /\ content' = [content EXCEPT ![n].secret = IF @ = "none" THEN "empty" ELSE @]
        /\ Goto(p, "role")
        /\ UNCHANGED <<workspaces, uids>>

\* A binding with other subjects is repaired; the API server refuses to change
\* the role of one (Refuse).
EnsureAdminClusterRoleBinding(p) ==
    LET n == job[p].name
    IN  /\ At(p, "role")
        /\ Reachable(n) /\ content[n].crb # "otherRole"
        /\ content' = [content EXCEPT ![n].crb = "admin"]
        /\ Goto(p, "token")
        /\ UNCHANGED <<workspaces, uids>>

\* Faulty variant of WorkspaceServiceAccountToken: the secret is enough.
TokenSecretIsThere(p) ==
    /\ At(p, "token")
    /\ Reachable(job[p].name) /\ content[job[p].name].secret # "none"
    /\ Goto(p, "read")
    /\ UNCHANGED <<workspaces, uids, content>>

\* workspaceServiceAccountToken; a token that is not there yet ends the setup
\* with an error (Refuse).
WorkspaceServiceAccountToken(p) ==
    /\ At(p, "token")
    /\ Reachable(job[p].name) /\ content[job[p].name].secret = "token"
    /\ Goto(p, "read")
    /\ UNCHANGED <<workspaces, uids, content>>

\* Faulty variant of ReadWorkspace: the error of the Get is dropped.
ReadWorkspaceOrNot(p) ==
    /\ At(p, "read")
    /\ job' = [job EXCEPT ![p].pc = "mark", ![p].copy = workspaces[job[p].name]]
    /\ UNCHANGED <<workspaces, uids, content>>

\* markWorkspaceScopedCredentials reads the workspace by name ...
ReadWorkspace(p) ==
    /\ At(p, "read")
    /\ Exists(job[p].name)
    /\ job' = [job EXCEPT ![p].pc = "mark", ![p].copy = workspaces[job[p].name]]
    /\ UNCHANGED <<workspaces, uids, content>>

\* Faulty variant of MarkWorkspace: what was read is written back whatever is
\* there by now.
MarkWorkspaceAsRead(p) ==
    LET n == job[p].name
    IN  /\ At(p, "mark")
        /\ workspaces' = [workspaces EXCEPT ![n] = [job[p].copy EXCEPT !.marked = TRUE]]
        /\ Done(p)
        /\ UNCHANGED <<uids, content>>

\* ... and updates it, if it is still the one it read.
MarkWorkspace(p) ==
    LET n == job[p].name
    IN  /\ At(p, "mark")
        /\ workspaces[n] = job[p].copy
        /\ workspaces' = [workspaces EXCEPT ![n].marked = TRUE]
        /\ Done(p)
        /\ UNCHANGED <<uids, content>>

\* The calls that cannot succeed as things are; the error ends the setup.
Refused(p) ==
    LET n == job[p].name
    IN  \/ At(p, "bindings") /\ job[p].todo # {} /\ ~Reachable(n)
        \/ /\ job[p].pc \in {"create", "namespace", "account", "secret", "role",
                             "token"}
           /\ ~Reachable(n)
        \/ At(p, "create") /\ job[p].binding \in content[n].bindings
        \/ job[p].pc \in {"account", "secret"} /\ ~content[n].namespace
        \/ At(p, "role") /\ content[n].crb = "otherRole"
        \/ At(p, "token") /\ content[n].secret # "token"
        \/ At(p, "read") /\ ~Exists(n)
        \/ At(p, "mark") /\ workspaces[n] # job[p].copy

Refuse(p) ==
    /\ Refused(p)
    /\ Done(p)
    /\ UNCHANGED <<workspaces, uids, content>>

\* Faulty variant of Fail: the error ends the round.
FailRound(p) ==
    /\ job[p].pc \notin {"down", "idle", "round"}
    /\ job' = [job EXCEPT ![p] = Idle]
    /\ UNCHANGED <<workspaces, uids, content>>

\* Any call may fail for another reason; the error is logged.
Fail(p) ==
    /\ job[p].pc \notin {"down", "idle", "round"} /\ ~Refused(p)
    /\ Done(p)
    /\ UNCHANGED <<workspaces, uids, content>>

\* The process stops, and with it the round; main starts the loop again.
Crash(p) ==
    /\ ~At(p, "down")
    /\ job' = [job EXCEPT ![p] = [Idle EXCEPT !.pc = "down"]]
    /\ UNCHANGED <<workspaces, uids, content>>

StartLoop(p) ==
    /\ At(p, "down")
    /\ job' = [job EXCEPT ![p] = Idle]
    /\ UNCHANGED <<workspaces, uids, content>>

-----------------------------------------------------------------------------
(* The provisioner's HTTP handlers, kcp and the tenants.                   *)

\* POST /api/workspaces; a workspace that exists is a success.
ProvisionWorkspace(n) ==
    /\ ~Exists(n)
    /\ uids[n] < MaxUid
    /\ uids' = [uids EXCEPT ![n] = @ + 1]
    /\ workspaces' = [workspaces EXCEPT ![n] =
            [uid |-> uids[n] + 1, phase |-> "", marked |-> FALSE,
             terminating |-> FALSE]]
    /\ UNCHANGED <<content, job>>

\* POST /api/workspaces/{name}/delete
DeleteWorkspace(n) ==
    /\ IsLive(n)
    /\ workspaces' = [workspaces EXCEPT ![n].terminating = TRUE]
    /\ UNCHANGED <<uids, content, job>>

\* A workspace goes together with its logical cluster.
PurgeWorkspace(n) ==
    /\ Exists(n) /\ workspaces[n].terminating
    /\ workspaces' = [workspaces EXCEPT ![n] = None]
    /\ content' = [content EXCEPT ![n] = Fresh]
    /\ UNCHANGED <<uids, job>>

NextPhases(phase) ==
    CASE phase = "" -> {"Scheduling"}
      [] phase = "Scheduling" -> {"Initializing"}
      [] phase = "Initializing" -> {"Ready"}
      [] phase = "Ready" -> {"Unavailable"}
      [] phase = "Unavailable" -> {"Ready"}

ProgressWorkspace(n) ==
    /\ IsLive(n)
    /\ \E phase \in NextPhases(workspaces[n].phase) :
          workspaces' = [workspaces EXCEPT ![n].phase = phase]
    /\ UNCHANGED <<uids, content, job>>

\* The token controller.
IssueToken(n) ==
    /\ content[n].secret = "empty"
    /\ content[n].account
    /\ content' = [content EXCEPT ![n].secret = "token"]
    /\ UNCHANGED <<workspaces, uids, job>>

\* It also removes the token secret of an account that is not there.
DropSecret(n) ==
    /\ content[n].secret # "none"
    /\ ~content[n].account
    /\ content' = [content EXCEPT ![n].secret = "none"]
    /\ UNCHANGED <<workspaces, uids, job>>

\* What a tenant, who is an administrator of the workspace, may do to it.
Tampered(c) ==
    {[c EXCEPT !.bindings = B] : B \in SUBSET Bindings}
    \cup {[c EXCEPT !.namespace = FALSE, !.account = FALSE, !.secret = "none"],
          [c EXCEPT !.account = FALSE, !.secret = "none"],
          [c EXCEPT !.secret = "none"]}
    \cup {[c EXCEPT !.crb = r] : r \in Roles}

Tamper(n) ==
    /\ n \in Tampering
    /\ Reachable(n)
    /\ \E c \in Tampered(content[n]) : content' = [content EXCEPT ![n] = c]
    /\ UNCHANGED <<workspaces, uids, job>>

-----------------------------------------------------------------------------
Step(p) ==
    \/ StartLoop(p) \/ ReconcileWorkspaceBindings(p) \/ EndRound(p)
    \/ \E n \in Names : EnsureWorkspaceSetup(p, n)
    \/ EnsureBinding(p) \/ CreateBinding(p) \/ BindingsDone(p)
    \/ EnsureWorkspaceNamespace(p) \/ EnsureServiceAccount(p)
    \/ EnsureTokenSecret(p) \/ EnsureAdminClusterRoleBinding(p)
    \/ WorkspaceServiceAccountToken(p) \/ ReadWorkspace(p) \/ MarkWorkspace(p)
    \/ Refuse(p)

Kcp(n) ==
    \/ ProvisionWorkspace(n) \/ DeleteWorkspace(n) \/ PurgeWorkspace(n)
    \/ ProgressWorkspace(n) \/ IssueToken(n) \/ DropSecret(n) \/ Tamper(n)

Next ==
    \/ \E p \in Procs : Step(p) \/ Fail(p) \/ Crash(p)
    \/ \E n \in Names : Kcp(n)

Spec == Init /\ [][Next]_vars

-----------------------------------------------------------------------------
(* Safety.                                                                 *)

Jobs == [pc : Pcs, round : SUBSET Names, name : Names \cup {None},
         todo : SUBSET Bindings, binding : Bindings \cup {None},
         copy : Workspace \cup {None}]

\* The types of the variables; a setup that runs has the name of its workspace,
\* a binding to create or the workspace that it will update.
TypeOK ==
    /\ workspaces \in [Names -> Workspace \cup {None}]
    /\ uids \in [Names -> 0..MaxUid]
    /\ content \in [Names -> Content]
    /\ job \in [Procs -> Jobs]
    /\ \A p \in Procs :
          /\ job[p].pc \notin {"down", "idle", "round"} => job[p].name \in Names
          /\ At(p, "create") => job[p].binding \in Bindings
          /\ At(p, "mark") => job[p].copy \in Workspace

\* What EnsureWorkspaceSetup promises of a workspace.
IsSetUp(n) ==
    /\ content[n].bindings = Bindings
    /\ content[n].namespace /\ content[n].account
    /\ content[n].secret = "token" /\ content[n].crb = "admin"

\* The annotation is a promise to the kubeconfig handler and to the Headlamp
\* sync, which turn from admin credentials to the token: a workspace that has it
\* is set up in full, with a token that is there and a role that makes it
\* useful.
MarkedIsSetUp ==
    \A n \in Names : Exists(n) => (workspaces[n].marked => IsSetUp(n))

\* A workspace as the other parts of the provisioner see it.
LifeOf(n) ==
    IF ~Exists(n) THEN [state |-> "absent", marked |-> FALSE, token |-> FALSE]
    ELSE [state |-> IF workspaces[n].terminating THEN "terminating" ELSE "live",
          marked |-> workspaces[n].marked,
          token |-> content[n].secret = "token"]

Life == INSTANCE WorkspaceLife WITH life <- [n \in Names |-> LifeOf(n)]

\* Whatever the setups write back, from copies read before, changes no more of a
\* workspace than its mark: no deletion is undone, no workspace that has gone
\* comes back, and no mark is lost.  Nor does a new workspace start with the token
\* of an earlier one of its name.
ImplementsLife == Life!Spec

-----------------------------------------------------------------------------
(* Liveness.  The loop of a process goes on: every call returns, with or    *)
(* without an error.  Errors with the calls of a workspace that is not      *)
(* broken stop some time, and so do the crashes (a step that is a Step, such *)
(* as marking a marked workspace, is no error); the token controller works. *)

Fairness ==
    /\ \A p \in Procs : WF_vars(Step(p))
    /\ <>[][\A p \in Procs :
               /\ ~Crash(p)
               /\ Fail(p) /\ job[p].name \notin Broken => Step(p)]_vars
    /\ \A n \in Names : WF_vars(IssueToken(n))

FairSpec == Spec /\ Fairness

\* The workspace stays ready, its tenant leaves the setup alone, and has not
\* put a binding with another role in its way.
Undisturbed(n) ==
    /\ <>[](IsReady(n) /\ content[n].crb # "otherRole")
    /\ <>[][~Tamper(n)]_vars

\* Every workspace is set up in the end, and marked, whatever interrupted the
\* setups before, and however the tenant has damaged them; one whose setup
\* fails again and again does not keep the others from it.
SetupCompletes ==
    \A n \in Names \ Broken :
        Undisturbed(n) => <>[](IsSetUp(n) /\ workspaces[n].marked)

=============================================================================
