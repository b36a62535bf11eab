---------------------------- MODULE HeadlampSync ----------------------------
(***************************************************************************)
(* The provisioner's Headlamp synchronisation (internal/provisioner/        *)
(* headlamp.go): every 30 seconds, and in a goroutine after each workspace *)
(* setup and each deletion, syncHeadlamp reads the shared kubeconfig       *)
(* secret, lists the consumer workspaces, rebuilds their contexts, writes  *)
(* the secret back and restarts Headlamp.  Any number of these run at once. *)
(*                                                                         *)
(* The secret's resource version is abstracted to what the Update needs of *)
(* it: fresh says that the version a sync read is still the current one.    *)
(* An Update that changes nothing leaves the version as it is.             *)
(***************************************************************************)
EXTENDS Naturals, FiniteSets

CONSTANTS
    Procs,     \* calls of syncHeadlamp that may be running
    Loop,      \* the one that startHeadlampReconcileLoop runs
    Names,     \* workspace names
    MaxUid,    \* bound: incarnations of a workspace name
    None       \* no workspace, no entry, no name

\* token: the workspace's service account has a token; scoped: the workspace is
\* annotated to have one.  Of the two, a listing shows the annotation.
Workspace == [uid : 1..MaxUid, token : BOOLEAN, scoped : BOOLEAN,
              terminating : BOOLEAN]
Snapshots == [uid : 1..MaxUid, scoped : BOOLEAN]
Admin     == [cred |-> "admin", uid |-> 0]
Token(u)  == [cred |-> "token", uid |-> u]
Entries   == {Admin} \cup {Token(u) : u \in 1..MaxUid}

ASSUME ConstantTypes ==
    /\ Loop \in Procs
    /\ MaxUid \in Nat
    /\ None \notin Names /\ None \notin Workspace
    /\ None \notin Snapshots /\ None \notin Entries

VARIABLES
    workspaces,  \* the consumer workspaces
    uids,        \* uids[n]: how often a workspace n has been created
    epoch,       \* how often what a listing of the workspaces shows has changed
    since,       \* (history) since[n]: the epoch of the annotation of n, then of
                 \* its deletion; 0 before the first and for the next n
    secret,      \* the managed entries of the secret, and (history) the epoch
                 \* of the listing they were last written from
    rollout,     \* has the Headlamp deployment been told to restart?
    loaded,      \* the entries Headlamp has loaded
    sync         \* sync[p]: the progress of call p

kcp  == <<workspaces, uids, epoch, since>>
vars == <<kcp, secret, rollout, loaded, sync>>

Kinds     == {"tick", "add", "delete"}
Pcs       == {"idle", "get", "list", "recheck", "build", "update", "restart"}

\* listed: the names removeStaleHeadlampEntries keeps; desired: the workspaces
\* entries are built for; built: those whose entry has been dealt with.
Idle == [pc |-> "idle", kind |-> "tick", name |-> None, fresh |-> FALSE,
         epoch |-> 0, listed |-> {}, desired |-> [n \in Names |-> None],
         entries |-> [n \in Names |-> None], todo |-> {}]

\* A sync that has written the secret needs nothing more of what it has read.
Restarting == [Idle EXCEPT !.pc = "restart"]

NoEntries == [n \in Names |-> None]

Init ==
    /\ workspaces = [n \in Names |-> None]
    /\ uids = [n \in Names |-> 0]
    /\ epoch = 0
    /\ since = [n \in Names |-> 0]
    /\ secret = [entries |-> NoEntries, epoch |-> 0]
    /\ rollout = FALSE
    /\ loaded = NoEntries
    /\ sync = [p \in Procs |-> Idle]

At(p, pc)   == sync[p].pc = pc
Goto(p, pc) == sync' = [sync EXCEPT ![p].pc = pc]
Return(p)   == sync' = [sync EXCEPT ![p] = Idle]

Exists(n)  == workspaces[n] # None
IsLive(n)  == IF Exists(n) THEN ~workspaces[n].terminating ELSE FALSE
Current(n) == [uid |-> workspaces[n].uid, scoped |-> workspaces[n].scoped]

-----------------------------------------------------------------------------
(* syncHeadlamp.                                                           *)

Start(p, kind, n) ==
    /\ At(p, "idle")
    /\ sync' = [sync EXCEPT ![p] =
            [Idle EXCEPT !.pc = "get", !.kind = kind, !.name = n]]
    /\ UNCHANGED <<kcp, secret, rollout, loaded>>

\* The reconcile loop, every 30 seconds.
ReconcileHeadlamp == Start(Loop, "tick", None)

\* EnsureWorkspaceSetup ends with go syncHeadlamp(name, true), for every
\* workspace and in every round of the loop.
SyncAfterSetup(p, n) ==
    /\ p # Loop
    /\ Exists(n) /\ workspaces[n].scoped
    /\ Start(p, "add", n)

\* Faulty variant of SyncAfterDelete: the name is lost.
SyncAfterSomeDelete(p, n) ==
    /\ p # Loop
    /\ uids[n] > 0 /\ ~IsLive(n)
    /\ Start(p, "delete", None)

\* DeleteWorkspace ends with go syncHeadlamp(name, false).
SyncAfterDelete(p, n) ==
    /\ p # Loop
    /\ uids[n] > 0 /\ ~IsLive(n)
    /\ Start(p, "delete", n)

GetSecret(p) ==
    /\ At(p, "get")
    /\ sync' = [sync EXCEPT ![p].pc = "list", ![p].fresh = TRUE]
    /\ UNCHANGED <<kcp, secret, rollout, loaded>>

\* The names whose entries need the workspace's token, which is read later.
Todo(desired) ==
    {n \in Names : IF desired[n] = None THEN FALSE ELSE desired[n].scoped}

\* Faulty variant of ListConsumerWorkspaces: the deleted name is dropped first, so
\* that its entry is pruned with those that are not in the listing.
ListWithoutDeleted(p) ==
    LET gone == IF sync[p].kind = "delete" THEN {sync[p].name} ELSE {}
        kept == {n \in Names : IsLive(n)} \ gone
        desired == [n \in Names |-> IF n \in kept THEN Current(n) ELSE None]
    IN  /\ At(p, "list")
        /\ sync' = [sync EXCEPT
                ![p].pc = IF sync[p].kind = "add" THEN "recheck" ELSE "build",
                ![p].epoch = epoch,
                ![p].listed = kept,
                ![p].desired = desired,
                ![p].todo = Todo(desired)]
        /\ UNCHANGED <<kcp, secret, rollout, loaded>>

\* A deleted name is dropped from the workspaces to write, after the entries
\* that are not in the listing have been pruned.
ListConsumerWorkspaces(p) ==
    LET live == {n \in Names : IsLive(n)}
        gone == IF sync[p].kind = "delete" THEN {sync[p].name} ELSE {}
        desired == [n \in Names |->
                        IF n \in live \ gone THEN Current(n) ELSE None]
    IN  /\ At(p, "list")
        /\ sync' = [sync EXCEPT
                ![p].pc = IF sync[p].kind = "add" THEN "recheck" ELSE "build",
                ![p].epoch = epoch,
                ![p].listed = live,
                ![p].desired = desired,
                ![p].todo = Todo(desired)]
        /\ UNCHANGED <<kcp, secret, rollout, loaded>>

\* Faulty variant of Recheck: a workspace that is being deleted is taken as well.
RecheckTerminating(p) ==
    LET n == sync[p].name
    IN  /\ At(p, "recheck")
        /\ \/ LET desired == [sync[p].desired EXCEPT ![n] = Current(n)]
              IN  /\ Exists(n)
                  /\ sync' = [sync EXCEPT ![p].pc = "build",
                                          ![p].desired = desired,
                                          ![p].todo = Todo(desired)]
           \/ Goto(p, "build")
        /\ UNCHANGED <<kcp, secret, rollout, loaded>>

\* After a setup the workspace is read once more; an error, or a deletion,
\* leaves what the listing said.
Recheck(p) ==
    LET n == sync[p].name
    IN  /\ At(p, "recheck")
        /\ \/ LET desired == [sync[p].desired EXCEPT ![n] = Current(n)]
              IN  /\ IsLive(n)
                  /\ sync' = [sync EXCEPT ![p].pc = "build",
                                          ![p].desired = desired,
                                          ![p].todo = Todo(desired)]
           \/ Goto(p, "build")
        /\ UNCHANGED <<kcp, secret, rollout, loaded>>

\* The token secret is read by the workspace's path, so it is the one of the
\* workspace that has the name now, annotated or not.  Without a token the entry
\* stays as it is.
ReadToken(p, n) ==
    LET token == IF Exists(n) /\ workspaces[n].token
                 THEN Token(workspaces[n].uid) ELSE None
    IN  /\ At(p, "build")
        /\ n \in sync[p].todo
        /\ sync' = [sync EXCEPT ![p].todo = @ \ {n}, ![p].entries[n] = token]
        /\ UNCHANGED <<kcp, secret, rollout, loaded>>

\* Nor does it end the sync when a token that is there cannot be read.
ReadTokenFails(p, n) ==
    /\ At(p, "build")
    /\ n \in sync[p].todo
    /\ Exists(n) /\ workspaces[n].token
    /\ sync' = [sync EXCEPT ![p].todo = @ \ {n}]
    /\ UNCHANGED <<kcp, secret, rollout, loaded>>

Built(p) ==
    /\ At(p, "build")
    /\ sync[p].todo = {}
    /\ Goto(p, "update")
    /\ UNCHANGED <<kcp, secret, rollout, loaded>>

\* Faulty variant of Written: stale entries are not removed.
WrittenUnpruned(p) ==
    LET s == sync[p]
    IN  [n \in Names |->
            IF s.desired[n] # None /\ s.entries[n] # None
            THEN s.entries[n]
            ELSE IF s.desired[n] # None /\ n \notin Todo(s.desired)
                 THEN Admin
                 ELSE secret.entries[n]]

\* Faulty variant of Written: without its token a context gets the admin
\* credentials.
WrittenWithFallback(p) ==
    LET s == sync[p]
    IN  [n \in Names |->
            IF s.desired[n] # None /\ s.entries[n] # None
            THEN s.entries[n]
            ELSE IF s.desired[n] # None
                 THEN Admin
                 ELSE IF n \in s.listed THEN secret.entries[n] ELSE None]

\* The entries a sync writes: those of the secret it read without the names it
\* did not list, overwritten by those it could build.
Written(p) ==
    LET s == sync[p]
    IN  [n \in Names |->
            IF s.desired[n] # None /\ s.entries[n] # None
            THEN s.entries[n]
            ELSE IF s.desired[n] # None /\ n \notin Todo(s.desired)
                 THEN Admin
                 ELSE IF n \in s.listed THEN secret.entries[n] ELSE None]

\* Faulty variants of UpdateSecret: a write that is not conditional on the
\* version that was read, and no restart when there was nothing to write.
OverwriteSecret(p) ==
    /\ At(p, "update")
    /\ secret' = [entries |-> Written(p), epoch |-> sync[p].epoch]
    /\ Goto(p, "restart")
    /\ UNCHANGED <<kcp, rollout, loaded>>

UpdateSecretIfNew(p) ==
    /\ At(p, "update")
    /\ sync[p].fresh
    /\ IF Written(p) = secret.entries
       THEN Return(p) /\ UNCHANGED secret
       ELSE /\ secret' = [entries |-> Written(p), epoch |-> sync[p].epoch]
            /\ sync' = [q \in Procs |->
                    [sync[q] EXCEPT !.fresh = FALSE,
                                    !.pc = IF q = p THEN "restart" ELSE @]]
    /\ UNCHANGED <<kcp, rollout, loaded>>

UpdateSecret(p) ==
    /\ At(p, "update")
    /\ sync[p].fresh
    /\ IF Written(p) = secret.entries
       THEN sync' = [sync EXCEPT ![p] = Restarting] /\ UNCHANGED secret
       ELSE /\ secret' = [entries |-> Written(p), epoch |-> sync[p].epoch]
            /\ sync' = [q \in Procs |->
                    IF q = p THEN Restarting
                    ELSE [sync[q] EXCEPT !.fresh = FALSE]]
    /\ UNCHANGED <<kcp, rollout, loaded>>

\* Faulty variant of Conflict: a retry reads the secret again and keeps the rest.
ConflictRetried(p) ==
    /\ At(p, "update")
    /\ ~sync[p].fresh
    /\ sync' = [sync EXCEPT ![p].fresh = TRUE]
    /\ UNCHANGED <<kcp, secret, rollout, loaded>>

\* A conflict is logged and the sync gives up.
Conflict(p) ==
    /\ At(p, "update")
    /\ ~sync[p].fresh
    /\ Return(p)
    /\ UNCHANGED <<kcp, secret, rollout, loaded>>

\* The restart is requested whether or not the Update changed anything.
RestartHeadlamp(p) ==
    /\ At(p, "restart")
    /\ rollout' = TRUE
    /\ Return(p)
    /\ UNCHANGED <<kcp, secret, loaded>>

\* A call to the API server fails, or the process stops: the sync is gone.
Fail(p) ==
    /\ ~At(p, "idle")
    /\ Return(p)
    /\ UNCHANGED <<kcp, secret, rollout, loaded>>

-----------------------------------------------------------------------------
(* The workspaces in kcp, and Headlamp.                                    *)

\* A change that a listing shows.
Changed(n, ws) ==
    /\ workspaces' = [workspaces EXCEPT ![n] = ws]
    /\ epoch' = epoch + 1
    /\ UNCHANGED <<secret, rollout, loaded, sync>>

\* ProvisionWorkspace.
CreateWorkspace(n) ==
    /\ ~Exists(n)
    /\ uids[n] < MaxUid
    /\ uids' = [uids EXCEPT ![n] = @ + 1]
    /\ Changed(n, [uid |-> uids[n] + 1, token |-> FALSE, scoped |-> FALSE,
                   terminating |-> FALSE])
    /\ since' = [since EXCEPT ![n] = 0]

\* A setup creates the token secret, which the token controller fills in; a tenant,
\* who is an administrator of the workspace, may delete it again.
TurnToken(n) ==
    /\ Exists(n)
    /\ workspaces' = [workspaces EXCEPT ![n].token = ~@]
    /\ UNCHANGED <<uids, epoch, since, secret, rollout, loaded, sync>>

\* The last step of a setup.  It goes by name, so that the token the setup has seen
\* may be that of an earlier workspace of the name.
MarkWorkspace(n) ==
    /\ Exists(n) /\ ~workspaces[n].scoped
    /\ Changed(n, [workspaces[n] EXCEPT !.scoped = TRUE])
    /\ since' = IF IsLive(n) THEN [since EXCEPT ![n] = epoch'] ELSE since
    /\ UNCHANGED uids

DeleteWorkspace(n) ==
    /\ IsLive(n)
    /\ Changed(n, [workspaces[n] EXCEPT !.terminating = TRUE])
    /\ since' = [since EXCEPT ![n] = epoch']
    /\ UNCHANGED uids

PurgeWorkspace(n) ==
    /\ Exists(n) /\ workspaces[n].terminating
    /\ Changed(n, None)
    /\ UNCHANGED <<uids, since>>

\* The new Headlamp pod reads the secret when it starts.
RollOut ==
    /\ rollout
    /\ rollout' = FALSE
    /\ loaded' = secret.entries
    /\ UNCHANGED <<kcp, secret, sync>>

-----------------------------------------------------------------------------
Step(p) ==
    \/ GetSecret(p) \/ ListConsumerWorkspaces(p) \/ Recheck(p)
    \/ \E n \in Names : ReadToken(p, n)
    \/ Built(p) \/ UpdateSecret(p) \/ Conflict(p) \/ RestartHeadlamp(p)

TokensFail(p) ==
    \E n \in Names : ReadTokenFails(p, n)

Spawn(p) == \E n \in Names : SyncAfterSetup(p, n) \/ SyncAfterDelete(p, n)

Kcp(n) == \/ CreateWorkspace(n) \/ TurnToken(n) \/ MarkWorkspace(n)
          \/ DeleteWorkspace(n) \/ PurgeWorkspace(n)

Next ==
    \/ ReconcileHeadlamp
    \/ \E p \in Procs : Step(p) \/ TokensFail(p) \/ Spawn(p) \/ Fail(p)
    \/ \E n \in Names : Kcp(n)
    \/ RollOut

Spec == Init /\ [][Next]_vars

-----------------------------------------------------------------------------
(* Safety.                                                                 *)

Syncs == [pc : Pcs, kind : Kinds, name : Names \cup {None}, fresh : BOOLEAN,
          epoch : Nat, listed : SUBSET Names,
          desired : [Names -> Snapshots \cup {None}],
          entries : [Names -> Entries \cup {None}], todo : SUBSET Names]

\* The types of the variables; an add or a delete has the name of its workspace.
TypeOK ==
    /\ workspaces \in [Names -> Workspace \cup {None}]
    /\ uids \in [Names -> 0..MaxUid]
    /\ epoch \in Nat
    /\ since \in [Names -> Nat]
    /\ secret \in [entries : [Names -> Entries \cup {None}], epoch : Nat]
    /\ rollout \in BOOLEAN
    /\ loaded \in [Names -> Entries \cup {None}]
    /\ sync \in [Procs -> Syncs]
    /\ \A p \in Procs :
          sync[p].pc # "idle" /\ sync[p].kind # "tick" => sync[p].name \in Names

\* Concurrent syncs do not undo each other: entries in the secret are never
\* replaced by those of a sync that listed the workspaces earlier than the one
\* that wrote them.  It takes both the order of syncHeadlamp (the secret is
\* read before the workspaces are listed) and the version check of the Update.
NeverFromOlderListing == [][secret'.epoch >= secret.epoch]_vars

\* Once the secret has been written from a listing in which a workspace is
\* annotated, a context with its token stays as it is while that workspace is live:
\* no sync that listed the workspaces before drops it or turns it back into one
\* with the provisioner's admin credentials, and neither does one for the deletion
\* of an earlier workspace of the name.  (A token is read whatever the annotation,
\* so it may be there earlier; that context a sync may still replace.)
TokenContextKept ==
    [][\A n \in Names :
        /\ IsLive(n) /\ workspaces[n].scoped
        /\ secret.epoch >= since[n]
        /\ secret.entries[n] = Token(workspaces[n].uid)
        => secret'.entries[n] = secret.entries[n]]_vars

\* A context of a deleted workspace does not outlive the next write: once the
\* secret has been written from a listing that is not older than the deletion, it
\* has no context of that name until a workspace has the name again.  The syncs
\* that set the workspace up, re-read it or read its token while it went do not
\* bring it back, however late they write.
NoContextOfTheGone ==
    \A n \in Names :
        ~IsLive(n) /\ secret.epoch >= since[n] => secret.entries[n] = None

\* The entry that the secret should have for n.
Wanted(n) ==
    IF ~IsLive(n) THEN None
    ELSE IF workspaces[n].scoped THEN Token(workspaces[n].uid) ELSE Admin

\* A sync that writes while its listing is still how things are makes every entry
\* what it should be, but for two kinds that it leaves as they were: that of the
\* name it has been told is deleted, if there is a new workspace of that name, and
\* those whose token it could not read.  There is no third, such as a context that
\* falls back to the admin credentials when its token is missing.
CurrentListingWritten ==
    [][\A p \in Procs, n \in Names :
        At(p, "update") /\ sync'[p].pc = "restart" /\ sync[p].epoch = epoch =>
            \/ secret'.entries[n] = Wanted(n)
            \/ /\ IsLive(n) /\ secret'.entries[n] = secret.entries[n]
               /\ \/ sync[p].kind = "delete" /\ sync[p].name = n
                  \/ workspaces[n].scoped /\ sync[p].entries[n] = None]_vars

-----------------------------------------------------------------------------
(* Liveness.  The loop ticks, and a sync that runs goes on (its calls       *)
(* return, with or without an error); errors stop some time, after any     *)
(* number of them.  The goroutines need not be started.  The deployment     *)
(* controller rolls out what it is told to.                                *)

Fairness ==
    /\ WF_vars(ReconcileHeadlamp)
    /\ \A p \in Procs : WF_vars(Step(p))
    /\ <>[][\A p \in Procs : Fail(p) \/ TokensFail(p) => Step(p)]_vars
    /\ WF_vars(RollOut)

FairSpec == Spec /\ Fairness

Quiet == <>[][UNCHANGED workspaces]_vars

\* A workspace that has been annotated, but has no token: its entry stays as it is.
Tokenless(n) == IsLive(n) /\ workspaces[n].scoped /\ ~workspaces[n].token

\* Once the workspaces stop changing, the secret has an entry for each live
\* workspace, with the credentials the workspace is annotated for, and for
\* no other, and keeps it: the periodic sync repairs what failed or was lost.
SecretAligned ==
    Quiet => <>[](\A n \in Names : Tokenless(n) \/ secret.entries[n] = Wanted(n))

\* ... and Headlamp runs with it, even if a sync wrote the secret and stopped
\* before it asked for the restart: the next sync asks again.
HeadlampAligned ==
    Quiet => <>[](\A n \in Names : Tokenless(n) \/ loaded[n] = Wanted(n))

=============================================================================
