------------------------- MODULE ProvisionerRequests -------------------------
(***************************************************************************)
(* The HTTP side of the provisioner (cmd/provisioner/main.go, kubeconfig.go *)
(* and workspace.go of internal/provisioner, static/index.html): the status *)
(* page, which lists the workspaces, then asks the logical cluster of each *)
(* terminating one how far its deletion is, and reloads itself while       *)
(* something is pending; and the kubeconfig download, which reads the       *)
(* workspace and then, by path, its token.  Both meet workspaces that are  *)
(* set up, changed, deleted and created again between any two of the reads. *)
(*                                                                         *)
(* The setup of a workspace is one step here; WorkspaceSetup has its calls. *)
(***************************************************************************)
EXTENDS Naturals

CONSTANTS
    Names,    \* workspace names
    MaxUid,   \* bound: incarnations of a workspace name
    None      \* no workspace, no row, no name, no answer

Phases   == {"", "Scheduling", "Initializing", "Ready", "Unavailable"}
Progress == {"Terminating", "Deleting content", "Finalizing parent"}
Workspace == [uid : 1..MaxUid, phase : Phases, marked : BOOLEAN,
              terminating : BOOLEAN]

\* The part of a WorkspaceInfo that the page depends on.  History: uid, and asked
\* (the logical cluster has answered how far its deletion is).
Row == [uid : 1..MaxUid, phase : Phases \cup {"Terminating"},
        status : Phases \cup Progress, transient : BOOLEAN, headlamp : BOOLEAN,
        asked : BOOLEAN]

ASSUME ConstantTypes ==
    /\ MaxUid \in Nat
    /\ None \notin Names \cup Workspace \cup Row
    /\ None \notin {"admin", "token", "error"}

VARIABLES
    workspaces,  \* the Workspace objects under root:consumers
    uids,        \* uids[n]: how often a workspace n has been created
    cluster,     \* cluster[n]: the logical cluster of workspace n
    token,       \* token[n]: does it hold a token that can be read?
    page,        \* the status page in a browser
    download     \* the last kubeconfig request

kcp  == <<workspaces, uids, cluster, token>>
vars == <<kcp, page, download>>

\* none: not scheduled; deleting: has a deletion timestamp; emptying, empty: the
\* condition WorkspaceContentDeleted is False, True.
Clusters == {"none", "live", "deleting", "emptying", "empty", "gone"}

NoRows == [n \in Names |-> None]
Closed == [pc |-> "closed", rows |-> NoRows, next |-> NoRows, todo |-> {}]
Unasked == [pc |-> "idle", name |-> None, uid |-> 0, answer |-> None]

Init ==
    /\ workspaces = NoRows
    /\ uids = [n \in Names |-> 0]
    /\ cluster = [n \in Names |-> "none"]
    /\ token = [n \in Names |-> FALSE]
    /\ page = Closed
    /\ download = Unasked

Exists(n) == workspaces[n] # None
IsLive(n) == IF Exists(n) THEN ~workspaces[n].terminating ELSE FALSE

\* Spec.URL and Spec.Cluster are set when a workspace is scheduled.
IsScheduled(n) == cluster[n] # "none"

IsTransientPhase(phase) == phase \notin {"Ready", ""}

-----------------------------------------------------------------------------
(* The status page.                                                        *)

\* Faulty variant of ListedRow: a terminating workspace is as transient as its
\* phase.
ListedRowByPhase(ws) ==
    [uid |-> ws.uid,
     phase |-> IF ws.terminating THEN "Terminating" ELSE ws.phase,
     status |-> IF ws.terminating THEN "Terminating" ELSE ws.phase,
     transient |-> IsTransientPhase(ws.phase),
     headlamp |-> ~ws.terminating /\ ws.phase = "Ready" /\ ws.marked,
     asked |-> FALSE]

\* The row of a workspace as listed; that of a terminating one gets its status
\* from another read.
ListedRow(ws) ==
    [uid |-> ws.uid,
     phase |-> IF ws.terminating THEN "Terminating" ELSE ws.phase,
     status |-> IF ws.terminating THEN "Terminating" ELSE ws.phase,
     transient |-> ws.terminating \/ IsTransientPhase(ws.phase),
     headlamp |-> ~ws.terminating /\ ws.phase = "Ready" /\ ws.marked,
     asked |-> FALSE]

\* GET /: ListWorkspaces begins.  The browser keeps the old page meanwhile.
ListWorkspaces ==
    LET terminating == {n \in Names : Exists(n) /\ ~IsLive(n)}
    IN  /\ page' = [page EXCEPT
               !.pc = "loading",
               !.next = [n \in Names |-> IF Exists(n)
                                         THEN ListedRow(workspaces[n]) ELSE None],
               !.todo = terminating]
        /\ UNCHANGED <<kcp, download>>

\* A user loads the page, or is redirected to it by a handler.
OpenPage == page.pc # "loading" /\ ListWorkspaces

\* The script of the page reloads it every 3 seconds if it shows a transient
\* workspace, or one that is Ready without Headlamp access.
ReloadsItself ==
    \E n \in Names :
        IF page.rows[n] = None THEN FALSE
        ELSE \/ page.rows[n].transient
             \/ page.rows[n].phase = "Ready" /\ ~page.rows[n].headlamp

Reload == page.pc = "open" /\ ReloadsItself /\ ListWorkspaces

\* The listing fails: the page shows the error, and no workspaces.
ListFails ==
    /\ page.pc # "loading"
    /\ page' = [Closed EXCEPT !.pc = "open"]
    /\ UNCHANGED <<kcp, download>>

\* Faulty variant of DeletionStatus: NotFound is an error like any other.
DeletionStatusOrError(n, uid) ==
    LET gone == ~Exists(n) \/ uids[n] # uid \/ cluster[n] = "gone"
    IN  CASE gone -> "Terminating"
          [] ~gone /\ cluster[n] \in {"none", "empty"} -> "Finalizing parent"
          [] ~gone /\ cluster[n] \in {"deleting", "emptying"} -> "Deleting content"
          [] OTHER -> "Terminating"

\* logicalClusterDeletionStatus.  The logical cluster is addressed by its own
\* name, so that of another workspace of the name is never reached.
DeletionStatus(n, uid) ==
    LET gone == ~Exists(n) \/ uids[n] # uid \/ cluster[n] = "gone"
    IN  CASE gone -> "Finalizing parent"
          [] ~gone /\ cluster[n] \in {"none", "empty"} -> "Finalizing parent"
          [] ~gone /\ cluster[n] \in {"deleting", "emptying"} -> "Deleting content"
          [] OTHER -> "Terminating"

ReadDeletionStatus(n) ==
    /\ n \in page.todo
    /\ page' = [page EXCEPT !.todo = @ \ {n}, !.next[n].asked = TRUE,
                            !.next[n].status = DeletionStatus(n, page.next[n].uid)]
    /\ UNCHANGED <<kcp, download>>

\* An error leaves the plain status.
ReadDeletionStatusFails(n) ==
    /\ n \in page.todo
    /\ page' = [page EXCEPT !.todo = @ \ {n}]
    /\ UNCHANGED <<kcp, download>>

\* Faulty variant of RenderPage: it does not wait for the deletion statuses.
RenderPageEarly ==
    /\ page.pc = "loading"
    /\ page' = [page EXCEPT !.pc = "open", !.rows = page.next, !.next = NoRows]
    /\ UNCHANGED <<kcp, download>>

RenderPage ==
    /\ page.pc = "loading"
    /\ page.todo = {}
    /\ page' = [page EXCEPT !.pc = "open", !.rows = page.next, !.next = NoRows]
    /\ UNCHANGED <<kcp, download>>

-----------------------------------------------------------------------------
(* GET /api/workspaces/{name}/kubeconfig.                                  *)

RequestKubeconfig(n) ==
    /\ download.pc = "idle"
    /\ download' = [Unasked EXCEPT !.pc = "get", !.name = n]
    /\ UNCHANGED <<kcp, page>>

Answer(d, a) == download' = [d EXCEPT !.pc = "idle", !.answer = a]

\* The workspace decides on the credentials.  Those of the provisioner are at
\* hand; the token of the workspace takes another read.
GetWorkspace ==
    LET n == download.name
        d == [download EXCEPT !.uid = workspaces[n].uid]
    IN  /\ download.pc = "get"
        /\ IF ~Exists(n) \/ ~IsScheduled(n) THEN Answer(download, "error")
           ELSE IF workspaces[n].marked THEN download' = [d EXCEPT !.pc = "token"]
                ELSE Answer(d, "admin")
        /\ UNCHANGED <<kcp, page>>

\* Faulty variant of ReadToken: without a token, the admin credentials do.
ReadTokenOrElse ==
    /\ download.pc = "token"
    /\ Answer(download, IF token[download.name] THEN "token" ELSE "admin")
    /\ UNCHANGED <<kcp, page>>

\* workspaceServiceAccountToken, by the path of the workspace: whoever has the
\* name now.
ReadToken ==
    /\ download.pc = "token"
    /\ Answer(download, IF token[download.name] THEN "token" ELSE "error")
    /\ UNCHANGED <<kcp, page>>

RequestFails ==
    /\ download.pc # "idle"
    /\ Answer(download, "error")
    /\ UNCHANGED <<kcp, page>>

-----------------------------------------------------------------------------
(* kcp, the background setup and the tenants.                              *)

\* POST /api/workspaces; a workspace that exists, even a terminating one, is
\* a success.
ProvisionWorkspace(n) ==
    /\ ~Exists(n)
    /\ uids[n] < MaxUid
    /\ uids' = [uids EXCEPT ![n] = @ + 1]
    /\ workspaces' = [workspaces EXCEPT ![n] =
            [uid |-> uids[n] + 1, phase |-> "", marked |-> FALSE,
             terminating |-> FALSE]]
    /\ UNCHANGED <<cluster, token, page, download>>

\* POST /api/workspaces/{name}/delete
DeleteWorkspace(n) ==
    /\ IsLive(n)
    /\ workspaces' = [workspaces EXCEPT ![n].terminating = TRUE]
    /\ UNCHANGED <<uids, cluster, token, page, download>>

NextPhase(phase) ==
    CASE phase = "" -> "Scheduling"
      [] phase = "Scheduling" -> "Initializing"
      [] OTHER -> "Ready"

\* The workspace gets its logical cluster when it has been scheduled.
ProgressWorkspace(n) ==
    /\ IsLive(n)
    /\ workspaces[n].phase # "Ready"
    /\ workspaces' = [workspaces EXCEPT ![n].phase = NextPhase(@)]
    /\ cluster' = [cluster EXCEPT ![n] =
            IF NextPhase(workspaces[n].phase) = "Scheduling" THEN "none" ELSE "live"]
    /\ UNCHANGED <<uids, token, page, download>>

LoseWorkspace(n) ==
    /\ IsLive(n)
    /\ workspaces[n].phase = "Ready"
    /\ workspaces' = [workspaces EXCEPT ![n].phase = "Unavailable"]
    /\ UNCHANGED <<uids, cluster, token, page, download>>

\* Faulty variant of SetUpWorkspace: the annotation is left out.
SetUpUnmarked(n) ==
    /\ IsLive(n) /\ IsScheduled(n)
    /\ ~IsTransientPhase(workspaces[n].phase)
    /\ token' = [token EXCEPT ![n] = TRUE]
    /\ UNCHANGED <<workspaces, uids, cluster, page, download>>

\* EnsureWorkspaceSetup, for a workspace that is not transient: the token, then
\* the annotation.  It repairs a token that has been deleted.
SetUpWorkspace(n) ==
    /\ IsLive(n) /\ IsScheduled(n)
    /\ ~IsTransientPhase(workspaces[n].phase)
    /\ token' = [token EXCEPT ![n] = TRUE]
    /\ workspaces' = [workspaces EXCEPT ![n].marked = TRUE]
    /\ UNCHANGED <<uids, cluster, page, download>>

\* markWorkspaceScopedCredentials, of a setup begun earlier: the workspace may
\* have become unavailable or terminating since, or be a new one of the name.
FinishSetUp(n) ==
    /\ Exists(n)
    /\ IsScheduled(n) \/ uids[n] > 1
    /\ workspaces' = [workspaces EXCEPT ![n].marked = TRUE]
    /\ UNCHANGED <<uids, cluster, token, page, download>>

\* A tenant deletes the token secret, or its service account.
DropToken(n) ==
    /\ token[n]
    /\ token' = [token EXCEPT ![n] = FALSE]
    /\ UNCHANGED <<workspaces, uids, cluster, page, download>>

\* The deletion of the logical cluster and of what is in it.
AfterStage(stage) ==
    CASE stage = "live" -> "deleting"
      [] stage = "deleting" -> "emptying"
      [] stage = "emptying" -> "empty"
      [] OTHER -> "gone"

ProgressDeletion(n) ==
    /\ Exists(n) /\ ~IsLive(n)
    /\ cluster[n] \notin {"none", "gone"}
    /\ cluster' = [cluster EXCEPT ![n] = AfterStage(@)]
    /\ token' = [token EXCEPT ![n] = @ /\ cluster[n] \in {"live", "deleting"}]
    /\ UNCHANGED <<workspaces, uids, page, download>>

PurgeWorkspace(n) ==
    /\ Exists(n) /\ ~IsLive(n)
    /\ cluster[n] \in {"none", "gone"}
    /\ workspaces' = [workspaces EXCEPT ![n] = None]
    /\ cluster' = [cluster EXCEPT ![n] = "none"]
    /\ UNCHANGED <<uids, token, page, download>>

-----------------------------------------------------------------------------
Load == Reload \/ RenderPage \/ \E n \in Names : ReadDeletionStatus(n)

Respond == GetWorkspace \/ ReadToken

Settle(n) == \/ ProgressWorkspace(n) \/ SetUpWorkspace(n)
             \/ ProgressDeletion(n) \/ PurgeWorkspace(n)

Next ==
    \/ OpenPage \/ ListFails \/ Load
    \/ \E n \in Names : ReadDeletionStatusFails(n)
    \/ \E n \in Names : RequestKubeconfig(n)
    \/ Respond \/ RequestFails
    \/ \E n \in Names : \/ ProvisionWorkspace(n) \/ DeleteWorkspace(n)
                        \/ LoseWorkspace(n) \/ FinishSetUp(n) \/ DropToken(n)
                        \/ Settle(n)

Spec == Init /\ [][Next]_vars

-----------------------------------------------------------------------------
(* Safety.                                                                 *)

\* The types of the variables; a page that loads has a row for each workspace
\* whose deletion status it will read.
TypeOK ==
    /\ workspaces \in [Names -> Workspace \cup {None}]
    /\ uids \in [Names -> 0..MaxUid]
    /\ cluster \in [Names -> Clusters]
    /\ token \in [Names -> BOOLEAN]
    /\ page \in [pc : {"closed", "loading", "open"},
                 rows : [Names -> Row \cup {None}],
                 next : [Names -> Row \cup {None}], todo : SUBSET Names]
    /\ \A n \in page.todo : page.pc = "loading" /\ page.next[n] # None
    /\ download \in [pc : {"idle", "get", "token"}, name : Names \cup {None},
                     uid : 0..MaxUid, answer : {None, "admin", "token", "error"}]
    /\ download.pc # "idle" => download.name \in Names

\* Once the page has shown that Headlamp has the credentials of a workspace, a
\* download for it never contains the provisioner's admin credentials, not
\* even while its token is gone or the workspace is being deleted.
NeverBackToAdmin ==
    [][(download.pc # "idle" /\ download'.answer = "admin") =>
        \A n \in Names : page.rows[n] # None /\ n = download.name =>
            ~(page.rows[n].headlamp /\ page.rows[n].uid = download'.uid)]_vars

Rank(status) == CASE status = "Finalizing parent" -> 2
                  [] status = "Deleting content" -> 1
                  [] OTHER -> 0

\* The page does not go back on the progress of a deletion: from one load to
\* the next, a terminating workspace gets no earlier status, unless a read of
\* its logical cluster failed.
DeletionStatusAdvances ==
    [][\A n \in Names :
        (page.rows[n] # None /\ page'.rows[n] # None) =>
            (page.rows[n].uid = page'.rows[n].uid /\ page'.rows[n].asked =>
                Rank(page'.rows[n].status) >= Rank(page.rows[n].status))]_vars

\* Documented: the page reloads itself while any workspace it shows is in a
\* transient phase, one that is not yet stable.
ReloadsWhileUnstable ==
    \A n \in Names :
        (page.pc = "open" /\ page.rows[n] # None /\ page.rows[n].phase # "Ready")
        => ReloadsItself

-----------------------------------------------------------------------------
(* Liveness.  The browser reloads the page (nobody leaves a dialog open for *)
(* ever) and requests are answered; kcp and the background setup finish     *)
(* what they have begun.  Users need not do anything.                       *)

Fairness ==
    /\ WF_vars(Load) /\ WF_vars(Respond)
    /\ \A n \in Names : WF_vars(Settle(n))

FairSpec == Spec /\ Fairness

\* The page waits for n: a deletion, a start, or Headlamp's access.
Awaited(n) ==
    IF page.rows[n] = None THEN FALSE
    ELSE \/ page.rows[n].phase \notin {"Ready", ""}
         \/ page.rows[n].phase = "Ready" /\ ~page.rows[n].headlamp

\* A page that shows something pending is not left with it: once the workspaces
\* stop changing it has followed them to the end, a purged workspace gone from
\* the page and a ready one with its Headlamp access (or it shows the error of
\* a listing, which ends the reloads).
PageComesToRest ==
    <>[][UNCHANGED workspaces]_vars => <>[](\A n \in Names : ~Awaited(n))

\* Admin credentials are handed out for a while at most: for a workspace that
\* stays ready, downloads end up with its token.
AdminDownloadsEnd ==
    \A n \in Names :
        <>[](IF IsLive(n) THEN workspaces[n].phase = "Ready" ELSE FALSE) =>
        <>[][(download.pc # "idle" /\ download.name = n) =>
                download'.answer # "admin"]_vars

=============================================================================
