---------------------- MODULE ProvisionerRequestsProofs ----------------------
(***************************************************************************)
(* Theorems about ProvisionerRequests, for every value of its constants.    *)
(***************************************************************************)
EXTENDS ProvisionerRequests, TLAPS

(***************************************************************************)
(* Type correctness.                                                       *)
(***************************************************************************)

KcpTypes ==
    /\ workspaces \in [Names -> Workspace \cup {None}]
    /\ uids \in [Names -> 0..MaxUid]
    /\ cluster \in [Names -> Clusters]
    /\ token \in [Names -> BOOLEAN]

Pages == [pc : {"closed", "loading", "open"}, rows : [Names -> Row \cup {None}],
          next : [Names -> Row \cup {None}], todo : SUBSET Names]

PageTypes ==
    /\ page \in Pages
    /\ \A n \in page.todo : page.pc = "loading" /\ page.next[n] # None

Downloads == [pc : {"idle", "get", "token"}, name : Names \cup {None},
              uid : 0..MaxUid, answer : {None, "admin", "token", "error"}]

DownloadTypes ==
    /\ download \in Downloads
    /\ download.pc # "idle" => download.name \in Names

\* TypeOK in three parts.
LEMMA TypeParts == TypeOK <=> KcpTypes /\ PageTypes /\ DownloadTypes
BY DEF TypeOK, KcpTypes, PageTypes, DownloadTypes, Pages, Downloads

\* The initial state has the types of TypeOK.
LEMMA InitTypes == Init => TypeOK
<1> SUFFICES ASSUME Init PROVE TypeOK
  OBVIOUS
<1>1. 0 \in 0..MaxUid /\ NoRows \in [Names -> Row \cup {None}]
  BY ConstantTypes DEF NoRows
<1>2. KcpTypes
  BY <1>1 DEF Init, KcpTypes, NoRows, Clusters
<1>3. PageTypes
  BY <1>1 DEF Init, PageTypes, Pages, Closed
<1>4. DownloadTypes
  BY <1>1 DEF Init, DownloadTypes, Downloads, Unasked
<1> QED
  BY <1>2, <1>3, <1>4, TypeParts

\* What kcp, the setup and the tenants do, and the handlers that create and
\* delete.
Kcp(n) == \/ ProvisionWorkspace(n) \/ DeleteWorkspace(n)
          \/ LoseWorkspace(n) \/ FinishSetUp(n) \/ DropToken(n) \/ Settle(n)

\* Every one of these steps leaves the page and the download alone.
LEMMA KcpLeavesAlone ==
    ASSUME NEW n \in Names, Kcp(n)
    PROVE  UNCHANGED <<page, download>>
BY DEF Kcp, Settle, ProvisionWorkspace, DeleteWorkspace, LoseWorkspace, DropToken,
       ProgressWorkspace, SetUpWorkspace, FinishSetUp, ProgressDeletion,
       PurgeWorkspace

\* The workspaces, logical clusters and tokens keep their types.
LEMMA KcpKeepsTypes ==
    ASSUME KcpTypes, NEW n \in Names, Kcp(n)
    PROVE  KcpTypes'
<1>1. /\ workspaces \in [Names -> Workspace \cup {None}]
      /\ uids \in [Names -> 0..MaxUid] /\ uids[n] \in 0..MaxUid /\ MaxUid \in Nat
      /\ cluster \in [Names -> Clusters] /\ cluster[n] \in Clusters
      /\ token \in [Names -> BOOLEAN]
      /\ Exists(n) => workspaces[n] \in Workspace
  BY ConstantTypes DEF KcpTypes, Exists
<1>2. CASE ProvisionWorkspace(n)
  <2> DEFINE new == [uid |-> uids[n] + 1, phase |-> "", marked |-> FALSE,
                     terminating |-> FALSE]
  <2>1. uids[n] + 1 \in 1..MaxUid /\ uids[n] + 1 \in 0..MaxUid
    <3>1. uids[n] < MaxUid
      BY <1>2 DEF ProvisionWorkspace
    <3> QED
      BY <1>1, <3>1
  <2>2. new \in Workspace
    BY <2>1 DEF Workspace, Phases
  <2>3. /\ workspaces' = [workspaces EXCEPT ![n] = new]
        /\ uids' = [uids EXCEPT ![n] = uids[n] + 1]
        /\ UNCHANGED <<cluster, token>>
    BY <1>2 DEF ProvisionWorkspace
  <2> HIDE DEF new
  <2> QED
    BY <1>1, <2>1, <2>2, <2>3 DEF KcpTypes
<1>3. ASSUME NEW ws \in Workspace \cup {None}, NEW stage \in Clusters,
             NEW there \in BOOLEAN,
             workspaces' \in {workspaces, [workspaces EXCEPT ![n] = ws]},
             cluster' \in {cluster, [cluster EXCEPT ![n] = stage]},
             token' \in {token, [token EXCEPT ![n] = there]},
             UNCHANGED uids
      PROVE  KcpTypes'
  BY <1>1, <1>3 DEF KcpTypes
<1>4. CASE DeleteWorkspace(n)
  <2>1. [workspaces[n] EXCEPT !.terminating = TRUE] \in Workspace
    BY <1>1, <1>4 DEF DeleteWorkspace, IsLive, Workspace
  <2> QED
    BY <1>1, <1>3, <1>4, <2>1 DEF DeleteWorkspace
<1>5. CASE LoseWorkspace(n)
  <2>1. [workspaces[n] EXCEPT !.phase = "Unavailable"] \in Workspace
    BY <1>1, <1>5 DEF LoseWorkspace, IsLive, Workspace, Phases
  <2> QED
    BY <1>1, <1>3, <1>5, <2>1 DEF LoseWorkspace
<1>6. CASE DropToken(n)
  BY <1>1, <1>3, <1>6 DEF DropToken
<1>7. CASE ProgressWorkspace(n)
  <2> DEFINE phase == NextPhase(workspaces[n].phase)
             stage == IF phase = "Scheduling" THEN "none" ELSE "live"
  <2>1. phase \in Phases /\ stage \in Clusters
    BY DEF NextPhase, Phases, Clusters
  <2>2. /\ workspaces' = [workspaces EXCEPT ![n] = [workspaces[n] EXCEPT !.phase = phase]]
        /\ cluster' = [cluster EXCEPT ![n] = stage]
        /\ UNCHANGED <<uids, token>>
    BY <1>1, <1>7 DEF ProgressWorkspace
  <2> HIDE DEF phase, stage
  <2>3. [workspaces[n] EXCEPT !.phase = phase] \in Workspace
    BY <1>1, <1>7, <2>1 DEF ProgressWorkspace, IsLive, Workspace
  <2> QED
    BY <1>1, <1>3, <2>1, <2>2, <2>3
<1>8. CASE SetUpWorkspace(n)
  <2>1. [workspaces[n] EXCEPT !.marked = TRUE] \in Workspace
    BY <1>1, <1>8 DEF SetUpWorkspace, IsLive, Workspace
  <2> QED
    BY <1>1, <1>3, <1>8, <2>1 DEF SetUpWorkspace
<1>11. CASE FinishSetUp(n)
  <2>1. [workspaces[n] EXCEPT !.marked = TRUE] \in Workspace
    BY <1>1, <1>11 DEF FinishSetUp, Workspace
  <2> QED
    BY <1>1, <1>3, <1>11, <2>1 DEF FinishSetUp
<1>9. CASE ProgressDeletion(n)
  <2>1. AfterStage(cluster[n]) \in Clusters
    BY DEF AfterStage, Clusters
  <2>2. (token[n] /\ cluster[n] \in {"live", "deleting"}) \in BOOLEAN
    OBVIOUS
  <2> QED
    BY <1>1, <1>3, <1>9, <2>1, <2>2 DEF ProgressDeletion
<1>10. CASE PurgeWorkspace(n)
  <2>1. "none" \in Clusters
    BY DEF Clusters
  <2> QED
    BY <1>1, <1>3, <1>10, <2>1 DEF PurgeWorkspace
<1> QED
  BY <1>2, <1>4, <1>5, <1>6, <1>7, <1>8, <1>9, <1>10, <1>11 DEF Kcp, Settle

\* The steps of the page.
Turns == \/ ListWorkspaces \/ ListFails \/ RenderPage
         \/ \E n \in Names : ReadDeletionStatus(n) \/ ReadDeletionStatusFails(n)

\* A row is listed without the progress of a deletion.
LEMMA ListedRowTypes ==
    ASSUME NEW ws \in Workspace
    PROVE  /\ ListedRow(ws) \in Row
           /\ ListedRow(ws).uid = ws.uid /\ ~ListedRow(ws).asked
           /\ ListedRow(ws).status \in Phases \cup {"Terminating"}
           /\ ListedRow(ws).headlamp => ws.marked
BY DEF ListedRow, Row, Workspace, Phases, Progress, IsTransientPhase

\* The page keeps its types.
LEMMA PageKeepsTypes ==
    ASSUME KcpTypes, PageTypes, Turns
    PROVE  PageTypes' /\ UNCHANGED <<kcp, download>>
<1>1. /\ page \in Pages
      /\ \A n \in Names : Exists(n) => workspaces[n] \in Workspace
  BY DEF PageTypes, KcpTypes, Exists
<1>2. CASE ListWorkspaces
  <2> DEFINE todo == {n \in Names : Exists(n) /\ ~IsLive(n)}
             next == [n \in Names |-> IF Exists(n)
                                      THEN ListedRow(workspaces[n]) ELSE None]
  <2>1. /\ page' = [page EXCEPT !.pc = "loading", !.next = next, !.todo = todo]
        /\ UNCHANGED <<kcp, download>>
    BY <1>2 DEF ListWorkspaces
  <2>2. \A n \in Names : Exists(n) => ListedRow(workspaces[n]) \in Row
    BY <1>1, ListedRowTypes
  <2>3. next \in [Names -> Row \cup {None}] /\ todo \in SUBSET Names
    BY <2>2
  <2>4. \A n \in todo : next[n] # None
    BY <2>2, ConstantTypes
  <2> HIDE DEF todo, next
  <2>5. page' \in Pages /\ page'.todo = todo /\ page'.next = next /\ page'.pc = "loading"
    BY <1>1, <2>1, <2>3 DEF Pages
  <2> QED
    BY <2>1, <2>4, <2>5 DEF PageTypes
<1>3. CASE ListFails
  <2>1. NoRows \in [Names -> Row \cup {None}]
    BY DEF NoRows
  <2>2. page' = [pc |-> "open", rows |-> NoRows, next |-> NoRows, todo |-> {}]
    BY <1>3 DEF ListFails, Closed
  <2>3. page' \in Pages /\ page'.todo = {}
    BY <2>1, <2>2 DEF Pages
  <2> QED
    BY <1>3, <2>3 DEF ListFails, PageTypes
<1>4. CASE RenderPage
  <2>1. NoRows \in [Names -> Row \cup {None}]
    BY DEF NoRows
  <2>2. page' \in Pages /\ page'.todo = {}
    BY <1>1, <1>4, <2>1 DEF RenderPage, Pages
  <2> QED
    BY <1>4, <2>2 DEF RenderPage, PageTypes
<1>5. ASSUME NEW n \in Names, ReadDeletionStatus(n)
      PROVE  PageTypes' /\ UNCHANGED <<kcp, download>>
  <2> DEFINE status == DeletionStatus(n, page.next[n].uid)
             row == [page.next[n] EXCEPT !.asked = TRUE, !.status = status]
  <2>1. status \in Progress
    BY DEF DeletionStatus, Progress
  <2>2. /\ page.next[n] \in Row /\ page.pc = "loading"
        /\ \A m \in page.todo : page.next[m] # None
    BY <1>1, <1>5 DEF ReadDeletionStatus, PageTypes, Pages
  <2>3. page' = [page EXCEPT !.todo = @ \ {n}, !.next = [page.next EXCEPT ![n] = row]]
    BY <1>1, <1>5, <2>2 DEF ReadDeletionStatus, Pages, Row
  <2> HIDE DEF status
  <2>4. row \in Row
    BY <2>1, <2>2 DEF Row
  <2> HIDE DEF row
  <2>5. page' \in Pages /\ page'.pc = "loading"
    BY <1>1, <2>2, <2>3, <2>4 DEF Pages
  <2>6. \A m \in page'.todo : page'.next[m] # None
    BY <1>1, <2>2, <2>3 DEF Pages
  <2> QED
    BY <1>5, <2>5, <2>6 DEF PageTypes, ReadDeletionStatus
<1>6. ASSUME NEW n \in Names, ReadDeletionStatusFails(n)
      PROVE  PageTypes' /\ UNCHANGED <<kcp, download>>
  BY <1>1, <1>6 DEF ReadDeletionStatusFails, PageTypes, Pages
<1> QED
  BY <1>2, <1>3, <1>4, <1>5, <1>6 DEF Turns

\* The steps of a download.
Requests == \/ \E n \in Names : RequestKubeconfig(n)
            \/ Respond \/ RequestFails

\* The download keeps its types.
LEMMA DownloadKeepsTypes ==
    ASSUME KcpTypes, DownloadTypes, Requests
    PROVE  DownloadTypes' /\ UNCHANGED <<kcp, page>>
<1>1. download \in Downloads /\ 0 \in 0..MaxUid
  BY ConstantTypes DEF DownloadTypes
<1>2. ASSUME NEW n \in Names, RequestKubeconfig(n) PROVE DownloadTypes'
  <2>1. download' = [pc |-> "get", name |-> n, uid |-> 0, answer |-> None]
    BY <1>2 DEF RequestKubeconfig, Unasked
  <2> QED
    BY <1>1, <2>1 DEF DownloadTypes, Downloads
<1>3. ASSUME NEW d \in Downloads, NEW a \in {"admin", "token", "error"}, Answer(d, a)
      PROVE  DownloadTypes'
  BY <1>3 DEF Answer, DownloadTypes, Downloads
<1>4. ASSUME GetWorkspace PROVE DownloadTypes'
  <2> DEFINE n == download.name
             d == [download EXCEPT !.uid = workspaces[n].uid]
  <2>1. CASE Answer(download, "error")
    BY <1>1, <1>3, <2>1
  <2>2. CASE Exists(n)
    <3>1. n \in Names
      BY <1>4 DEF GetWorkspace, DownloadTypes
    <3>2. workspaces[n].uid \in 0..MaxUid
      BY <2>2, <3>1, ConstantTypes DEF KcpTypes, Exists, Workspace
    <3>3. d \in Downloads /\ d.name \in Names
      BY <1>1, <3>1, <3>2 DEF Downloads
    <3>4. CASE Answer(d, "admin")
      BY <1>3, <3>3, <3>4
    <3>5. CASE download' = [d EXCEPT !.pc = "token"]
      BY <3>3, <3>5 DEF DownloadTypes, Downloads
    <3> QED
      BY <1>4, <2>1, <3>4, <3>5 DEF GetWorkspace
  <2> QED
    BY <1>4, <2>1, <2>2 DEF GetWorkspace
<1>5. ASSUME ReadToken \/ RequestFails PROVE DownloadTypes'
  BY <1>1, <1>3, <1>5 DEF ReadToken, RequestFails
<1>6. UNCHANGED <<kcp, page>>
  BY DEF Requests, Respond, RequestKubeconfig, GetWorkspace, ReadToken, RequestFails
<1> QED
  BY <1>2, <1>4, <1>5, <1>6 DEF Requests, Respond

\* Every step is of kcp, of the page or of a download, or changes nothing.
LEMMA Steps ==
    ASSUME [Next]_vars
    PROVE  (\E n \in Names : Kcp(n)) \/ Turns \/ Requests \/ UNCHANGED vars
BY DEF Next, Kcp, Settle, Turns, Requests, Load, Reload, OpenPage

\* Every step keeps the types.
LEMMA TypeStep ==
    ASSUME TypeOK, [Next]_vars
    PROVE  TypeOK'
<1>1. KcpTypes /\ PageTypes /\ DownloadTypes
  BY TypeParts
<1>2. UNCHANGED kcp => KcpTypes'
  BY <1>1 DEF KcpTypes, kcp
<1>3. UNCHANGED page => PageTypes'
  BY <1>1 DEF PageTypes
<1>4. UNCHANGED download => DownloadTypes'
  BY <1>1 DEF DownloadTypes
<1>5. KcpTypes' /\ PageTypes' /\ DownloadTypes'
  <2>1. CASE \E n \in Names : Kcp(n)
    BY <1>1, <1>3, <1>4, <2>1, KcpKeepsTypes, KcpLeavesAlone
  <2>2. CASE Turns
    BY <1>1, <1>2, <1>4, <2>2, PageKeepsTypes
  <2>3. CASE Requests
    BY <1>1, <1>2, <1>3, <2>3, DownloadKeepsTypes
  <2>4. CASE UNCHANGED vars
    BY <1>2, <1>3, <1>4, <2>4 DEF vars
  <2> QED
    BY <2>1, <2>2, <2>3, <2>4, Steps
<1> QED
  BY <1>5, TypeParts, PTL

\* Type correctness: every row of a page, and every status it waits for, has its
\* type in every state.
THEOREM TypeCorrect == Spec => []TypeOK
<1>1. TypeOK /\ [Next]_vars => TypeOK'
  BY TypeStep
<1> QED
  BY <1>1, InitTypes, PTL DEF Spec

(***************************************************************************)
(* The inductive invariant behind NeverBackToAdmin and                      *)
(* DeletionStatusAdvances.                                                  *)
(***************************************************************************)

\* A workspace is the last incarnation of its name.
PresentInv == \A n \in Names : Exists(n) => workspaces[n].uid = uids[n]

\* Incarnation u of workspace n will never be live again.
Ended(n, u) == Exists(n) /\ uids[n] = u => workspaces[n].terminating

\* What a row says of its workspace remains true: its setup, and how far its
\* deletion is at least.
Holds(n, row) ==
    /\ row.uid <= uids[n]
    /\ row.headlamp /\ Exists(n) /\ row.uid = uids[n] => workspaces[n].marked
    /\ Rank(row.status) # 0 =>
          /\ Ended(n, row.uid)
          /\ Rank(DeletionStatus(n, row.uid)) >= Rank(row.status)

RowsInv ==
    \A n \in Names :
        /\ page.rows[n] # None => Holds(n, page.rows[n])
        /\ page.next[n] # None => Holds(n, page.next[n])

\* The statuses that have been read, or are to be read, for the next page.
StatusInv ==
    \A n \in Names :
        /\ n \in page.todo => Ended(n, page.next[n].uid)
        /\ (page.rows[n] # None /\ page.next[n] # None) =>
              (page.rows[n].uid = page.next[n].uid /\ page.next[n].asked =>
                  Rank(page.next[n].status) >= Rank(page.rows[n].status))

\* A request that is not answered has no answer.
AnswerInv == download.pc # "idle" => download.answer = None

IInv == TypeOK /\ PresentInv /\ RowsInv /\ StatusInv /\ AnswerInv

\* The rank of a status is a number, 0 for those that are listed.
LEMMA Ranks ==
    /\ \A status : Rank(status) \in 0..2
    /\ \A status \in Phases \cup {"Terminating"} : Rank(status) = 0
BY DEF Rank, Phases

\* How far the deletion of an incarnation is, for all that a row can tell.
LEMMA DeletionRank ==
    ASSUME NEW n, NEW u
    PROVE  /\ ~Exists(n) \/ uids[n] # u \/ cluster[n] \in {"gone", "none", "empty"}
                => Rank(DeletionStatus(n, u)) = 2
           /\ Exists(n) /\ uids[n] = u /\ cluster[n] \in {"deleting", "emptying"}
                => Rank(DeletionStatus(n, u)) = 1
           /\ Exists(n) /\ uids[n] = u /\ cluster[n] = "live"
                => Rank(DeletionStatus(n, u)) = 0
BY DEF DeletionStatus, Rank

\* What a step of kcp, the setup or a tenant may do to workspace m.
Goes(m) ==
    /\ uids[m] \in Nat /\ uids'[m] \in Nat /\ uids'[m] >= uids[m]
    /\ workspaces'[m] # None => workspaces'[m].uid = uids'[m]
    /\ workspaces'[m] # None /\ uids'[m] = uids[m] =>
          /\ workspaces[m] # None
          /\ workspaces[m].marked => workspaces'[m].marked
          /\ workspaces[m].terminating =>
                /\ workspaces'[m].terminating
                /\ cluster'[m] \in {cluster[m], AfterStage(cluster[m])}
                /\ cluster[m] = "none" => cluster'[m] = "none"

\* No such step does more to any workspace.
LEMMA KcpStep ==
    ASSUME KcpTypes, PresentInv, NEW n \in Names, Kcp(n)
    PROVE  PresentInv' /\ \A m \in Names : Goes(m)
<1>1. /\ workspaces \in [Names -> Workspace \cup {None}]
      /\ uids \in [Names -> 0..MaxUid] /\ MaxUid \in Nat
      /\ \A m \in Names : uids[m] \in Nat
      /\ cluster \in [Names -> Clusters]
      /\ \A m \in Names : Exists(m) => workspaces[m] \in Workspace
      /\ \A m \in Names : workspaces[m] # None => workspaces[m].uid = uids[m]
  BY ConstantTypes DEF KcpTypes, Exists, PresentInv
<1>2. \A m \in Names : m # n => /\ workspaces'[m] = workspaces[m]
                                /\ uids'[m] = uids[m] /\ cluster'[m] = cluster[m]
  BY <1>1 DEF Kcp, Settle, ProvisionWorkspace, DeleteWorkspace, LoseWorkspace, DropToken,
              ProgressWorkspace, SetUpWorkspace, FinishSetUp, ProgressDeletion,
              PurgeWorkspace
<1>3. \A m \in Names : m # n => Goes(m)
  BY <1>1, <1>2 DEF Goes
<1>4. ASSUME NEW ws \in Workspace, workspaces' = [workspaces EXCEPT ![n] = ws],
             Exists(n), UNCHANGED uids, ws.uid = workspaces[n].uid,
             workspaces[n].marked => ws.marked,
             workspaces[n].terminating => ws.terminating /\ UNCHANGED cluster
      PROVE  Goes(n)
  <2>1. /\ workspaces'[n] = ws /\ uids'[n] = uids[n] /\ uids[n] \in Nat
        /\ workspaces[n] # None /\ workspaces[n].uid = uids[n]
    BY <1>1, <1>4 DEF Exists
  <2> QED
    BY <1>4, <2>1 DEF Goes
<1> SUFFICES Goes(n)
  BY <1>3 DEF PresentInv, Exists, Goes
<1>5. CASE ProvisionWorkspace(n)
  <2>1. /\ ~Exists(n) /\ uids'[n] = uids[n] + 1 /\ uids[n] \in Nat
        /\ workspaces'[n].uid = uids[n] + 1
    BY <1>1, <1>5 DEF ProvisionWorkspace
  <2> QED
    BY <2>1 DEF Goes
<1>6. CASE DeleteWorkspace(n)
  <2> DEFINE ws == [workspaces[n] EXCEPT !.terminating = TRUE]
  <2>1. /\ Exists(n) /\ UNCHANGED <<uids, cluster>>
        /\ workspaces' = [workspaces EXCEPT ![n] = ws]
    BY <1>1, <1>6 DEF DeleteWorkspace, IsLive
  <2>2. /\ ws \in Workspace /\ ws.uid = workspaces[n].uid
        /\ ws.marked = workspaces[n].marked /\ ws.terminating
    BY <1>1, <2>1 DEF Workspace
  <2> HIDE DEF ws
  <2> QED
    BY <1>4, <2>1, <2>2
<1>7. CASE LoseWorkspace(n)
  <2> DEFINE ws == [workspaces[n] EXCEPT !.phase = "Unavailable"]
  <2>1. /\ Exists(n) /\ UNCHANGED <<uids, cluster>>
        /\ workspaces' = [workspaces EXCEPT ![n] = ws]
    BY <1>1, <1>7 DEF LoseWorkspace, IsLive
  <2>2. /\ ws \in Workspace /\ ws.uid = workspaces[n].uid
        /\ ws.marked = workspaces[n].marked
        /\ ws.terminating = workspaces[n].terminating
    BY <1>1, <2>1 DEF Workspace, Phases
  <2> HIDE DEF ws
  <2> QED
    BY <1>4, <2>1, <2>2
<1>8. CASE DropToken(n)
  BY <1>1, <1>8 DEF DropToken, Goes
<1>9. CASE ProgressWorkspace(n)
  <2> DEFINE phase == NextPhase(workspaces[n].phase)
             ws == [workspaces[n] EXCEPT !.phase = phase]
  <2>1. /\ Exists(n) /\ UNCHANGED uids /\ ~workspaces[n].terminating
        /\ workspaces' = [workspaces EXCEPT ![n] = ws]
    BY <1>1, <1>9 DEF ProgressWorkspace, IsLive
  <2>2. phase \in Phases
    BY DEF NextPhase, Phases
  <2> HIDE DEF phase
  <2>3. /\ ws \in Workspace /\ ws.uid = workspaces[n].uid
        /\ ws.marked = workspaces[n].marked
    BY <1>1, <2>1, <2>2 DEF Workspace
  <2> HIDE DEF ws
  <2> QED
    BY <1>4, <2>1, <2>3
<1>10. CASE SetUpWorkspace(n)
  <2> DEFINE ws == [workspaces[n] EXCEPT !.marked = TRUE]
  <2>1. /\ Exists(n) /\ UNCHANGED <<uids, cluster>>
        /\ workspaces' = [workspaces EXCEPT ![n] = ws]
    BY <1>1, <1>10 DEF SetUpWorkspace, IsLive
  <2>2. /\ ws \in Workspace /\ ws.uid = workspaces[n].uid /\ ws.marked
        /\ ws.terminating = workspaces[n].terminating
    BY <1>1, <2>1 DEF Workspace
  <2> HIDE DEF ws
  <2> QED
    BY <1>4, <2>1, <2>2
<1>13. CASE FinishSetUp(n)
  <2> DEFINE ws == [workspaces[n] EXCEPT !.marked = TRUE]
  <2>1. /\ Exists(n) /\ UNCHANGED <<uids, cluster>>
        /\ workspaces' = [workspaces EXCEPT ![n] = ws]
    BY <1>1, <1>13 DEF FinishSetUp
  <2>2. /\ ws \in Workspace /\ ws.uid = workspaces[n].uid /\ ws.marked
        /\ ws.terminating = workspaces[n].terminating
    BY <1>1, <2>1 DEF Workspace
  <2> HIDE DEF ws
  <2> QED
    BY <1>4, <2>1, <2>2
<1>11. CASE ProgressDeletion(n)
  <2>1. /\ cluster'[n] = AfterStage(cluster[n]) /\ cluster[n] # "none"
        /\ UNCHANGED <<workspaces, uids>>
    BY <1>1, <1>11 DEF ProgressDeletion
  <2> QED
    BY <1>1, <2>1 DEF Goes
<1>12. CASE PurgeWorkspace(n)
  <2>1. workspaces'[n] = None /\ UNCHANGED uids
    BY <1>1, <1>12 DEF PurgeWorkspace
  <2> QED
    BY <1>1, <2>1 DEF Goes
<1> QED
  BY <1>5, <1>6, <1>7, <1>8, <1>9, <1>10, <1>11, <1>12, <1>13 DEF Kcp,
     Settle

\* An incarnation that has ended stays so, and its deletion only goes on.
LEMMA EndedStays ==
    ASSUME KcpTypes, PresentInv, NEW n \in Names, Kcp(n),
           NEW m \in Names, NEW u \in Nat, u <= uids[m], Ended(m, u)
    PROVE  Ended(m, u)' /\ Rank(DeletionStatus(m, u))' >= Rank(DeletionStatus(m, u))
<1>1. Goes(m)
  BY KcpStep
<1>2. Ended(m, u)'
  BY <1>1 DEF Ended, Goes, Exists
<1>3. CASE ~(Exists(m)' /\ uids'[m] = u)
  <2>1. Rank(DeletionStatus(m, u))' = 2
    BY <1>3 DEF DeletionStatus, Rank
  <2>2. Rank(DeletionStatus(m, u)) \in 0..2
    BY Ranks
  <2> QED
    BY <1>2, <2>1, <2>2
<1>4. CASE Exists(m)' /\ uids'[m] = u
  <2>1. /\ Exists(m) /\ uids[m] = u
        /\ cluster'[m] \in {cluster[m], AfterStage(cluster[m])}
        /\ cluster[m] = "none" => cluster'[m] = "none"
    BY <1>1, <1>4 DEF Ended, Goes, Exists
  <2>2. cluster[m] \in Clusters
    BY DEF KcpTypes
  <2> QED
    BY <1>2, <1>4, <2>1, <2>2, DeletionRank DEF AfterStage, Clusters, DeletionStatus, Rank
<1> QED
  BY <1>3, <1>4

\* What a row says remains true.
LEMMA HoldsStays ==
    ASSUME KcpTypes, PresentInv, NEW n \in Names, Kcp(n),
           NEW m \in Names, NEW row \in Row, Holds(m, row)
    PROVE  Holds(m, row)'
<1>1. row.uid \in Nat
  BY ConstantTypes DEF Row
<1>2. /\ uids'[m] >= uids[m] /\ uids[m] \in Nat /\ uids'[m] \in Nat
      /\ Exists(m)' /\ uids'[m] = uids[m] =>
            Exists(m) /\ (workspaces[m].marked => workspaces'[m].marked)
  BY KcpStep DEF Goes, Exists
<1>3. row.uid <= uids'[m]
  BY <1>1, <1>2 DEF Holds
<1>4. row.headlamp /\ Exists(m)' /\ row.uid = uids'[m] => workspaces'[m].marked
  <2>1. row.uid = uids'[m] => uids'[m] = uids[m]
    BY <1>1, <1>2 DEF Holds
  <2> QED
    BY <1>2, <2>1 DEF Holds
<1>5. ASSUME Rank(row.status) # 0
      PROVE  /\ Ended(m, row.uid)'
             /\ Rank(DeletionStatus(m, row.uid))' >= Rank(row.status)
  <2>1. /\ Rank(DeletionStatus(m, row.uid)) \in 0..2
        /\ Rank(DeletionStatus(m, row.uid))' \in 0..2
        /\ Rank(row.status) \in 0..2
    BY Ranks
  <2> QED
    BY <1>1, <1>5, <2>1, EndedStays DEF Holds
<1> QED
  BY <1>3, <1>4, <1>5 DEF Holds

\* Steps of kcp, the setup and the tenants preserve the invariant.
LEMMA KcpInv ==
    ASSUME IInv, NEW n \in Names, Kcp(n)
    PROVE  IInv'
<1>1. KcpTypes /\ page \in Pages /\ (\A m \in page.todo : page.next[m] # None)
  BY TypeParts DEF IInv, PageTypes
<1>2. UNCHANGED <<page, download>>
  BY KcpLeavesAlone
<1>3. TypeOK'
  <2>1. [Next]_vars
    BY DEF Next, Kcp
  <2> QED
    BY <2>1, TypeStep DEF IInv
<1>4. PresentInv' /\ AnswerInv'
  BY <1>1, <1>2, KcpStep DEF IInv, AnswerInv
<1>5. \A m \in Names, row \in Row : Holds(m, row) => Holds(m, row)'
  BY <1>1, HoldsStays DEF IInv
<1>6. \A m \in Names : /\ page.rows[m] \in Row \cup {None}
                       /\ page.next[m] \in Row \cup {None}
  BY <1>1 DEF Pages
<1>7. RowsInv'
  <2>1. \A m \in Names, row \in Row :
            /\ row = page.rows[m] => Holds(m, row)'
            /\ row = page.next[m] => Holds(m, row)'
    BY <1>5, ConstantTypes DEF IInv, RowsInv
  <2> QED
    BY <1>2, <1>6, <2>1 DEF RowsInv, Holds, Ended, Exists, DeletionStatus
<1>8. StatusInv'
  <2>1. ASSUME NEW m \in page.todo, NEW u, u = page.next[m].uid
        PROVE  Ended(m, u)'
    <3>1. m \in Names /\ page.next[m] # None /\ page.next[m] \in Row
      BY <1>1, <1>6 DEF Pages
    <3>2. u \in Nat /\ u <= uids[m] /\ Ended(m, u)
      BY <2>1, <3>1, ConstantTypes DEF IInv, RowsInv, Holds, StatusInv, Row
    <3> QED
      BY <1>1, <3>1, <3>2, EndedStays DEF IInv
  <2>2. \A m \in Names : m \in page.todo => Ended(m, page.next[m].uid)'
    BY <1>2, <2>1 DEF Ended, Exists
  <2> QED
    BY <1>2, <2>2 DEF IInv, StatusInv, Ended, Exists
<1> QED
  BY <1>3, <1>4, <1>7, <1>8 DEF IInv

\* While nothing happens to the workspaces, what is true of a row remains so.
LEMMA HoldsSame ==
    ASSUME UNCHANGED kcp
    PROVE  /\ \A m, row : Holds(m, row)' <=> Holds(m, row)
           /\ \A m, u : /\ Ended(m, u)' <=> Ended(m, u)
                        /\ DeletionStatus(m, u)' = DeletionStatus(m, u)
           /\ PresentInv' <=> PresentInv
BY DEF kcp, Holds, Ended, Exists, DeletionStatus, PresentInv

\* The steps of the page preserve the invariant.
LEMMA PageInv ==
    ASSUME IInv, Turns
    PROVE  IInv'
<1>1. KcpTypes /\ PageTypes /\ page \in Pages
  BY TypeParts DEF IInv, PageTypes
<1>2. UNCHANGED <<kcp, download>> /\ PageTypes' /\ page' \in Pages
  BY <1>1, PageKeepsTypes DEF PageTypes
<1>3. TypeOK'
  <2>1. KcpTypes' /\ DownloadTypes'
    BY <1>2, TypeParts DEF IInv, KcpTypes, DownloadTypes, kcp
  <2> QED
    BY <1>2, <2>1, TypeParts, PTL
<1>4. PresentInv' /\ AnswerInv'
  BY <1>2, HoldsSame DEF IInv, AnswerInv
<1>5. /\ \A m \in Names : /\ page.rows[m] \in Row \cup {None}
                          /\ page.next[m] \in Row \cup {None}
      /\ \A m \in Names : /\ page.rows[m] # None => Holds(m, page.rows[m])
                          /\ page.next[m] # None => Holds(m, page.next[m])
  BY <1>1 DEF Pages, IInv, RowsInv
\* It is enough to look at the rows of the page after the step.
<1>6. ASSUME \A m \in Names :
                /\ page'.rows[m] # None => Holds(m, page'.rows[m])
                /\ page'.next[m] # None => Holds(m, page'.next[m])
      PROVE  RowsInv'
  <2>1. \A m \in Names : \A row :
            /\ row # None /\ row = page'.rows[m] => Holds(m, row)'
            /\ row # None /\ row = page'.next[m] => Holds(m, row)'
    BY <1>2, <1>6, HoldsSame
  <2> QED
    BY <2>1 DEF RowsInv, Holds, Ended, Exists, DeletionStatus
<1>7. ASSUME \A m \in Names :
                /\ m \in page'.todo => Ended(m, page'.next[m].uid)
                /\ (page'.rows[m] # None /\ page'.next[m] # None) =>
                     (page'.rows[m].uid = page'.next[m].uid /\ page'.next[m].asked =>
                        Rank(page'.next[m].status) >= Rank(page'.rows[m].status))
      PROVE  StatusInv'
  BY <1>2, <1>7 DEF StatusInv, Ended, Exists, kcp
<1>8. CASE ListWorkspaces
  <2> DEFINE next == [m \in Names |-> IF Exists(m)
                                      THEN ListedRow(workspaces[m]) ELSE None]
  <2>1. /\ page'.rows = page.rows /\ page'.next = next
        /\ page'.todo = {m \in Names : Exists(m) /\ ~IsLive(m)}
    BY <1>1, <1>8 DEF ListWorkspaces, Pages
  <2>2. ASSUME NEW m \in Names, next[m] # None
        PROVE  /\ Exists(m) /\ next[m].uid = uids[m] /\ ~next[m].asked
               /\ Holds(m, next[m])
    <3>1. Exists(m) /\ next[m] = ListedRow(workspaces[m]) /\ workspaces[m] \in Workspace
      BY <1>1, <2>2 DEF KcpTypes, Exists
    <3>2. uids[m] \in Nat /\ workspaces[m].uid = uids[m]
      BY <1>1, <3>1, ConstantTypes DEF KcpTypes, IInv, PresentInv
    <3> HIDE DEF next
    <3> QED
      BY <3>1, <3>2, ListedRowTypes, Ranks DEF Holds
  <2> HIDE DEF next
  <2>3. \A m \in page'.todo : Ended(m, page'.next[m].uid)
    BY <2>1 DEF IsLive, Ended
  <2> QED
    BY <1>3, <1>4, <1>5, <1>6, <1>7, <2>1, <2>2, <2>3 DEF IInv
<1>9. CASE ListFails
  <2>1. /\ \A m \in Names : page'.rows[m] = None /\ page'.next[m] = None
        /\ page'.todo = {}
    BY <1>9 DEF ListFails, Closed, NoRows
  <2> QED
    BY <1>3, <1>4, <1>6, <1>7, <2>1 DEF IInv
<1>10. CASE RenderPage
  <2>1. /\ page'.rows = page.next /\ page'.todo = {}
        /\ \A m \in Names : page'.next[m] = None
    BY <1>1, <1>10 DEF RenderPage, Pages, NoRows
  <2> QED
    BY <1>3, <1>4, <1>5, <1>6, <1>7, <2>1 DEF IInv
<1>11. ASSUME NEW n \in Names, ReadDeletionStatus(n) PROVE IInv'
  <2> DEFINE uid == page.next[n].uid
             status == DeletionStatus(n, uid)
  <2>1. /\ n \in page.todo /\ page.next[n] # None /\ page.next[n] \in Row
    BY <1>1, <1>5, <1>11 DEF ReadDeletionStatus, PageTypes
  <2>2. /\ page'.rows = page.rows /\ page'.todo = page.todo \ {n}
        /\ \A m \in Names : m # n => page'.next[m] = page.next[m]
        /\ page'.next[n] = [page.next[n] EXCEPT !.asked = TRUE, !.status = status]
    BY <1>1, <1>11 DEF ReadDeletionStatus, Pages
  <2>3. /\ page'.next[n].uid = uid /\ page'.next[n].status = status
        /\ page'.next[n].headlamp = page.next[n].headlamp
    <3> HIDE DEF status
    <3> QED
      BY <2>1, <2>2 DEF Row
  <2>4. Ended(n, uid)
    BY <2>1 DEF IInv, StatusInv
  <2>5. Rank(status) \in 0..2
    BY Ranks
  <2>6. Holds(n, page'.next[n])
    <3> HIDE DEF status
    <3>1. Rank(status) >= Rank(status)
      BY <2>5
    <3> QED
      BY <1>5, <2>1, <2>3, <2>4, <3>1 DEF Holds, status
  <2>7. page.rows[n] # None /\ page.rows[n].uid = uid =>
            Rank(status) >= Rank(page.rows[n].status)
    <3>1. Rank(page.rows[n].status) \in 0..2
      BY Ranks
    <3> QED
      BY <1>5, <2>5, <3>1 DEF Holds
  <2> HIDE DEF status, uid
  <2>8. \A m \in Names :
            /\ page'.rows[m] # None => Holds(m, page'.rows[m])
            /\ page'.next[m] # None => Holds(m, page'.next[m])
    BY <1>5, <2>2, <2>6
  <2>9. \A m \in Names :
            /\ m \in page'.todo => Ended(m, page'.next[m].uid)
            /\ (page'.rows[m] # None /\ page'.next[m] # None) =>
                 (page'.rows[m].uid = page'.next[m].uid /\ page'.next[m].asked =>
                    Rank(page'.next[m].status) >= Rank(page'.rows[m].status))
    BY <2>2, <2>3, <2>7 DEF IInv, StatusInv
  <2> QED
    BY <1>3, <1>4, <1>6, <1>7, <2>8, <2>9 DEF IInv
<1>12. ASSUME NEW n \in Names, ReadDeletionStatusFails(n) PROVE IInv'
  <2>1. /\ page'.rows = page.rows /\ page'.next = page.next
        /\ page'.todo \subseteq page.todo
    BY <1>1, <1>12 DEF ReadDeletionStatusFails, Pages
  <2>2. \A m \in Names :
            /\ m \in page'.todo => Ended(m, page'.next[m].uid)
            /\ (page'.rows[m] # None /\ page'.next[m] # None) =>
                 (page'.rows[m].uid = page'.next[m].uid /\ page'.next[m].asked =>
                    Rank(page'.next[m].status) >= Rank(page'.rows[m].status))
    BY <2>1 DEF IInv, StatusInv
  <2> QED
    BY <1>3, <1>4, <1>5, <1>6, <1>7, <2>1, <2>2 DEF IInv
<1> QED
  BY <1>8, <1>9, <1>10, <1>11, <1>12 DEF Turns

\* The steps of a download preserve the invariant.
LEMMA RequestInv ==
    ASSUME IInv, Requests
    PROVE  IInv'
<1>1. KcpTypes /\ DownloadTypes /\ download \in Downloads
  BY TypeParts DEF IInv, DownloadTypes
<1>2. UNCHANGED <<kcp, page>>
  BY <1>1, DownloadKeepsTypes
<1>3. TypeOK'
  <2>1. [Next]_vars
    BY DEF Next, Requests
  <2> QED
    BY <2>1, TypeStep DEF IInv
<1>4. PresentInv' /\ RowsInv' /\ StatusInv'
  BY <1>2 DEF IInv, PresentInv, RowsInv, StatusInv, Holds, Ended, Exists,
              DeletionStatus, kcp
<1>5. AnswerInv'
  BY <1>1 DEF Requests, Respond, RequestKubeconfig, GetWorkspace, ReadToken, RequestFails,
              Answer, AnswerInv, IInv, Unasked, Downloads
<1> QED
  BY <1>3, <1>4, <1>5 DEF IInv

\* Every step preserves the invariant.
LEMMA IInvStep ==
    ASSUME IInv, [Next]_vars
    PROVE  IInv'
<1>1. CASE UNCHANGED vars
  BY <1>1 DEF IInv, TypeOK, PresentInv, RowsInv, StatusInv, AnswerInv, Holds, Ended,
              Exists, DeletionStatus, vars, kcp
<1> QED
  BY <1>1, Steps, KcpInv, PageInv, RequestInv

\* It holds initially.
LEMMA InitInv == Init => IInv
BY InitTypes DEF Init, IInv, PresentInv, RowsInv, StatusInv, AnswerInv, Exists, Closed,
                 NoRows, Unasked

\* Once the page has shown that Headlamp has the credentials of a workspace, a
\* download for it never contains the provisioner's admin credentials.
THEOREM CredentialsKept == Spec => NeverBackToAdmin
<1> DEFINE Step == (download.pc # "idle" /\ download'.answer = "admin") =>
                     \A n \in Names : page.rows[n] # None /\ n = download.name =>
                        ~(page.rows[n].headlamp /\ page.rows[n].uid = download'.uid)
<1>1. IInv /\ [Next]_vars => [Step]_vars
  <2> SUFFICES ASSUME IInv, [Next]_vars, download.pc # "idle",
                      download'.answer = "admin"
               PROVE  \A n \in Names : page.rows[n] # None /\ n = download.name =>
                        ~(page.rows[n].headlamp /\ page.rows[n].uid = download'.uid)
    OBVIOUS
  <2>1. download.answer = None /\ download \in Downloads /\ KcpTypes
    BY TypeParts DEF IInv, AnswerInv, DownloadTypes
  <2>2. download' # download
    BY <2>1, ConstantTypes
  <2>3. Requests
    BY <2>2, Steps, TypeParts, KcpLeavesAlone, PageKeepsTypes DEF IInv, vars
  <2>4. GetWorkspace
    BY <2>1, <2>3, ConstantTypes DEF Requests, Respond, RequestKubeconfig, ReadToken,
                                     RequestFails, Answer, Unasked, Downloads
  <2>5. /\ Exists(download.name) /\ ~workspaces[download.name].marked
        /\ download'.uid = workspaces[download.name].uid
    BY <2>1, <2>4, ConstantTypes DEF GetWorkspace, Answer, Downloads
  <2> QED
    BY <2>5 DEF IInv, PresentInv, RowsInv, Holds
<1> QED
  BY <1>1, InitInv, IInvStep, PTL DEF Spec, NeverBackToAdmin

\* From one load to the next, a terminating workspace gets no earlier status,
\* unless a read of its logical cluster failed.
THEOREM DeletionAdvances == Spec => DeletionStatusAdvances
<1> DEFINE Step == \A n \in Names :
                     (page.rows[n] # None /\ page'.rows[n] # None) =>
                       (page.rows[n].uid = page'.rows[n].uid /\ page'.rows[n].asked =>
                          Rank(page'.rows[n].status) >= Rank(page.rows[n].status))
<1>1. IInv /\ [Next]_vars => [Step]_vars
  <2> SUFFICES ASSUME IInv, [Next]_vars PROVE Step
    OBVIOUS
  <2>1. page \in Pages /\ KcpTypes /\ PageTypes
    BY TypeParts DEF IInv, PageTypes
  <2>2. CASE page'.rows = page.rows
    <3>1. \A n \in Names : Rank(page.rows[n].status) \in 0..2
      BY Ranks
    <3> QED
      BY <2>2, <3>1
  <2>3. CASE ListFails
    BY <2>3 DEF ListFails, Closed, NoRows
  <2>4. CASE RenderPage
    <3>1. page'.rows = page.next
      BY <2>1, <2>4 DEF RenderPage, Pages
    <3> QED
      BY <3>1 DEF IInv, StatusInv
  <2>5. page'.rows = page.rows \/ ListFails \/ RenderPage
    <3>1. UNCHANGED page \/ Turns
      BY <2>1, Steps, KcpLeavesAlone, DownloadKeepsTypes, TypeParts DEF IInv, vars
    <3> QED
      BY <2>1, <3>1 DEF Turns, ListWorkspaces, ReadDeletionStatus,
                        ReadDeletionStatusFails, Pages
  <2> QED
    BY <2>2, <2>3, <2>4, <2>5
<1> QED
  BY <1>1, InitInv, IInvStep, PTL DEF Spec, DeletionStatusAdvances

=============================================================================
