----------------------- MODULE WorkspaceSetupProofs -----------------------
(***************************************************************************)
(* Theorems about WorkspaceSetup, for every number of provisioner          *)
(* processes, workspaces and bindings.                                      *)
(***************************************************************************)
EXTENDS WorkspaceSetup, TLAPS

(***************************************************************************)
(* Type correctness.                                                       *)
(***************************************************************************)

\* The setups have the name of their workspace, and what they work on.
Named(j) ==
    /\ j.pc \notin {"down", "idle", "round"} => j.name \in Names
    /\ j.pc = "create" => j.binding \in Bindings
    /\ j.pc = "mark" => j.copy \in Workspace

\* A process that runs no setup has a job of the right type.
LEMMA IdleTypes ==
    ASSUME NEW pc \in {"down", "idle", "round"}, NEW R \in SUBSET Names
    PROVE  /\ [Idle EXCEPT !.pc = pc, !.round = R] \in Jobs
           /\ Named([Idle EXCEPT !.pc = pc, !.round = R])
           /\ Idle \in Jobs /\ Named(Idle)
           /\ [Idle EXCEPT !.pc = pc] \in Jobs /\ Named([Idle EXCEPT !.pc = pc])
BY DEF Idle, Jobs, Named, Pcs

\* A new logical cluster holds content of the right type.
LEMMA FreshTypes == Fresh \in Content
BY DEF Fresh, Content, Secrets, Roles

\* The initial state has the types of TypeOK.
LEMMA InitTypes == Init => TypeOK
<1> SUFFICES ASSUME Init PROVE TypeOK
  OBVIOUS
<1>1. \A n \in Names : uids[n] \in 0..MaxUid
  BY ConstantTypes DEF Init
<1>2. /\ workspaces \in [Names -> Workspace \cup {None}]
      /\ uids \in [Names -> 0..MaxUid]
      /\ content \in [Names -> Content]
  BY <1>1, FreshTypes DEF Init
<1>3. job \in [Procs -> Jobs] /\ \A p \in Procs : Named(job[p])
  BY IdleTypes DEF Init
<1> QED
  BY <1>2, <1>3 DEF TypeOK, Named, At

\* A step of one process, to a job of the right type.
LEMMA MoveTypes ==
    ASSUME TypeOK, NEW p \in Procs, NEW j \in Jobs, Named(j),
           job' = [job EXCEPT ![p] = j], UNCHANGED uids,
           workspaces' \in [Names -> Workspace \cup {None}],
           content' \in [Names -> Content]
    PROVE  TypeOK'
BY DEF TypeOK, Named, At

\* A step outside the processes.
LEMMA WorldTypes ==
    ASSUME TypeOK, UNCHANGED job,
           uids' \in [Names -> 0..MaxUid],
           workspaces' \in [Names -> Workspace \cup {None}],
           content' \in [Names -> Content]
    PROVE  TypeOK'
BY DEF TypeOK, At

\* The handlers, kcp and the tenants keep the types of what they change.
LEMMA KcpTypes ==
    ASSUME TypeOK, NEW n \in Names, Kcp(n)
    PROVE  TypeOK'
<1>1. /\ workspaces \in [Names -> Workspace \cup {None}]
      /\ uids \in [Names -> 0..MaxUid]
      /\ content \in [Names -> Content] /\ content[n] \in Content
  BY DEF TypeOK
<1>2. Exists(n) => workspaces[n] \in Workspace
  BY <1>1 DEF Exists
<1>3. ASSUME NEW c \in Content, content' = [content EXCEPT ![n] = c],
             UNCHANGED <<workspaces, uids, job>>
      PROVE  TypeOK'
  BY <1>1, <1>3, WorldTypes
<1>4. ASSUME NEW w \in Workspace, workspaces' = [workspaces EXCEPT ![n] = w],
             UNCHANGED <<uids, content, job>>
      PROVE  TypeOK'
  BY <1>1, <1>4, WorldTypes
<1>5. CASE ProvisionWorkspace(n)
  <2>0. uids[n] \in 0..MaxUid /\ uids[n] < MaxUid
    BY <1>1, <1>5 DEF ProvisionWorkspace
  <2>1. uids[n] + 1 \in 0..MaxUid /\ uids[n] + 1 \in 1..MaxUid
    BY <2>0, ConstantTypes
  <2>2. [uid |-> uids[n] + 1, phase |-> "", marked |-> FALSE,
         terminating |-> FALSE] \in Workspace
    BY <2>1 DEF Workspace, Phases
  <2> QED
    BY <1>1, <1>5, <2>1, <2>2, WorldTypes DEF ProvisionWorkspace
<1>6. CASE DeleteWorkspace(n)
  <2>1. [workspaces[n] EXCEPT !.terminating = TRUE] \in Workspace
    BY <1>2, <1>6 DEF DeleteWorkspace, IsLive, Workspace
  <2> QED
    BY <1>4, <1>6, <2>1 DEF DeleteWorkspace
<1>7. CASE PurgeWorkspace(n)
  BY <1>1, <1>7, FreshTypes, WorldTypes DEF PurgeWorkspace
<1>8. CASE ProgressWorkspace(n)
  <2>1. PICK phase \in NextPhases(workspaces[n].phase) :
            workspaces' = [workspaces EXCEPT ![n].phase = phase]
    BY <1>8 DEF ProgressWorkspace
  <2>2. workspaces[n] \in Workspace
    BY <1>2, <1>8 DEF ProgressWorkspace, IsLive
  <2>3. phase \in Phases
    BY <2>1, <2>2 DEF NextPhases, Phases, Workspace
  <2>4. [workspaces[n] EXCEPT !.phase = phase] \in Workspace
    BY <2>2, <2>3 DEF Workspace
  <2> QED
    BY <1>4, <1>8, <2>1, <2>4 DEF ProgressWorkspace
<1>9. CASE IssueToken(n)
  <2>1. [content[n] EXCEPT !.secret = "token"] \in Content
    BY <1>1 DEF Content, Secrets
  <2> QED
    BY <1>3, <1>9, <2>1 DEF IssueToken
<1>10. CASE DropSecret(n)
  <2>1. [content[n] EXCEPT !.secret = "none"] \in Content
    BY <1>1 DEF Content, Secrets
  <2> QED
    BY <1>3, <1>10, <2>1 DEF DropSecret
<1>11. CASE Tamper(n)
  <2> DEFINE c == content[n]
  <2>1. \A B \in SUBSET Bindings : [c EXCEPT !.bindings = B] \in Content
    BY <1>1 DEF Content
  <2>2. /\ [c EXCEPT !.namespace = FALSE, !.account = FALSE, !.secret = "none"]
              \in Content
        /\ [c EXCEPT !.account = FALSE, !.secret = "none"] \in Content
        /\ [c EXCEPT !.secret = "none"] \in Content
    BY <1>1 DEF Content, Secrets
  <2>3. \A r \in Roles : [c EXCEPT !.crb = r] \in Content
    BY <1>1 DEF Content
  <2>4. Tampered(c) \subseteq Content
    BY <2>1, <2>2, <2>3 DEF Tampered
  <2> QED
    BY <1>3, <1>11, <2>4 DEF Tamper
<1> QED
  BY <1>5, <1>6, <1>7, <1>8, <1>9, <1>10, <1>11 DEF Kcp

\* Every step of the loop and of a setup keeps the types.
LEMMA StepTypes ==
    ASSUME TypeOK, NEW p \in Procs, Step(p) \/ Fail(p) \/ Crash(p)
    PROVE  TypeOK'
<1> DEFINE j == job[p]
           n == j.name
<1>1. /\ j \in Jobs /\ Named(j) /\ j.round \in SUBSET Names
      /\ workspaces \in [Names -> Workspace \cup {None}]
      /\ content \in [Names -> Content]
  BY DEF TypeOK, Named, At, Jobs
<1>2. n \in Names => content[n] \in Content
  BY <1>1
<1>3. ASSUME NEW t \in Jobs, Named(t), job' = [job EXCEPT ![p] = t],
             UNCHANGED <<workspaces, uids, content>>
      PROVE  TypeOK'
  BY <1>1, <1>3, MoveTypes
<1>4. ASSUME Done(p), UNCHANGED <<uids, content>>,
             workspaces' \in [Names -> Workspace \cup {None}]
      PROVE  TypeOK'
  <2> DEFINE t == [Idle EXCEPT !.pc = "round", !.round = j.round]
  <2>1. t \in Jobs /\ Named(t) /\ job' = [job EXCEPT ![p] = t]
    BY <1>1, <1>4, IdleTypes DEF Done
  <2> HIDE DEF t
  <2> QED
    BY <1>1, <1>4, <2>1, MoveTypes
\* The steps that move a setup on and change the content in one place.
<1>5. ASSUME NEW pc \in Pcs \ {"create", "mark"}, Goto(p, pc), n \in Names,
             NEW c \in Content, content' = [content EXCEPT ![n] = c],
             UNCHANGED <<workspaces, uids>>
      PROVE  TypeOK'
  <2> DEFINE t == [j EXCEPT !.pc = pc]
  <2>1. t \in Jobs /\ Named(t)
    BY <1>1, <1>5 DEF Jobs, Named
  <2>2. job' = [job EXCEPT ![p] = t]
    BY <1>5 DEF Goto
  <2>3. content' \in [Names -> Content]
    BY <1>1, <1>5
  <2> HIDE DEF t
  <2> QED
    BY <1>1, <1>5, <2>1, <2>2, <2>3, MoveTypes
<1>6. ASSUME NEW pc \in Pcs \ {"create", "mark"}, Goto(p, pc), n \in Names,
             UNCHANGED <<workspaces, uids, content>>
      PROVE  TypeOK'
  <2>1. content' = [content EXCEPT ![n] = content[n]]
    BY <1>1, <1>6
  <2> QED
    BY <1>2, <1>5, <1>6, <2>1
<1>7. CASE ReconcileWorkspaceBindings(p)
  <2> DEFINE listed == {m \in Names :
                IF IsLive(m) THEN ~IsTransientPhase(workspaces[m].phase) ELSE FALSE}
             t == [j EXCEPT !.pc = "round", !.round = listed]
  <2>1. listed \in SUBSET Names /\ job' = [job EXCEPT ![p] = t]
    BY <1>7 DEF ReconcileWorkspaceBindings
  <2> HIDE DEF listed
  <2>2. t \in Jobs /\ Named(t)
    BY <1>1, <2>1 DEF Jobs, Named, Pcs
  <2> HIDE DEF t
  <2> QED
    BY <1>3, <1>7, <2>1, <2>2 DEF ReconcileWorkspaceBindings
<1>8. ASSUME NEW m \in Names, EnsureWorkspaceSetup(p, m)
      PROVE  TypeOK'
  <2> DEFINE t == [Idle EXCEPT !.pc = "bindings", !.round = j.round \ {m},
                               !.name = m, !.todo = Bindings]
  <2>1. t \in Jobs /\ Named(t)
    BY <1>1 DEF Idle, Jobs, Named, Pcs
  <2>2. job' = [job EXCEPT ![p] = t]
    BY <1>8 DEF EnsureWorkspaceSetup
  <2> HIDE DEF t
  <2> QED
    BY <1>3, <1>8, <2>1, <2>2 DEF EnsureWorkspaceSetup
<1>9. CASE EndRound(p) \/ StartLoop(p) \/ Crash(p)
  BY <1>3, <1>9, IdleTypes DEF EndRound, StartLoop, Crash
<1>10. CASE EnsureBinding(p)
  <2>1. PICK b \in j.todo :
            IF b \in content[n].bindings
            THEN job' = [job EXCEPT ![p].todo = @ \ {b}]
            ELSE job' = [job EXCEPT ![p].pc = "create", ![p].binding = b]
    BY <1>10 DEF EnsureBinding
  <2> DEFINE t == IF b \in content[n].bindings
                  THEN [j EXCEPT !.todo = @ \ {b}]
                  ELSE [j EXCEPT !.pc = "create", !.binding = b]
  <2>2. job' = [job EXCEPT ![p] = t]
    BY <2>1
  <2>3. j.pc = "bindings" /\ b \in Bindings
    BY <1>1, <1>10, <2>1 DEF EnsureBinding, At, Jobs
  <2>4. t \in Jobs /\ Named(t)
    BY <1>1, <2>3 DEF Jobs, Named, Pcs
  <2> HIDE DEF t
  <2> QED
    BY <1>3, <1>10, <2>2, <2>4 DEF EnsureBinding
<1>11. CASE CreateBinding(p)
  <2> DEFINE b == j.binding
             t == [j EXCEPT !.pc = "bindings", !.todo = @ \ {b}, !.binding = None]
             c == [content[n] EXCEPT !.bindings = @ \cup {b}]
  <2>1. j.pc = "create" /\ n \in Names /\ b \in Bindings
    BY <1>1, <1>11 DEF CreateBinding, At, Named
  <2>2. t \in Jobs /\ Named(t)
    BY <1>1, <2>1 DEF Jobs, Named, Pcs
  <2>3. c \in Content
    BY <1>2, <2>1 DEF Content
  <2>4. /\ job' = [job EXCEPT ![p] = t] /\ content' = [content EXCEPT ![n] = c]
        /\ UNCHANGED <<workspaces, uids>>
    BY <1>11 DEF CreateBinding
  <2> HIDE DEF t, c
  <2>5. content' \in [Names -> Content]
    BY <1>1, <2>3, <2>4
  <2> QED
    BY <1>1, <2>2, <2>4, <2>5, MoveTypes
<1>12. CASE BindingsDone(p)
  BY <1>1, <1>6, <1>12 DEF BindingsDone, At, Named, Pcs
<1>13. CASE EnsureWorkspaceNamespace(p)
  <2>1. n \in Names
    BY <1>1, <1>13 DEF EnsureWorkspaceNamespace, At, Named
  <2>2. [content[n] EXCEPT !.namespace = TRUE] \in Content
    BY <1>2, <2>1 DEF Content
  <2> QED
    BY <1>5, <1>13, <2>1, <2>2 DEF EnsureWorkspaceNamespace, Pcs
<1>14. CASE EnsureServiceAccount(p)
  <2>1. n \in Names
    BY <1>1, <1>14 DEF EnsureServiceAccount, At, Named
  <2>2. [content[n] EXCEPT !.account = TRUE] \in Content
    BY <1>2, <2>1 DEF Content
  <2> QED
    BY <1>5, <1>14, <2>1, <2>2 DEF EnsureServiceAccount, Pcs
<1>15. CASE EnsureTokenSecret(p)
  <2> DEFINE c == [content[n] EXCEPT !.secret = IF @ = "none" THEN "empty" ELSE @]
  <2>1. n \in Names
    BY <1>1, <1>15 DEF EnsureTokenSecret, At, Named
  <2>2. c \in Content
    BY <1>2, <2>1 DEF Content, Secrets
  <2>3. content' = [content EXCEPT ![n] = c]
    BY <1>15 DEF EnsureTokenSecret
  <2> HIDE DEF c
  <2> QED
    BY <1>5, <1>15, <2>1, <2>2, <2>3 DEF EnsureTokenSecret, Pcs
<1>16. CASE EnsureAdminClusterRoleBinding(p)
  <2>1. n \in Names
    BY <1>1, <1>16 DEF EnsureAdminClusterRoleBinding, At, Named
  <2>2. [content[n] EXCEPT !.crb = "admin"] \in Content
    BY <1>2, <2>1 DEF Content, Roles
  <2> QED
    BY <1>5, <1>16, <2>1, <2>2 DEF EnsureAdminClusterRoleBinding, Pcs
<1>17. CASE WorkspaceServiceAccountToken(p)
  BY <1>1, <1>6, <1>17 DEF WorkspaceServiceAccountToken, At, Named, Pcs
<1>18. CASE ReadWorkspace(p)
  <2> DEFINE t == [j EXCEPT !.pc = "mark", !.copy = workspaces[n]]
  <2>1. n \in Names /\ workspaces[n] \in Workspace
    BY <1>1, <1>18 DEF ReadWorkspace, At, Named, Exists
  <2>2. t \in Jobs /\ Named(t)
    BY <1>1, <2>1 DEF Jobs, Named, Pcs
  <2>3. job' = [job EXCEPT ![p] = t]
    BY <1>18 DEF ReadWorkspace
  <2> HIDE DEF t
  <2> QED
    BY <1>3, <1>18, <2>2, <2>3 DEF ReadWorkspace
<1>19. CASE MarkWorkspace(p)
  <2>1. n \in Names /\ workspaces[n] \in Workspace
    BY <1>1, <1>19 DEF MarkWorkspace, At, Named
  <2>2. [workspaces[n] EXCEPT !.marked = TRUE] \in Workspace
    BY <2>1 DEF Workspace
  <2>3. workspaces' \in [Names -> Workspace \cup {None}]
    BY <1>1, <1>19, <2>2 DEF MarkWorkspace
  <2> QED
    BY <1>4, <1>19, <2>3 DEF MarkWorkspace
<1>20. CASE Refuse(p) \/ Fail(p)
  BY <1>1, <1>4, <1>20 DEF Refuse, Fail
<1> QED
  BY <1>7, <1>8, <1>9, <1>10, <1>11, <1>12, <1>13, <1>14, <1>15, <1>16, <1>17,
     <1>18, <1>19, <1>20 DEF Step

\* TypeOK is inductive.
LEMMA NextTypes == TypeOK /\ [Next]_vars => TypeOK'
<1> SUFFICES ASSUME TypeOK, [Next]_vars PROVE TypeOK'
  OBVIOUS
<1>1. CASE UNCHANGED vars
  BY <1>1 DEF vars, TypeOK, At
<1> QED
  BY <1>1, StepTypes, KcpTypes DEF Next

\* TypeOK holds whatever the constants are: a setup that is at work has a
\* workspace to work on.
THEOREM TypeCorrect == Spec => []TypeOK
BY InitTypes, NextTypes, PTL DEF Spec

(***************************************************************************)
(* The annotation keeps its promise.                                       *)
(***************************************************************************)

\* Nobody but the setups touches what they create, and no name is used twice.
Unspoilt == Tampering = {} /\ MaxUid <= 1

\* What a setup has done so far, as its program counter says.
Progress(j, c) ==
    /\ j.pc \in {"bindings", "create"} => Bindings \ j.todo \subseteq c.bindings
    /\ j.pc \in {"namespace", "account", "secret", "role", "token", "read", "mark"}
          => c.bindings = Bindings
    /\ j.pc \in {"secret", "role", "token", "read", "mark"} => c.account
    /\ j.pc \in {"token", "read", "mark"} => c.crb = "admin"
    /\ j.pc \in {"read", "mark"} => c.secret = "token"

\* The names that were ever used.
Known == {n \in Names : uids[n] # 0}

\* Processes know of no others.
KnownInv ==
    /\ \A n \in Names : Exists(n) => n \in Known
    /\ \A p \in Procs : /\ job[p].round \subseteq Known
                        /\ job[p].name \in Known \cup {None}

NamespaceInv == \A n \in Names : content[n].namespace

ProgressInv ==
    \A p \in Procs : job[p].name \in Names /\ Exists(job[p].name) =>
        Progress(job[p], content[job[p].name])

IInv == TypeOK /\ KnownInv /\ NamespaceInv /\ ProgressInv /\ MarkedIsSetUp

\* At first no workspace exists, and no setup runs.
LEMMA InitInv == Init => IInv
BY InitTypes DEF Init, IInv, KnownInv, NamespaceInv, ProgressInv, MarkedIsSetUp,
                 Exists, Idle, Fresh

\* d has everything of c that a setup relies on.
AtLeast(c, d) ==
    /\ c.bindings \subseteq d.bindings
    /\ c.account => d.account
    /\ c.crb = "admin" => d.crb = "admin"
    /\ c.account /\ c.secret = "token" => d.secret = "token"
    /\ d.namespace

\* What a setup has done stays done while the content does not shrink.
LEMMA ProgressGrows ==
    ASSUME NEW j \in Jobs, NEW c \in Content, NEW d \in Content,
           AtLeast(c, d), Progress(j, c)
    PROVE  Progress(j, d)
BY DEF AtLeast, Progress, Content

\* A process takes a step to the job j: the content does not shrink, workspaces
\* stay or go on with their marks, and the job has made the progress it claims.
LEMMA MoveInv ==
    ASSUME IInv, TypeOK', NEW p \in Procs, NEW j \in Jobs,
           job' = [job EXCEPT ![p] = j], UNCHANGED <<workspaces, uids>>,
           \A n \in Names : AtLeast(content[n], content'[n]),
           j.round \subseteq Known, j.name \in Known \cup {None},
           j.name \in Names /\ Exists(j.name) => Progress(j, content'[j.name])
    PROVE  IInv'
<1>1. /\ \A n \in Names : content[n] \in Content /\ content'[n] \in Content
      /\ \A q \in Procs : job[q] \in Jobs
      /\ job'[p] = j /\ \A q \in Procs : q # p => job'[q] = job[q]
  BY DEF IInv, TypeOK
<1>2. \A n \in Names : Exists(n)' = Exists(n)
  BY DEF Exists
<1>3. KnownInv' /\ NamespaceInv'
  BY <1>1, <1>2 DEF IInv, KnownInv, NamespaceInv, AtLeast, Known
<1>4. ProgressInv'
  <2> SUFFICES ASSUME NEW q \in Procs, job'[q].name \in Names, Exists(job'[q].name)
               PROVE  Progress(job'[q], content'[job'[q].name])
    BY <1>2 DEF ProgressInv
  <2>1. CASE q = p
    BY <1>1, <2>1
  <2>2. CASE q # p
    BY <1>1, <2>2, ProgressGrows DEF IInv, ProgressInv
  <2> QED
    BY <2>1, <2>2
<1>5. MarkedIsSetUp'
  <2> SUFFICES ASSUME NEW n \in Names, Exists(n), workspaces[n].marked
               PROVE  IsSetUp(n)'
    BY <1>2 DEF MarkedIsSetUp
  <2>1. IsSetUp(n)
    BY DEF IInv, MarkedIsSetUp
  <2> QED
    BY <1>1, <2>1 DEF IsSetUp, AtLeast, Content
<1> QED
  BY <1>3, <1>4, <1>5 DEF IInv

\* A process goes on to the next workspace, or stops; another may be marked.
LEMMA LeaveInv ==
    ASSUME IInv, TypeOK', NEW p \in Procs, NEW j \in Jobs,
           job' = [job EXCEPT ![p] = j], UNCHANGED <<uids, content>>,
           j.name = None, j.round \subseteq Known,
           \A n \in Names : /\ Exists(n)' = Exists(n)
                            /\ Exists(n) /\ workspaces'[n].marked
                                  => workspaces[n].marked \/ IsSetUp(n)
    PROVE  IInv'
<1>1. /\ None \notin Names
      /\ job'[p] = j /\ \A q \in Procs : q # p => job'[q] = job[q]
  BY ConstantTypes DEF IInv, TypeOK
<1>2. KnownInv' /\ NamespaceInv'
  BY <1>1 DEF IInv, KnownInv, NamespaceInv, Known
<1>3. ProgressInv'
  <2> SUFFICES ASSUME NEW q \in Procs, job'[q].name \in Names,
                      Exists(job'[q].name)
               PROVE  Progress(job'[q], content[job'[q].name])
    BY DEF ProgressInv
  <2> QED
    BY <1>1 DEF IInv, ProgressInv
<1>4. MarkedIsSetUp'
  BY DEF IInv, MarkedIsSetUp, IsSetUp
<1> QED
  BY <1>2, <1>3, <1>4 DEF IInv

\* Every step of the loop and of a setup keeps IInv: a workspace is marked last.
LEMMA StepInv ==
    ASSUME IInv, NEW p \in Procs, Step(p) \/ Fail(p) \/ Crash(p)
    PROVE  IInv'
<1> DEFINE j == job[p]
           n == j.name
<1>1. TypeOK'
  BY StepTypes DEF IInv
<1>2. /\ j \in Jobs /\ Named(j) /\ TypeOK
      /\ j.round \subseteq Known /\ n \in Known \cup {None}
      /\ Known \subseteq Names
      /\ job' \in [Procs -> Jobs]
      /\ None \notin Names
  BY <1>1, ConstantTypes DEF IInv, TypeOK, Named, At, KnownInv, Known
<1>3. \A m \in Names : content[m] \in Content /\ content[m].namespace
  BY DEF IInv, TypeOK, NamespaceInv
<1>4. \A m \in Names : AtLeast(content[m], content[m])
  BY <1>3 DEF AtLeast
<1>5. n \in Names /\ Exists(n) => Progress(j, content[n])
  BY DEF IInv, ProgressInv
<1>6. job[p]' \in Jobs
  BY <1>2
\* A setup ends; marked workspaces stay what they are.
<1>7. ASSUME NEW t \in Jobs, job' = [job EXCEPT ![p] = t], t.name = None,
             t.round \subseteq Known, UNCHANGED <<workspaces, uids, content>>
      PROVE  IInv'
  BY <1>1, <1>7, LeaveInv DEF Exists
<1>8. ASSUME Done(p)
      PROVE  /\ job' = [job EXCEPT ![p] = [Idle EXCEPT !.pc = "round",
                                                       !.round = j.round]]
             /\ [Idle EXCEPT !.pc = "round", !.round = j.round] \in Jobs
             /\ [Idle EXCEPT !.pc = "round", !.round = j.round].name = None
             /\ [Idle EXCEPT !.pc = "round", !.round = j.round].round \subseteq Known
  BY <1>2, <1>8, IdleTypes DEF Done, Idle
\* A step that only moves on.
<1>9. ASSUME NEW pc \in Pcs, Goto(p, pc), n \in Names,
             UNCHANGED <<workspaces, uids, content>>,
             Exists(n) => Progress([j EXCEPT !.pc = pc], content[n])
      PROVE  IInv'
  <2> DEFINE t == [j EXCEPT !.pc = pc]
  <2>1. t \in Jobs /\ t.round = j.round /\ t.name = n
    BY <1>2, <1>9 DEF Jobs
  <2>2. job' = [job EXCEPT ![p] = t] /\ (Exists(n) => Progress(t, content[n]))
    BY <1>9 DEF Goto
  <2> HIDE DEF t
  <2> QED
    BY <1>1, <1>2, <1>4, <1>9, <2>1, <2>2, MoveInv
\* A step that also adds to the content of its workspace.
<1>10. ASSUME NEW pc \in Pcs, Goto(p, pc), n \in Names, NEW c \in Content,
              content' = [content EXCEPT ![n] = c],
              UNCHANGED <<workspaces, uids>>,
              AtLeast(content[n], c),
              Exists(n) => Progress([j EXCEPT !.pc = pc], c)
       PROVE  IInv'
  <2> DEFINE t == [j EXCEPT !.pc = pc]
  <2>1. t \in Jobs /\ t.round = j.round /\ t.name = n
    BY <1>2, <1>10 DEF Jobs
  <2>2. job' = [job EXCEPT ![p] = t] /\ (Exists(n) => Progress(t, c))
    BY <1>10 DEF Goto
  <2>3. content'[n] = c /\ \A m \in Names : m # n => content'[m] = content[m]
    BY <1>2, <1>10 DEF TypeOK
  <2>4. \A m \in Names : AtLeast(content[m], content'[m])
    BY <1>4, <1>10, <2>3
  <2> HIDE DEF t
  <2>5. t.name \in Names /\ Exists(t.name) => Progress(t, content'[t.name])
    BY <2>1, <2>2, <2>3
  <2> QED
    BY <1>1, <1>2, <1>10, <2>1, <2>2, <2>4, <2>5, MoveInv
<1>11. CASE ReconcileWorkspaceBindings(p)
  <2> DEFINE listed == {m \in Names :
                IF IsLive(m) THEN ~IsTransientPhase(workspaces[m].phase) ELSE FALSE}
             t == [j EXCEPT !.pc = "round", !.round = listed]
  <2>1. listed \subseteq Known
    BY DEF IInv, KnownInv, IsLive
  <2>2. /\ job' = [job EXCEPT ![p] = t] /\ UNCHANGED <<workspaces, uids, content>>
        /\ At(p, "idle")
    BY <1>11 DEF ReconcileWorkspaceBindings
  <2> HIDE DEF listed
  <2>3. t \in Jobs /\ t.round = listed /\ t.name = n /\ t.pc = "round"
    BY <1>2, <2>1 DEF Jobs, Pcs
  <2>4. n \in Names => Progress(t, content[n])
    BY <2>3 DEF Progress
  <2> HIDE DEF t
  <2> QED
    BY <1>1, <1>2, <1>4, <2>1, <2>2, <2>3, <2>4, MoveInv
<1>12. ASSUME NEW m \in Names, EnsureWorkspaceSetup(p, m)
       PROVE  IInv'
  <2> DEFINE t == [Idle EXCEPT !.pc = "bindings", !.round = j.round \ {m},
                               !.name = m, !.todo = Bindings]
  <2>1. t \in Jobs /\ t.round \subseteq Known /\ t.name = m /\ m \in Known
    BY <1>2, <1>12 DEF Idle, Jobs, Pcs, EnsureWorkspaceSetup
  <2>2. Progress(t, content[m])
    BY DEF Progress, Idle
  <2>3. job' = [job EXCEPT ![p] = t] /\ UNCHANGED <<workspaces, uids, content>>
    BY <1>12 DEF EnsureWorkspaceSetup
  <2> HIDE DEF t
  <2> QED
    BY <1>1, <1>4, <2>1, <2>2, <2>3, MoveInv
<1>13. CASE EndRound(p) \/ StartLoop(p) \/ Crash(p)
  <2>1. \A pc \in {"down", "idle"} :
            /\ Idle.name = None /\ Idle.round \subseteq Known /\ Idle \in Jobs
            /\ [Idle EXCEPT !.pc = pc].name = None
            /\ [Idle EXCEPT !.pc = pc].round \subseteq Known
            /\ [Idle EXCEPT !.pc = pc] \in Jobs
    BY IdleTypes DEF Idle
  <2> QED
    BY <1>7, <1>13, <2>1 DEF EndRound, StartLoop, Crash
<1>14. CASE EnsureBinding(p)
  <2>1. PICK b \in j.todo :
            IF b \in content[n].bindings
            THEN job' = [job EXCEPT ![p].todo = @ \ {b}]
            ELSE job' = [job EXCEPT ![p].pc = "create", ![p].binding = b]
    BY <1>14 DEF EnsureBinding
  <2>2. /\ j.pc = "bindings" /\ b \in Bindings /\ n \in Names /\ Exists(n)
        /\ UNCHANGED <<workspaces, uids, content>>
    BY <1>2, <1>14, <2>1 DEF EnsureBinding, At, Jobs, Named, Reachable
  <2>3. Bindings \ j.todo \subseteq content[n].bindings
    BY <1>5, <2>2 DEF Progress
  <2> DEFINE t == IF b \in content[n].bindings
                  THEN [j EXCEPT !.todo = @ \ {b}]
                  ELSE [j EXCEPT !.pc = "create", !.binding = b]
  <2>4. job' = [job EXCEPT ![p] = t]
    BY <2>1
  <2>5. t \in Jobs /\ t.round = j.round /\ t.name = n
    BY <1>2, <2>2 DEF Jobs, Pcs
  <2>6. /\ t.pc \in {"bindings", "create"}
        /\ Bindings \ t.todo \subseteq content[n].bindings
    BY <1>2, <2>2, <2>3 DEF Jobs
  <2> HIDE DEF t
  <2>7. Progress(t, content[n])
    BY <2>6 DEF Progress
  <2> QED
    BY <1>1, <1>2, <1>4, <2>2, <2>4, <2>5, <2>7, MoveInv
<1>15. CASE CreateBinding(p)
  <2> DEFINE b == j.binding
             t == [j EXCEPT !.pc = "bindings", !.todo = @ \ {b}, !.binding = None]
             c == [content[n] EXCEPT !.bindings = @ \cup {b}]
  <2>1. j.pc = "create" /\ n \in Names /\ b \in Bindings /\ Exists(n)
    BY <1>2, <1>15 DEF CreateBinding, At, Named, Reachable
  <2>2. /\ t \in Jobs /\ t.round = j.round /\ t.name = n /\ t.pc = "bindings"
        /\ t.todo = j.todo \ {b}
    BY <1>2, <2>1 DEF Jobs, Pcs
  <2>3. AtLeast(content[n], c) /\ c.bindings = content[n].bindings \cup {b}
    BY <1>3, <2>1 DEF AtLeast, Content
  <2>4. /\ job' = [job EXCEPT ![p] = t] /\ content' = [content EXCEPT ![n] = c]
        /\ UNCHANGED <<workspaces, uids>>
    BY <1>15 DEF CreateBinding
  <2>5. Bindings \ j.todo \subseteq content[n].bindings
    BY <1>5, <2>1 DEF Progress
  <2> HIDE DEF t, c
  <2>6. Progress(t, c)
    BY <2>2, <2>3, <2>5 DEF Progress
  <2>7. content'[n] = c /\ \A m \in Names : m # n => content'[m] = content[m]
    BY <1>2, <2>1, <2>4 DEF TypeOK
  <2>8. \A m \in Names : AtLeast(content[m], content'[m])
    BY <1>4, <2>3, <2>7
  <2>9. Progress(t, content'[t.name])
    BY <2>2, <2>6, <2>7
  <2> QED
    BY <1>1, <1>2, <2>2, <2>4, <2>8, <2>9, MoveInv
<1>16. CASE BindingsDone(p)
  <2>1. j.pc = "bindings" /\ j.todo = {} /\ n \in Names
    BY <1>2, <1>16 DEF BindingsDone, At, Named
  <2>2. Exists(n) => content[n].bindings = Bindings
    BY <1>3, <1>5, <2>1 DEF Progress, Content
  <2>3. [j EXCEPT !.pc = "namespace"].pc = "namespace"
    BY <1>2 DEF Jobs
  <2>4. Exists(n) => Progress([j EXCEPT !.pc = "namespace"], content[n])
    BY <2>2, <2>3 DEF Progress
  <2> QED
    BY <1>9, <1>16, <2>1, <2>4 DEF BindingsDone, Pcs
<1>17. CASE EnsureWorkspaceNamespace(p)
  <2> DEFINE c == [content[n] EXCEPT !.namespace = TRUE]
  <2>1. j.pc = "namespace" /\ n \in Names
    BY <1>2, <1>17 DEF EnsureWorkspaceNamespace, At, Named
  <2>2. c \in Content /\ AtLeast(content[n], c) /\ c.bindings = content[n].bindings
    BY <1>3, <2>1 DEF Content, AtLeast
  <2>3. [j EXCEPT !.pc = "account"].pc = "account"
    BY <1>2 DEF Jobs
  <2>4. content' = [content EXCEPT ![n] = c]
    BY <1>17 DEF EnsureWorkspaceNamespace
  <2> HIDE DEF c
  <2>5. Exists(n) => Progress([j EXCEPT !.pc = "account"], c)
    BY <1>5, <2>1, <2>2, <2>3 DEF Progress
  <2> QED
    BY <1>10, <1>17, <2>1, <2>2, <2>4, <2>5 DEF EnsureWorkspaceNamespace, Pcs
<1>18. CASE EnsureServiceAccount(p)
  <2> DEFINE c == [content[n] EXCEPT !.account = TRUE]
  <2>1. j.pc = "account" /\ n \in Names
    BY <1>2, <1>18 DEF EnsureServiceAccount, At, Named
  <2>2. /\ c \in Content /\ AtLeast(content[n], c)
        /\ c.bindings = content[n].bindings /\ c.account
    BY <1>3, <2>1 DEF Content, AtLeast
  <2>3. [j EXCEPT !.pc = "secret"].pc = "secret"
    BY <1>2 DEF Jobs
  <2>4. content' = [content EXCEPT ![n] = c]
    BY <1>18 DEF EnsureServiceAccount
  <2> HIDE DEF c
  <2>5. Exists(n) => Progress([j EXCEPT !.pc = "secret"], c)
    BY <1>5, <2>1, <2>2, <2>3 DEF Progress
  <2> QED
    BY <1>10, <1>18, <2>1, <2>2, <2>4, <2>5 DEF EnsureServiceAccount, Pcs
<1>19. CASE EnsureTokenSecret(p)
  <2> DEFINE c == [content[n] EXCEPT !.secret = IF @ = "none" THEN "empty" ELSE @]
  <2>1. j.pc = "secret" /\ n \in Names
    BY <1>2, <1>19 DEF EnsureTokenSecret, At, Named
  <2>2. /\ c \in Content /\ AtLeast(content[n], c)
        /\ c.bindings = content[n].bindings /\ c.account = content[n].account
    BY <1>3, <2>1 DEF Content, AtLeast, Secrets
  <2>3. [j EXCEPT !.pc = "role"].pc = "role"
    BY <1>2 DEF Jobs
  <2>4. content' = [content EXCEPT ![n] = c]
    BY <1>19 DEF EnsureTokenSecret
  <2> HIDE DEF c
  <2>5. Exists(n) => Progress([j EXCEPT !.pc = "role"], c)
    BY <1>5, <2>1, <2>2, <2>3 DEF Progress
  <2> QED
    BY <1>10, <1>19, <2>1, <2>2, <2>4, <2>5 DEF EnsureTokenSecret, Pcs
<1>20. CASE EnsureAdminClusterRoleBinding(p)
  <2> DEFINE c == [content[n] EXCEPT !.crb = "admin"]
  <2>1. j.pc = "role" /\ n \in Names
    BY <1>2, <1>20 DEF EnsureAdminClusterRoleBinding, At, Named
  <2>2. /\ c \in Content /\ AtLeast(content[n], c) /\ c.crb = "admin"
        /\ c.bindings = content[n].bindings /\ c.account = content[n].account
    BY <1>3, <2>1 DEF Content, AtLeast, Roles
  <2>3. [j EXCEPT !.pc = "token"].pc = "token"
    BY <1>2 DEF Jobs
  <2>4. content' = [content EXCEPT ![n] = c]
    BY <1>20 DEF EnsureAdminClusterRoleBinding
  <2> HIDE DEF c
  <2>5. Exists(n) => Progress([j EXCEPT !.pc = "token"], c)
    BY <1>5, <2>1, <2>2, <2>3 DEF Progress
  <2> QED
    BY <1>10, <1>20, <2>1, <2>2, <2>4, <2>5 DEF EnsureAdminClusterRoleBinding, Pcs
<1>21. CASE WorkspaceServiceAccountToken(p)
  <2>1. j.pc = "token" /\ n \in Names /\ content[n].secret = "token"
    BY <1>2, <1>21 DEF WorkspaceServiceAccountToken, At, Named
  <2>2. [j EXCEPT !.pc = "read"].pc = "read"
    BY <1>2 DEF Jobs
  <2>3. Exists(n) => Progress([j EXCEPT !.pc = "read"], content[n])
    BY <1>5, <2>1, <2>2 DEF Progress
  <2> QED
    BY <1>9, <1>21, <2>1, <2>3 DEF WorkspaceServiceAccountToken, Pcs
<1>22. CASE ReadWorkspace(p)
  <2> DEFINE t == [j EXCEPT !.pc = "mark", !.copy = workspaces[n]]
  <2>1. /\ j.pc = "read" /\ n \in Names /\ Exists(n)
        /\ workspaces[n] \in Workspace
    BY <1>2, <1>22 DEF ReadWorkspace, At, Named, TypeOK, Exists
  <2>2. t \in Jobs /\ t.round = j.round /\ t.name = n /\ t.pc = "mark"
    BY <1>2, <2>1 DEF Jobs, Pcs
  <2>3. job' = [job EXCEPT ![p] = t] /\ UNCHANGED <<workspaces, uids, content>>
    BY <1>22 DEF ReadWorkspace
  <2> HIDE DEF t
  <2>4. Progress(t, content[n])
    BY <1>5, <2>1, <2>2 DEF Progress
  <2> QED
    BY <1>1, <1>2, <1>4, <2>2, <2>3, <2>4, MoveInv
<1>23. CASE MarkWorkspace(p)
  <2>1. /\ j.pc = "mark" /\ n \in Names /\ j.copy \in Workspace
        /\ workspaces[n] = j.copy /\ Done(p) /\ UNCHANGED <<uids, content>>
        /\ workspaces' = [workspaces EXCEPT ![n].marked = TRUE]
    BY <1>2, <1>23 DEF MarkWorkspace, At, Named
  <2>2. Exists(n)
    BY <2>1, ConstantTypes DEF Exists
  <2>3. IsSetUp(n)
    BY <1>3, <1>5, <2>1, <2>2 DEF Progress, IsSetUp
  <2>4. workspaces'[n] \in Workspace /\ workspaces'[n] # None
    BY <1>2, <2>1, ConstantTypes DEF TypeOK, Workspace
  <2>5. \A m \in Names : m # n => workspaces'[m] = workspaces[m]
    BY <2>1 DEF TypeOK, IInv
  <2>6. \A m \in Names : /\ Exists(m)' = Exists(m)
                         /\ Exists(m) /\ workspaces'[m].marked
                               => workspaces[m].marked \/ IsSetUp(m)
    BY <2>2, <2>3, <2>4, <2>5 DEF Exists
  <2> QED
    BY <1>1, <1>8, <2>1, <2>6, LeaveInv
<1>24. CASE Refuse(p) \/ Fail(p)
  BY <1>7, <1>8, <1>24 DEF Refuse, Fail
<1> QED
  BY <1>11, <1>12, <1>13, <1>14, <1>15, <1>16, <1>17, <1>18, <1>19, <1>20, <1>21,
     <1>22, <1>23, <1>24 DEF Step

\* kcp adds to a workspace that no setup knows, takes away what no setup relies
\* on, or removes a workspace with everything in it.
LEMMA KcpInv ==
    ASSUME Unspoilt, IInv, NEW n \in Names, Kcp(n)
    PROVE  IInv'
<1>1. TypeOK'
  BY KcpTypes DEF IInv
<1>2. /\ \A m \in Names : content[m] \in Content /\ content[m].namespace
      /\ \A q \in Procs : job[q] \in Jobs
      /\ workspaces \in [Names -> Workspace \cup {None}]
      /\ content \in [Names -> Content] /\ uids \in [Names -> 0..MaxUid]
  BY DEF IInv, TypeOK, NamespaceInv
<1>3. ~Tamper(n)
  BY DEF Unspoilt, Tamper
<1>4. UNCHANGED job
  BY <1>3 DEF Kcp, ProvisionWorkspace, DeleteWorkspace, PurgeWorkspace,
              ProgressWorkspace, IssueToken, DropSecret
\* The steps in which workspaces, if they stay, keep content and mark.
<1>5. ASSUME UNCHANGED uids,
             \A m \in Names : /\ content'[m].namespace
                              /\ Exists(m)' =>
                                    /\ Exists(m)
                                    /\ AtLeast(content[m], content'[m])
                                    /\ workspaces'[m].marked => workspaces[m].marked
      PROVE  IInv'
  <2>1. KnownInv' /\ NamespaceInv'
    BY <1>4, <1>5 DEF IInv, KnownInv, NamespaceInv, Known
  <2>2. \A m \in Names : content'[m] \in Content
    BY <1>1 DEF TypeOK
  <2>3. ProgressInv'
    <3> SUFFICES ASSUME NEW q \in Procs, NEW m \in Names, job[q].name = m, Exists(m)'
                 PROVE  Progress(job[q], content'[m])
      BY <1>4 DEF ProgressInv
    <3>1. Progress(job[q], content[m]) /\ AtLeast(content[m], content'[m])
      BY <1>5 DEF IInv, ProgressInv
    <3> QED
      BY <1>2, <2>2, <3>1, ProgressGrows
  <2>4. MarkedIsSetUp'
    <3> SUFFICES ASSUME NEW m \in Names, Exists(m)', workspaces'[m].marked
                 PROVE  IsSetUp(m)'
      BY DEF MarkedIsSetUp
    <3>1. IsSetUp(m) /\ AtLeast(content[m], content'[m])
      BY <1>5 DEF IInv, MarkedIsSetUp
    <3> QED
      BY <1>2, <2>2, <3>1 DEF IsSetUp, AtLeast, Content
  <2> QED
    BY <1>1, <2>1, <2>3, <2>4 DEF IInv
<1>6. CASE ProvisionWorkspace(n)
  <2>0. uids[n] \in 0..MaxUid /\ uids[n] < MaxUid /\ MaxUid \in Nat /\ MaxUid <= 1
    BY <1>2, <1>6, ConstantTypes DEF ProvisionWorkspace, Unspoilt
  <2>10. uids[n] = 0
    BY <2>0
  <2>11. uids' = [uids EXCEPT ![n] = uids[n] + 1] /\ n \in DOMAIN uids
    BY <1>2, <1>6 DEF ProvisionWorkspace
  <2>12. uids'[n] = uids[n] + 1 /\ \A m \in Names : m # n => uids'[m] = uids[m]
    BY <1>2, <2>11
  <2>1. uids[n] = 0 /\ uids'[n] # 0 /\ \A m \in Names : m # n => uids'[m] = uids[m]
    BY <2>10, <2>12
  <2>2. /\ ~workspaces'[n].marked
        /\ \A m \in Names : m # n => workspaces'[m] = workspaces[m]
        /\ UNCHANGED content
    BY <1>2, <1>6 DEF ProvisionWorkspace
  <2>3. KnownInv' /\ NamespaceInv'
    BY <1>4, <2>1, <2>2 DEF IInv, KnownInv, NamespaceInv, Known, Exists
  <2>4. \A q \in Procs : job[q].name # n
    BY <2>1, ConstantTypes DEF IInv, KnownInv, Known
  <2>5. ProgressInv'
    BY <1>4, <2>2, <2>4 DEF IInv, ProgressInv, Exists
  <2>6. MarkedIsSetUp'
    BY <2>2 DEF IInv, MarkedIsSetUp, Exists, IsSetUp
  <2> QED
    BY <1>1, <2>3, <2>5, <2>6 DEF IInv
<1>7. CASE DeleteWorkspace(n) \/ ProgressWorkspace(n)
  <2>1. \A m \in Names : /\ Exists(m)' => Exists(m)
                         /\ Exists(m) => workspaces'[m].marked = workspaces[m].marked
                         /\ AtLeast(content[m], content'[m])
    <3>1. UNCHANGED content /\ IsLive(n)
      BY <1>7 DEF DeleteWorkspace, ProgressWorkspace
    <3>2. Exists(n) /\ workspaces[n] \in Workspace
      BY <1>2, <3>1 DEF IsLive, Exists
    <3>3. workspaces'[n].marked = workspaces[n].marked
      BY <1>2, <1>7, <3>2 DEF DeleteWorkspace, ProgressWorkspace, Workspace
    <3>4. \A m \in Names : m # n => workspaces'[m] = workspaces[m]
      BY <1>2, <1>7 DEF DeleteWorkspace, ProgressWorkspace
    <3> QED
      BY <1>2, <3>1, <3>2, <3>3, <3>4 DEF Exists, AtLeast
  <2> QED
    BY <1>5, <1>7, <2>1 DEF DeleteWorkspace, ProgressWorkspace, AtLeast
<1>8. CASE PurgeWorkspace(n)
  <2>1. /\ ~Exists(n)' /\ content'[n].namespace
        /\ \A m \in Names : m # n => /\ workspaces'[m] = workspaces[m]
                                     /\ content'[m] = content[m]
    BY <1>2, <1>8 DEF PurgeWorkspace, Exists, Fresh
  <2> QED
    BY <1>2, <1>5, <1>8, <2>1 DEF PurgeWorkspace, Exists, AtLeast
<1>9. CASE IssueToken(n) \/ DropSecret(n)
  <2>1. AtLeast(content[n], content'[n]) /\ content'[n].namespace
    BY <1>2, <1>9 DEF IssueToken, DropSecret, AtLeast, Content, Secrets
  <2>2. \A m \in Names : m # n => content'[m] = content[m]
    BY <1>2, <1>9 DEF IssueToken, DropSecret
  <2>3. UNCHANGED <<workspaces, uids>>
    BY <1>9 DEF IssueToken, DropSecret
  <2> QED
    BY <1>2, <1>5, <2>1, <2>2, <2>3 DEF Exists, AtLeast
<1> QED
  BY <1>3, <1>6, <1>7, <1>8, <1>9 DEF Kcp

\* IInv is inductive while nobody tampers and names are used once.
LEMMA NextInv ==
    ASSUME Unspoilt
    PROVE  IInv /\ [Next]_vars => IInv'
<1> SUFFICES ASSUME IInv, [Next]_vars PROVE IInv'
  OBVIOUS
<1>1. CASE UNCHANGED vars
  BY <1>1, NextTypes DEF vars, IInv, KnownInv, Known, NamespaceInv, ProgressInv,
                         MarkedIsSetUp, IsSetUp, Exists
<1> QED
  BY <1>1, StepInv, KcpInv DEF Next

\* A workspace that is marked for scoped credentials has all the bindings, and a
\* token of an account that is bound to cluster-admin, however many processes
\* set it up at once and whatever fails: provided that tenants leave the setup
\* alone and no workspace name is used twice.
THEOREM MarkKeepsPromise == ASSUME Unspoilt PROVE Spec => []MarkedIsSetUp
<1>1. IInv => MarkedIsSetUp
  BY DEF IInv
<1> QED
  BY <1>1, InitInv, NextInv, PTL DEF Spec

(***************************************************************************)
(* The refinement of WorkspaceLife.                                        *)
(***************************************************************************)

life == [n \in Names |-> LifeOf(n)]

\* The fields of a life are set one at a time.
LEMMA Setters ==
    ASSUME NEW state, NEW marked, NEW token, NEW new
    PROVE  LET l == [state |-> state, marked |-> marked, token |-> token]
           IN  /\ [l EXCEPT !.state = new]
                     = [state |-> new, marked |-> marked, token |-> token]
               /\ [l EXCEPT !.marked = new]
                     = [state |-> state, marked |-> new, token |-> token]
               /\ [l EXCEPT !.token = new]
                     = [state |-> state, marked |-> marked, token |-> new]
OBVIOUS

\* When one workspace, or what it holds, has changed, one life has.
LEMMA OneLife ==
    ASSUME TypeOK, NEW n \in Names,
           \A m \in Names \ {n} : /\ workspaces'[m] = workspaces[m]
                                  /\ content'[m] = content[m]
    PROVE  life' = [life EXCEPT ![n] = LifeOf(n)']
<1>1. \A m \in Names : m # n => LifeOf(m)' = LifeOf(m)
  BY DEF LifeOf, Exists
<1> QED
  BY <1>1 DEF life

\* A step that leaves the workspaces and what they hold alone leaves their lives
\* alone.
LEMMA SameLives ==
    ASSUME UNCHANGED <<workspaces, content>>
    PROVE  UNCHANGED life
BY DEF life, LifeOf, Exists

\* The two ways of a setup to change a workspace: what it holds, and its mark.
Touches(n) ==
    /\ Exists(n) /\ UNCHANGED workspaces
    /\ \A m \in Names \ {n} : content'[m] = content[m]

Marks(n) ==
    /\ Exists(n) /\ UNCHANGED content
    /\ workspaces' = [workspaces EXCEPT ![n].marked = TRUE]

\* A setup changes nothing of a workspace that is not there, and no workspace
\* object but by marking it: the update of a copy that is out of date is refused.
LEMMA SetupChanges ==
    ASSUME TypeOK, NEW p \in Procs, Step(p) \/ Fail(p) \/ Crash(p)
    PROVE  \/ UNCHANGED <<workspaces, content>>
           \/ \E n \in Names : Touches(n) \/ Marks(n)
<1> DEFINE n == job[p].name
<1>1. job[p].pc \notin {"down", "idle", "round"} => n \in Names
  BY DEF TypeOK
<1>2. ASSUME n \in Names, Reachable(n), UNCHANGED workspaces,
             \A m \in Names \ {n} : content'[m] = content[m]
      PROVE  \E m \in Names : Touches(m)
  BY <1>2 DEF Touches, Reachable
<1>3. CASE CreateBinding(p)
  <2>1. n \in Names
    BY <1>1, <1>3 DEF CreateBinding, At
  <2> QED
    BY <1>2, <1>3, <2>1 DEF CreateBinding, TypeOK
<1>4. CASE EnsureWorkspaceNamespace(p) \/ EnsureServiceAccount(p)
             \/ EnsureTokenSecret(p) \/ EnsureAdminClusterRoleBinding(p)
  <2>1. n \in Names
    BY <1>1, <1>4 DEF EnsureWorkspaceNamespace, EnsureServiceAccount,
       EnsureTokenSecret, EnsureAdminClusterRoleBinding, At
  <2>2. Reachable(n) /\ UNCHANGED workspaces
    BY <1>4 DEF EnsureWorkspaceNamespace, EnsureServiceAccount,
       EnsureTokenSecret, EnsureAdminClusterRoleBinding
  <2>3. \A m \in Names \ {n} : content'[m] = content[m]
    BY <1>4 DEF EnsureWorkspaceNamespace, EnsureServiceAccount,
       EnsureTokenSecret, EnsureAdminClusterRoleBinding, TypeOK
  <2> QED
    BY <1>2, <2>1, <2>2, <2>3
<1>5. CASE MarkWorkspace(p)
  <2>1. n \in Names /\ workspaces[n] \in Workspace
    BY <1>1, <1>5 DEF MarkWorkspace, TypeOK, At
  <2> QED
    BY <1>5, <2>1, ConstantTypes DEF MarkWorkspace, Marks, Exists
<1> QED
  BY <1>3, <1>4, <1>5 DEF Step, Fail, Crash, StartLoop, ReconcileWorkspaceBindings,
     EndRound, EnsureWorkspaceSetup, EnsureBinding, BindingsDone,
     WorkspaceServiceAccountToken, ReadWorkspace, Refuse

\* A mark leaves the rest of a workspace as it was.
LEMMA MarkedStays ==
    ASSUME TypeOK, NEW n \in Names, Marks(n)
    PROVE  /\ UNCHANGED content /\ Exists(n) /\ Exists(n)'
           /\ \A m \in Names \ {n} : workspaces'[m] = workspaces[m]
           /\ workspaces'[n].marked = TRUE
           /\ workspaces'[n].terminating = workspaces[n].terminating
<1> DEFINE ws == [workspaces[n] EXCEPT !.marked = TRUE]
<1>1. /\ workspaces[n] \in Workspace /\ workspaces'[n] = ws
      /\ \A m \in Names \ {n} : workspaces'[m] = workspaces[m]
  BY DEF Marks, Exists, TypeOK
<1>2. /\ ws \in Workspace /\ ws.marked = TRUE
      /\ ws.terminating = workspaces[n].terminating
  BY <1>1 DEF Workspace
<1> HIDE DEF ws
<1> QED
  BY <1>1, <1>2, ConstantTypes DEF Marks, Exists

\* A workspace that is not there holds no secret.
AbsentInv == \A n \in Names : ~Exists(n) => content[n].secret = "none"

\* The token controller and the tenants, too, touch only what is there.
LEMMA KcpTouches ==
    ASSUME TypeOK, AbsentInv, NEW n \in Names,
           IssueToken(n) \/ DropSecret(n) \/ Tamper(n)
    PROVE  Touches(n)
<1>1. Exists(n)
  BY DEF AbsentInv, IssueToken, DropSecret, Tamper, Reachable
<1>2. UNCHANGED workspaces /\ \A m \in Names \ {n} : content'[m] = content[m]
  BY DEF IssueToken, DropSecret, Tamper, TypeOK
<1> QED
  BY <1>1, <1>2 DEF Touches

\* How the handlers and kcp change a workspace object that stays.
LEMMA KcpChanges ==
    ASSUME TypeOK, NEW n \in Names,
           ProvisionWorkspace(n) \/ DeleteWorkspace(n) \/ ProgressWorkspace(n)
    PROVE  /\ UNCHANGED content /\ Exists(n)'
           /\ \A m \in Names \ {n} : workspaces'[m] = workspaces[m]
           /\ \/ /\ ~Exists(n)
                 /\ workspaces'[n].marked = FALSE /\ workspaces'[n].terminating = FALSE
              \/ /\ Exists(n) /\ workspaces'[n].marked = workspaces[n].marked
                 /\ \/ workspaces'[n].terminating = workspaces[n].terminating
                    \/ ~workspaces[n].terminating /\ workspaces'[n].terminating
<1>1. /\ UNCHANGED content
      /\ \A m \in Names \ {n} : workspaces'[m] = workspaces[m]
  BY DEF ProvisionWorkspace, DeleteWorkspace, ProgressWorkspace, TypeOK
<1>2. CASE ProvisionWorkspace(n)
  <2> DEFINE ws == [uid |-> uids[n] + 1, phase |-> "", marked |-> FALSE,
                    terminating |-> FALSE]
  <2>1. ~Exists(n) /\ workspaces'[n] = ws
    BY <1>2 DEF ProvisionWorkspace, TypeOK
  <2>2. ws \in Workspace
    <3>1. uids[n] \in 0..MaxUid /\ uids[n] < MaxUid
      BY <1>2 DEF ProvisionWorkspace, TypeOK
    <3>2. uids[n] + 1 \in 1..MaxUid
      BY <3>1, ConstantTypes
    <3> QED
      BY <3>2 DEF Workspace, Phases
  <2>3. ws.terminating = FALSE /\ ws.marked = FALSE
    OBVIOUS
  <2> HIDE DEF ws
  <2> QED
    BY <1>1, <2>1, <2>2, <2>3, ConstantTypes DEF Exists
<1>3. CASE DeleteWorkspace(n)
  <2> DEFINE ws == [workspaces[n] EXCEPT !.terminating = TRUE]
  <2>1. /\ Exists(n) /\ ~workspaces[n].terminating /\ workspaces[n] \in Workspace
        /\ workspaces'[n] = ws
    BY <1>3 DEF DeleteWorkspace, IsLive, Exists, TypeOK
  <2>2. /\ ws \in Workspace /\ ws.terminating
        /\ ws.marked = workspaces[n].marked
    BY <2>1 DEF Workspace
  <2> HIDE DEF ws
  <2> QED
    BY <1>1, <2>1, <2>2, ConstantTypes DEF Exists
<1>4. CASE ProgressWorkspace(n)
  <2>1. PICK phase \in NextPhases(workspaces[n].phase) :
           workspaces' = [workspaces EXCEPT ![n].phase = phase]
    BY <1>4 DEF ProgressWorkspace
  <2>2. Exists(n) /\ workspaces[n] \in Workspace
    BY <1>4 DEF ProgressWorkspace, IsLive, Exists, TypeOK
  <2> DEFINE ws == [workspaces[n] EXCEPT !.phase = phase]
  <2>3. workspaces'[n] = ws
    BY <2>1 DEF TypeOK
  <2>4. phase \in Phases
    <3>1. workspaces[n].phase \in Phases
      BY <2>2 DEF Workspace
    <3>2. \A old \in Phases : NextPhases(old) \in SUBSET Phases
      BY DEF NextPhases, Phases
    <3> QED
      BY <2>1, <3>1, <3>2
  <2>5. /\ ws \in Workspace /\ ws.terminating = workspaces[n].terminating
        /\ ws.marked = workspaces[n].marked
    BY <2>2, <2>4 DEF Workspace
  <2> HIDE DEF ws
  <2> QED
    BY <1>1, <2>2, <2>3, <2>5, ConstantTypes DEF Exists
<1> QED
  BY <1>2, <1>3, <1>4

\* AbsentInv is inductive: the content of a workspace goes with it, and nothing
\* reaches that of one that is not there.
LEMMA AbsentStep ==
    ASSUME TypeOK, AbsentInv, [Next]_vars
    PROVE  AbsentInv'
<1>1. ASSUME \A n \in Names : Exists(n) \/ content'[n] = content[n],
             \A n \in Names : Exists(n) => Exists(n)'
      PROVE  AbsentInv'
  BY <1>1 DEF AbsentInv
<1>2. CASE UNCHANGED <<workspaces, content>>
  BY <1>1, <1>2 DEF Exists
<1>3. ASSUME NEW n \in Names, Touches(n) PROVE AbsentInv'
  BY <1>1, <1>3 DEF Touches, Exists
<1>4. ASSUME NEW n \in Names, Exists(n)', UNCHANGED content,
             \A m \in Names \ {n} : workspaces'[m] = workspaces[m]
      PROVE  AbsentInv'
  BY <1>1, <1>4 DEF Exists
<1>5. ASSUME NEW n \in Names, Marks(n) PROVE AbsentInv'
  BY <1>4, <1>5, MarkedStays
<1>6. ASSUME NEW n \in Names, Kcp(n) PROVE AbsentInv'
  <2>1. CASE IssueToken(n) \/ DropSecret(n) \/ Tamper(n)
    BY <1>3, <2>1, KcpTouches
  <2>2. CASE PurgeWorkspace(n)
    BY <2>2 DEF PurgeWorkspace, AbsentInv, Exists, Fresh, TypeOK
  <2>3. CASE ProvisionWorkspace(n) \/ DeleteWorkspace(n) \/ ProgressWorkspace(n)
    BY <1>4, <2>3, KcpChanges
  <2> QED
    BY <1>6, <2>1, <2>2, <2>3 DEF Kcp
<1> QED
  BY <1>2, <1>3, <1>5, <1>6, SetupChanges DEF Next, vars

\* A change of what a workspace holds turns its token, or nothing of its life.
LEMMA ContentOfLife ==
    ASSUME TypeOK, NEW n \in Names, Touches(n)
    PROVE  UNCHANGED life \/ Life!Turn(n)
<1> DEFINE old == content[n].secret = "token"
           new == content'[n].secret = "token"
           state == IF workspaces[n].terminating THEN "terminating" ELSE "live"
           marked == workspaces[n].marked
<1>1. /\ old \in BOOLEAN /\ new \in BOOLEAN /\ state # "absent"
      /\ LifeOf(n) = [state |-> state, marked |-> marked, token |-> old]
      /\ LifeOf(n)' = [state |-> state, marked |-> marked, token |-> new]
  BY DEF LifeOf, Exists, Touches
<1>2. life' = [life EXCEPT ![n] = LifeOf(n)'] /\ life[n] = LifeOf(n)
  BY OneLife DEF life, Touches
<1> HIDE DEF old, new, state, marked
<1>3. CASE new = old
  BY <1>1, <1>2, <1>3 DEF life
<1>4. CASE new = ~old
  <2>1. LifeOf(n).token = old /\ LifeOf(n).state = state
    BY <1>1
  <2>2. LifeOf(n)' = [LifeOf(n) EXCEPT !.token = ~old]
    BY <1>1, <1>4, Setters
  <2>3. LifeOf(n)' = [LifeOf(n) EXCEPT !.token = ~@]
    BY <2>1, <2>2
  <2> QED
    BY <1>1, <1>2, <2>1, <2>3 DEF Life!Turn, life
<1> QED
  BY <1>1, <1>3, <1>4

\* Every step of a setup is the mark of a workspace, a change of its token, or
\* nothing to the others.
LEMMA StepOfLife ==
    ASSUME TypeOK, NEW p \in Procs, Step(p) \/ Fail(p) \/ Crash(p)
    PROVE  UNCHANGED life \/ \E n \in Names : Life!Turn(n) \/ Life!Mark(n)
<1>1. ASSUME NEW n \in Names, Marks(n) PROVE Life!Mark(n)
  <2> DEFINE state == IF workspaces[n].terminating THEN "terminating" ELSE "live"
             marked == workspaces[n].marked
             token == content[n].secret = "token"
             mark == workspaces'[n].marked
  <2>0. mark = TRUE
    BY <1>1, MarkedStays
  <2>1. /\ state # "absent"
        /\ LifeOf(n) = [state |-> state, marked |-> marked, token |-> token]
        /\ LifeOf(n)' = [state |-> state, marked |-> mark, token |-> token]
    BY <1>1, MarkedStays DEF LifeOf, Exists
  <2>2. life' = [life EXCEPT ![n] = LifeOf(n)'] /\ life[n] = LifeOf(n)
    BY <1>1, OneLife, MarkedStays DEF life
  <2> HIDE DEF state, marked, token, mark
  <2>3. LifeOf(n)' = [LifeOf(n) EXCEPT !.marked = mark] /\ LifeOf(n).state # "absent"
    BY <2>1, Setters
  <2>4. LifeOf(n)' = [LifeOf(n) EXCEPT !.marked = TRUE]
    BY <2>0, <2>3, Zenon
  <2> QED
    BY <2>2, <2>3, <2>4 DEF Life!Mark, life
<1> QED
  BY <1>1, SetupChanges, SameLives, ContentOfLife

\* The handlers, kcp and the tenants keep to the life of a workspace.
LEMMA KcpOfLife ==
    ASSUME TypeOK, AbsentInv, NEW n \in Names, Kcp(n)
    PROVE  \/ UNCHANGED life \/ Life!Create(n) \/ Life!Turn(n)
           \/ Life!Delete(n) \/ Life!Purge(n)
<1>1. CASE IssueToken(n) \/ DropSecret(n) \/ Tamper(n)
  BY <1>1, KcpTouches, ContentOfLife
<1>2. CASE PurgeWorkspace(n)
  <2>1. /\ Exists(n) /\ workspaces[n].terminating /\ ~Exists(n)'
        /\ \A m \in Names \ {n} : /\ workspaces'[m] = workspaces[m]
                                  /\ content'[m] = content[m]
    BY <1>2 DEF PurgeWorkspace, Exists, TypeOK
  <2>2. LifeOf(n).state = "terminating" /\ LifeOf(n)' = Life!Absent
    BY <2>1 DEF LifeOf, Life!Absent
  <2>3. life' = [life EXCEPT ![n] = LifeOf(n)'] /\ life[n] = LifeOf(n)
    BY <2>1, OneLife DEF life
  <2> QED
    BY <2>2, <2>3 DEF Life!Purge, life
<1>3. CASE ProvisionWorkspace(n) \/ DeleteWorkspace(n) \/ ProgressWorkspace(n)
  <2> DEFINE marked == workspaces[n].marked
             token == content[n].secret = "token"
  <2>1. life' = [life EXCEPT ![n] = LifeOf(n)'] /\ life[n] = LifeOf(n)
    BY <1>3, OneLife, KcpChanges DEF life
  <2>2. CASE ~Exists(n)
    <3>1. workspaces'[n].marked = FALSE /\ workspaces'[n].terminating = FALSE
          /\ Exists(n)' /\ content'[n] = content[n] /\ content[n].secret = "none"
      BY <1>3, <2>2, KcpChanges DEF AbsentInv
    <3> DEFINE no == FALSE
    <3>2. /\ LifeOf(n) = [state |-> "absent", marked |-> no, token |-> no]
          /\ LifeOf(n)' = [state |-> "live", marked |-> no, token |-> no]
      BY <2>2, <3>1 DEF LifeOf
    <3> HIDE DEF no
    <3>3. LifeOf(n)' = [LifeOf(n) EXCEPT !.state = "live"]
          /\ LifeOf(n).state = "absent"
      BY <3>2, Setters
    <3> QED
      BY <2>1, <3>3 DEF Life!Create, life
  <2>3. CASE /\ Exists(n)
             /\ workspaces'[n].terminating = workspaces[n].terminating
    <3>1. LifeOf(n)' = LifeOf(n)
      BY <1>3, <2>3, KcpChanges DEF LifeOf
    <3> QED
      BY <2>1, <3>1 DEF life
  <2>4. CASE /\ Exists(n) /\ ~workspaces[n].terminating
             /\ workspaces'[n].terminating
    <3>1. /\ LifeOf(n) = [state |-> "live", marked |-> marked, token |-> token]
          /\ LifeOf(n)' = [state |-> "terminating", marked |-> marked, token |-> token]
      BY <1>3, <2>4, KcpChanges DEF LifeOf
    <3> HIDE DEF marked, token
    <3>2. LifeOf(n)' = [LifeOf(n) EXCEPT !.state = "terminating"]
          /\ LifeOf(n).state = "live"
      BY <3>1, Setters
    <3> QED
      BY <2>1, <3>2 DEF Life!Delete, life
  <2> QED
    BY <1>3, <2>2, <2>3, <2>4, KcpChanges
<1> QED
  BY <1>1, <1>2, <1>3 DEF Kcp

\* Every step is one of a workspace's life, or none.
LEMMA LifeStep == TypeOK /\ AbsentInv /\ [Next]_vars => [Life!Next]_life
<1> SUFFICES ASSUME TypeOK, AbsentInv, [Next]_vars
             PROVE  Life!Next \/ UNCHANGED life
  OBVIOUS
<1>1. CASE UNCHANGED vars
  BY <1>1, SameLives DEF vars
<1>2. ASSUME NEW p \in Procs, Step(p) \/ Fail(p) \/ Crash(p)
      PROVE  Life!Next \/ UNCHANGED life
  BY <1>2, StepOfLife DEF Life!Next
<1>3. ASSUME NEW n \in Names, Kcp(n)
      PROVE  Life!Next \/ UNCHANGED life
  BY <1>3, KcpOfLife DEF Life!Next
<1> QED
  BY <1>1, <1>2, <1>3 DEF Next

\* However many setups run, whatever they have read before and wherever they
\* stop: to the other parts of the provisioner a workspace is created, gets and
\* loses its token, is marked, deleted and purged, and nothing of it is undone.
\* Names may be used again, and tenants may tamper with the workspaces.
THEOREM LifeRefinement == Spec => ImplementsLife
<1>1. Init => Life!Init /\ AbsentInv
  BY DEF Init, Life!Init, Life!Absent, LifeOf, Exists, AbsentInv, Fresh
<1>2. TypeOK /\ AbsentInv /\ [Next]_vars => [Life!Next]_[n \in Names |-> LifeOf(n)]
  BY LifeStep DEF life
<1>3. TypeOK /\ AbsentInv /\ [Next]_vars => TypeOK' /\ AbsentInv'
  BY NextTypes, AbsentStep
<1> QED
  BY <1>1, <1>2, <1>3, InitTypes, PTL DEF Spec, ImplementsLife, Life!Spec
=============================================================================
