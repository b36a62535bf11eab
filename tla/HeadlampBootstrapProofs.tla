----------------------- MODULE HeadlampBootstrapProofs -----------------------
(***************************************************************************)
(* Theorems about HeadlampBootstrap, for every value of its constants: for *)
(* any number of syncs, workspaces and runs of the script.                 *)
(***************************************************************************)
EXTENDS HeadlampBootstrap, HeadlampSyncProofs

(***************************************************************************)
(* Type correctness.                                                       *)
(***************************************************************************)

Scripts == [pc : {"idle", "read", "apply"}, entries : [Names -> Entries \cup {None}]]

BTypeOK ==
    /\ TypeOK
    /\ bootstrap \in Nat /\ shown \in Nat /\ runs \in Nat
    /\ carried \in [Procs -> Nat]
    /\ script \in Scripts

\* Of the steps of HeadlampBootstrap, those that are not of the deployment are
\* steps of HeadlampSync.
LEMMA StepKinds ==
    ASSUME [BNext]_allVars
    PROVE  \/ Deploy
           \/ /\ [Next]_vars
              /\ UNCHANGED deployment
              /\ \/ \E p \in Procs :
                       /\ \/ p = Loop /\ ReconcileHeadlamp
                          \/ Step(p) \/ TokensFail(p) \/ Spawn(p) \/ Fail(p)
                       /\ Carry(p)
                 \/ LoadKubeconfig
                 \/ (\E n \in Names : Kcp(n)) /\ UNCHANGED <<bootstrap, carried, shown>>
                 \/ UNCHANGED <<vars, bootstrap, carried, shown>>
<1>1. CASE Tick
  BY <1>1, ConstantTypes DEF Tick, Carry, deployment, Next
<1>2. CASE LoadKubeconfig
  BY <1>2 DEF LoadKubeconfig, Next
<1>3. ASSUME NEW p \in Procs, SyncGoesOn(p) \/ SyncFails(p) \/ SpawnSync(p)
      PROVE  /\ Next /\ UNCHANGED deployment /\ Carry(p)
             /\ Step(p) \/ TokensFail(p) \/ Spawn(p) \/ Fail(p)
  BY <1>3 DEF SyncGoesOn, SyncFails, SpawnSync, Carry, deployment, Next
<1>4. ASSUME NEW n \in Names, KcpChanges(n)
      PROVE  /\ Next /\ UNCHANGED <<bootstrap, carried, shown, deployment>> /\ Kcp(n)
  BY <1>4 DEF KcpChanges, Next
<1>5. CASE UNCHANGED allVars
  BY <1>5 DEF allVars
<1> QED
  BY <1>1, <1>2, <1>3, <1>4, <1>5 DEF BNext

\* A write of the deployment makes every sync's copy of the secret an old one.
LEMMA WriteTypes ==
    ASSUME BTypeOK, NEW entries \in [Names -> Entries \cup {None}],
           WriteSecret(entries)
    PROVE  TypeOK' /\ \A p \in Procs : ~sync'[p].fresh
<1>1. /\ sync \in [Procs -> Syncs]
      /\ secret \in [entries : [Names -> Entries \cup {None}], epoch : Nat]
      /\ \A p \in Procs : Named(sync[p])
  BY DEF BTypeOK, TypeOK, Named
<1> DEFINE t(p) == [sync[p] EXCEPT !.fresh = FALSE]
<1>2. ASSUME NEW p \in Procs PROVE t(p) \in Syncs /\ Named(t(p)) /\ ~t(p).fresh
  BY <1>1 DEF Syncs, Named
<1>3. sync' = [p \in Procs |-> t(p)]
  BY DEF WriteSecret
<1> HIDE DEF t
<1>4. /\ sync' \in [Procs -> Syncs]
      /\ \A p \in Procs : Named(sync'[p]) /\ ~sync'[p].fresh
  BY <1>2, <1>3
<1>5. /\ secret' \in [entries : [Names -> Entries \cup {None}], epoch : Nat]
      /\ UNCHANGED <<kcp, rollout, loaded>>
  BY <1>1 DEF WriteSecret
<1> QED
  BY <1>4, <1>5 DEF BTypeOK, TypeOK, Named, kcp

\* The deployment keeps the types, and every copy that a sync has read is an old
\* one afterwards, or the contexts of the script are as they were.
LEMMA DeployTypes ==
    ASSUME BTypeOK, Deploy
    PROVE  /\ BTypeOK'
           /\ UNCHANGED carried
           /\ \/ \A p \in Procs : ~sync'[p].fresh
              \/ UNCHANGED <<sync, bootstrap>>
<1>1. /\ script \in Scripts /\ runs \in Nat
      /\ secret.entries \in [Names -> Entries \cup {None}]
  BY DEF BTypeOK, TypeOK
<1>2. NoScript \in Scripts /\ NoEntries \in [Names -> Entries \cup {None}]
  BY DEF NoScript, Scripts, NoEntries
<1>3. CASE ApplyManifest
  <2>1. TypeOK' /\ \A p \in Procs : ~sync'[p].fresh
    BY <1>2, <1>3, WriteTypes DEF ApplyManifest
  <2>2. /\ bootstrap' = 0 /\ script' = [script EXCEPT !.pc = "read"]
        /\ UNCHANGED <<runs, carried, shown>>
    BY <1>3 DEF ApplyManifest, WriteSecret
  <2>3. script' \in Scripts
    BY <1>1, <2>2 DEF Scripts
  <2> QED
    BY <2>1, <2>2, <2>3 DEF BTypeOK
<1>4. CASE LoadExisting
  <2>1. /\ script' = [pc |-> "apply", entries |-> secret.entries]
        /\ UNCHANGED <<vars, bootstrap, carried, shown, runs>>
    BY <1>4 DEF LoadExisting
  <2>2. script' \in Scripts
    BY <1>1, <2>1 DEF Scripts
  <2> QED
    BY <2>1, <2>2 DEF BTypeOK, TypeOK, vars, kcp
<1>5. CASE ApplySecret
  <2>1. script.entries \in [Names -> Entries \cup {None}]
    BY <1>1 DEF Scripts
  <2>2. TypeOK' /\ \A p \in Procs : ~sync'[p].fresh
    BY <1>5, <2>1, WriteTypes DEF ApplySecret
  <2>3. /\ runs' = runs + 1 /\ bootstrap' = runs' /\ script' = NoScript
        /\ UNCHANGED <<carried, shown>>
    BY <1>5 DEF ApplySecret, WriteSecret
  <2> QED
    BY <1>1, <1>2, <2>2, <2>3 DEF BTypeOK
<1>6. CASE ScriptFails
  <2>1. /\ script' = NoScript /\ runs' = runs + 1
        /\ UNCHANGED <<vars, bootstrap, carried, shown>>
    BY <1>6 DEF ScriptFails
  <2> QED
    BY <1>1, <1>2, <2>1 DEF BTypeOK, TypeOK, vars, kcp
<1> QED
  BY <1>3, <1>4, <1>5, <1>6 DEF Deploy

\* The bookkeeping of a sync keeps the types.
LEMMA CarryTypes ==
    ASSUME BTypeOK, NEW p \in Procs, Carry(p)
    PROVE  bootstrap' \in Nat /\ carried' \in [Procs -> Nat]
<1>1. bootstrap \in Nat /\ carried \in [Procs -> Nat] /\ carried[p] \in Nat
  BY DEF BTypeOK
<1>2. /\ carried' \in {[carried EXCEPT ![p] = bootstrap],
                       [carried EXCEPT ![p] = 0], carried}
      /\ bootstrap' \in {carried[p], bootstrap}
  BY DEF Carry
<1> QED
  BY <1>1, <1>2

\* Every step keeps the types.
LEMMA BTypeStep ==
    ASSUME BTypeOK, [BNext]_allVars
    PROVE  BTypeOK'
<1>1. CASE Deploy
  BY <1>1, DeployTypes
<1>2. CASE [Next]_vars /\ UNCHANGED deployment
  <2>1. TypeOK' /\ UNCHANGED <<script, runs>>
    BY <1>2, TypeStep DEF BTypeOK, deployment
  <2>2. ASSUME NEW p \in Procs, Carry(p) PROVE BTypeOK'
    BY <2>1, <2>2, CarryTypes DEF BTypeOK, Carry
  <2>3. CASE LoadKubeconfig
    BY <2>1, <2>3 DEF BTypeOK, LoadKubeconfig
  <2>4. CASE UNCHANGED <<bootstrap, carried, shown>>
    BY <2>1, <2>4 DEF BTypeOK
  <2>5. ~Deploy => \/ LoadKubeconfig
                   \/ \E p \in Procs : Carry(p)
                   \/ UNCHANGED <<bootstrap, carried, shown>>
    BY StepKinds
  <2> QED
    BY <1>1, <2>2, <2>3, <2>4, <2>5
<1> QED
  BY <1>1, <1>2, StepKinds

\* The initial state has the types.
LEMMA BInitTypes == BInit => BTypeOK
<1> SUFFICES ASSUME BInit PROVE BTypeOK
  OBVIOUS
<1>1. TypeOK
  BY InitTypes DEF BInit
<1>2. script \in Scripts
  BY DEF BInit, NoScript, Scripts, NoEntries
<1> QED
  BY <1>1, <1>2 DEF BInit, BTypeOK

\* Type correctness: the script, too, writes entries of the right type.
THEOREM BTypeCorrect == BSpec => []BTypeOK
<1>1. BTypeOK /\ [BNext]_allVars => BTypeOK'
  BY BTypeStep
<1> QED
  BY <1>1, BInitTypes, PTL DEF BSpec

(***************************************************************************)
(* The contexts of the script.                                             *)
(***************************************************************************)

\* The contexts that a sync carries are those of the secret, as long as the
\* version it has read is the present one.
CarryInv == \A p \in Procs : sync[p].fresh => carried[p] = bootstrap

\* How the steps of a sync change what is fresh: reading the secret is the only
\* way to have a present version, and only such a version is updated.
LEMMA FreshStep ==
    ASSUME TypeOK, NEW p \in Procs,
           \/ p = Loop /\ ReconcileHeadlamp
           \/ Step(p) \/ TokensFail(p) \/ Spawn(p) \/ Fail(p)
    PROVE  /\ \A q \in Procs : q # p /\ sync'[q].fresh => sync[q].fresh
           /\ sync'[p].fresh => \/ sync[p].fresh /\ sync'[p].pc # "idle"
                                \/ At(p, "get") /\ sync'[p].pc = "list"
           /\ At(p, "update") /\ sync'[p].pc = "restart" => sync[p].fresh
<1>1. sync \in [Procs -> Syncs] /\ sync[p] \in Syncs
  BY DEF TypeOK
<1>2. ASSUME NEW kind, NEW n, Start(p, kind, n) PROVE At(p, "idle") /\ ~sync'[p].fresh
             /\ \A q \in Procs : q # p => sync'[q] = sync[q]
  <2>1. sync'[p] = [Idle EXCEPT !.pc = "get", !.kind = kind, !.name = n]
    BY <1>1, <1>2 DEF Start
  <2> QED
    BY <1>1, <1>2, <2>1 DEF Start, Idle
<1>3. CASE ReconcileHeadlamp /\ p = Loop
  BY <1>2, <1>3 DEF ReconcileHeadlamp, At
<1>4. CASE Spawn(p)
  BY <1>2, <1>4 DEF Spawn, SyncAfterSetup, SyncAfterDelete, At
<1>5. ASSUME Return(p)
      PROVE  /\ ~sync'[p].fresh /\ sync'[p].pc = "idle"
             /\ \A q \in Procs : q # p => sync'[q] = sync[q]
  BY <1>1, <1>5 DEF Return, Idle
<1>6. CASE Conflict(p) \/ RestartHeadlamp(p) \/ Fail(p)
  BY <1>5, <1>6 DEF Conflict, RestartHeadlamp, Fail
<1>7. CASE GetSecret(p)
  BY <1>1, <1>7 DEF GetSecret, At, Syncs
<1>8. CASE ListConsumerWorkspaces(p)
  BY <1>1, <1>8 DEF ListConsumerWorkspaces, At, Syncs
<1>9. CASE Recheck(p)
  BY <1>1, <1>9 DEF Recheck, Goto, At, Syncs
<1>10. ASSUME NEW n \in Names, ReadToken(p, n) \/ ReadTokenFails(p, n)
       PROVE  /\ sync'[p].fresh = sync[p].fresh /\ sync'[p].pc = "build"
              /\ At(p, "build")
              /\ \A q \in Procs : q # p => sync'[q] = sync[q]
  BY <1>1, <1>10 DEF ReadToken, ReadTokenFails, At, Syncs
<1>11. CASE TokensFail(p) \/ \E n \in Names : ReadToken(p, n)
  BY <1>10, <1>11 DEF TokensFail, At
<1>12. CASE Built(p)
  BY <1>1, <1>12 DEF Built, Goto, At, Syncs
<1>13. CASE UpdateSecret(p)
  <2>1. sync[p].fresh
    BY <1>13 DEF UpdateSecret
  <2>2. CASE sync' = [sync EXCEPT ![p] = Restarting]
    BY <1>1, <2>1, <2>2, RestartingTypes
  <2>3. CASE sync' = [q \in Procs |->
                IF q = p THEN Restarting ELSE [sync[q] EXCEPT !.fresh = FALSE]]
    <3>1. \A q \in Procs : ~sync'[q].fresh
      BY <1>1, <2>3, RestartingTypes DEF Syncs
    <3> QED
      BY <2>1, <3>1
  <2> QED
    BY <1>13, <2>2, <2>3 DEF UpdateSecret
<1> QED
  BY <1>3, <1>4, <1>6, <1>7, <1>8, <1>9, <1>11, <1>12, <1>13 DEF Step

\* A step of a sync leaves the contexts of the script as they are.
LEMMA CarryStep ==
    ASSUME BTypeOK, CarryInv, NEW p \in Procs, Carry(p),
           \/ p = Loop /\ ReconcileHeadlamp
           \/ Step(p) \/ TokensFail(p) \/ Spawn(p) \/ Fail(p)
    PROVE  CarryInv' /\ UNCHANGED bootstrap
<1>1. /\ \A q \in Procs : q # p /\ sync'[q].fresh => sync[q].fresh
      /\ sync'[p].fresh => \/ sync[p].fresh /\ sync'[p].pc # "idle"
                           \/ At(p, "get") /\ sync'[p].pc = "list"
      /\ At(p, "update") /\ sync'[p].pc = "restart" => sync[p].fresh
  BY FreshStep DEF BTypeOK
<1>2. carried \in [Procs -> Nat]
  BY DEF BTypeOK
<1>3. bootstrap' = bootstrap
  BY <1>1 DEF Carry, CarryInv
<1>4. \A q \in Procs : q # p => carried'[q] = carried[q]
  BY <1>2 DEF Carry
<1>5. /\ At(p, "get") /\ sync'[p].pc = "list" => carried'[p] = bootstrap
      /\ sync'[p].pc # "idle" /\ ~(At(p, "get") /\ sync'[p].pc = "list")
            => carried'[p] = carried[p]
  BY <1>2 DEF Carry
<1>6. ASSUME NEW q \in Procs, sync'[q].fresh PROVE carried'[q] = bootstrap
  BY <1>1, <1>4, <1>5, <1>6 DEF CarryInv
<1> QED
  BY <1>3, <1>6 DEF CarryInv

\* CarryInv is inductive, and only the deployment changes the contexts.
LEMMA BootstrapStep ==
    ASSUME BTypeOK, CarryInv, [BNext]_allVars
    PROVE  CarryInv' /\ (bootstrap' # bootstrap => script' # script)
<1>1. CASE Deploy
  <2>1. CarryInv'
    BY <1>1, DeployTypes DEF CarryInv
  <2>2. script \in Scripts
    BY DEF BTypeOK
  <2>3. CASE ApplyManifest
    <3>1. script.pc = "idle" /\ script'.pc = "read"
      BY <2>2, <2>3 DEF ApplyManifest, Scripts
    <3> QED
      BY <2>1, <3>1
  <2>4. CASE ApplySecret
    <3>1. script.pc = "apply" /\ script'.pc = "idle"
      BY <2>4 DEF ApplySecret, NoScript
    <3> QED
      BY <2>1, <3>1
  <2>5. CASE LoadExisting \/ ScriptFails
    BY <2>1, <2>5 DEF LoadExisting, ScriptFails
  <2> QED
    BY <1>1, <2>3, <2>4, <2>5 DEF Deploy
<1>2. CASE LoadKubeconfig
  BY <1>2 DEF LoadKubeconfig, RollOut, CarryInv
<1>3. ASSUME NEW n \in Names, Kcp(n), UNCHANGED <<bootstrap, carried, shown>>
      PROVE  CarryInv' /\ UNCHANGED bootstrap
  <2>1. UNCHANGED sync
    BY <1>3 DEF Kcp, CreateWorkspace, TurnToken, MarkWorkspace, DeleteWorkspace,
                PurgeWorkspace, Changed
  <2> QED
    BY <1>3, <2>1 DEF CarryInv
<1>4. CASE UNCHANGED <<vars, bootstrap, carried, shown>>
  BY <1>4 DEF CarryInv, vars
<1> QED
  BY <1>1, <1>2, <1>3, <1>4, StepKinds, CarryStep

\* However many syncs run beside a deployment, none of them loses the contexts
\* that the bootstrap script has put into the secret or brings back older ones.
THEOREM ContextsKept == BSpec => BootstrapContextsKept
<1>1. BInit => CarryInv
  BY DEF BInit, Init, Idle, CarryInv
<1>2. BTypeOK /\ CarryInv /\ [BNext]_allVars => CarryInv'
  BY BootstrapStep
<1>3. BTypeOK /\ CarryInv /\ [BNext]_allVars
        => [bootstrap' # bootstrap => script' # script]_allVars
  BY BootstrapStep
<1> QED
  BY <1>1, <1>2, <1>3, BTypeCorrect, PTL DEF BSpec, BootstrapContextsKept

=============================================================================
