------------------------ MODULE HeadlampSyncProofs ------------------------
(***************************************************************************)
(* Theorems about HeadlampSync, for every value of its constants.           *)
(***************************************************************************)
EXTENDS HeadlampSync, TLAPS

(***************************************************************************)
(* Type correctness.                                                       *)
(***************************************************************************)

\* An add or a delete has the name of its workspace.
Named(s) == s.pc # "idle" /\ s.kind # "tick" => s.name \in Names

\* A call that is not running, and an empty kubeconfig, are of their types.
LEMMA IdleTypes == Idle \in Syncs /\ Named(Idle) /\ NoEntries \in [Names -> {None}]
BY DEF Idle, Syncs, Pcs, Kinds, Named, NoEntries

\* A call that has written the secret is of its type too, and has nothing left.
LEMMA RestartingTypes ==
    /\ Restarting \in Syncs /\ Named(Restarting)
    /\ Restarting.pc = "restart" /\ ~Restarting.fresh
BY DEF Restarting, Idle, Syncs, Pcs, Kinds, Named

\* The initial state has the types of TypeOK.
LEMMA InitTypes == Init => TypeOK
<1> SUFFICES ASSUME Init PROVE TypeOK
  OBVIOUS
<1>0. 0 \in 0..MaxUid
  BY ConstantTypes
<1>1. /\ workspaces \in [Names -> Workspace \cup {None}]
      /\ uids \in [Names -> 0..MaxUid]
      /\ epoch \in Nat /\ rollout \in BOOLEAN
      /\ since \in [Names -> Nat]
  BY <1>0 DEF Init
<1>2. /\ secret \in [entries : [Names -> Entries \cup {None}], epoch : Nat]
      /\ loaded \in [Names -> Entries \cup {None}]
  BY IdleTypes DEF Init
<1>3. \A p \in Procs : sync[p] = Idle
  BY DEF Init
<1>4. sync \in [Procs -> Syncs]
  BY IdleTypes DEF Init
<1>5. \A p \in Procs : sync[p].pc # "idle" /\ sync[p].kind # "tick"
                          => sync[p].name \in Names
  BY <1>3 DEF Idle
<1> QED
  BY <1>1, <1>2, <1>4, <1>5 DEF TypeOK

\* A step of one sync, to a progress of the right type.
LEMMA MoveTypes ==
    ASSUME TypeOK, NEW p \in Procs, NEW s \in Syncs, Named(s),
           sync' = [sync EXCEPT ![p] = s],
           UNCHANGED <<kcp, secret, loaded>>, rollout' \in BOOLEAN
    PROVE  TypeOK'
BY DEF TypeOK, Named, kcp

\* The steps of a sync that leave the secret as it is.
LEMMA SyncTypes ==
    ASSUME TypeOK, NEW p \in Procs,
           \/ p = Loop /\ ReconcileHeadlamp
           \/ Spawn(p) \/ TokensFail(p) \/ Fail(p)
           \/ Step(p) /\ ~UpdateSecret(p)
    PROVE  TypeOK'
<1> DEFINE s == sync[p]
<1>1. /\ s \in Syncs /\ Named(s) /\ rollout \in BOOLEAN
      /\ sync \in [Procs -> Syncs]
  BY DEF TypeOK, Named
<1>2. /\ workspaces \in [Names -> Workspace \cup {None}]
      /\ epoch \in Nat
      /\ \A n \in Names : Exists(n) => Current(n) \in Snapshots
  BY DEF TypeOK, Exists, Current, Workspace, Snapshots
<1>3. \A d \in [Names -> Snapshots \cup {None}] : Todo(d) \in SUBSET Names
  BY DEF Todo
<1>4. ASSUME NEW kind \in Kinds, NEW n, kind # "tick" => n \in Names,
             n \in Names \cup {None}, Start(p, kind, n)
      PROVE  TypeOK'
  <2> DEFINE t == [Idle EXCEPT !.pc = "get", !.kind = kind, !.name = n]
  <2>1. t \in Syncs /\ Named(t)
    BY <1>4, IdleTypes DEF Syncs, Pcs, Named
  <2>2. sync' = [sync EXCEPT ![p] = t] /\ UNCHANGED <<kcp, secret, loaded, rollout>>
    BY <1>4 DEF Start
  <2> HIDE DEF t
  <2> QED
    BY <1>1, <2>1, <2>2, MoveTypes
<1>5. CASE ReconcileHeadlamp /\ p = Loop
  BY <1>4, <1>5 DEF ReconcileHeadlamp, Kinds
<1>6. CASE Spawn(p)
  BY <1>4, <1>6 DEF Spawn, SyncAfterSetup, SyncAfterDelete, Kinds
<1>7. ASSUME NEW pc \in Pcs \ {"idle"}, Goto(p, pc), s.pc # "idle",
             UNCHANGED <<kcp, secret, loaded>>, rollout' \in BOOLEAN
      PROVE  TypeOK'
  <2> DEFINE t == [s EXCEPT !.pc = pc]
  <2>1. t \in Syncs /\ Named(t)
    BY <1>1, <1>7 DEF Syncs, Named
  <2>2. sync' = [sync EXCEPT ![p] = t]
    BY <1>7 DEF Goto
  <2> HIDE DEF t
  <2> QED
    BY <1>7, <2>1, <2>2, MoveTypes
<1>8. CASE GetSecret(p)
  <2> DEFINE t == [s EXCEPT !.pc = "list", !.fresh = TRUE]
  <2>1. t \in Syncs /\ Named(t)
    BY <1>1, <1>8 DEF Syncs, Named, Pcs, GetSecret, At
  <2>2. sync' = [sync EXCEPT ![p] = t] /\ UNCHANGED <<kcp, secret, loaded, rollout>>
    BY <1>1, <1>8 DEF GetSecret
  <2> HIDE DEF t
  <2> QED
    BY <1>1, <2>1, <2>2, MoveTypes
<1>9. CASE ListConsumerWorkspaces(p)
  <2> DEFINE live == {n \in Names : IsLive(n)}
             gone == IF s.kind = "delete" THEN {s.name} ELSE {}
             desired == [n \in Names |->
                            IF n \in live \ gone THEN Current(n) ELSE None]
             pc == IF s.kind = "add" THEN "recheck" ELSE "build"
             todo == Todo(desired)
             t == [s EXCEPT !.pc = pc, !.epoch = epoch, !.listed = live,
                            !.desired = desired, !.todo = todo]
  <2>1. /\ live \in SUBSET Names /\ pc \in Pcs \ {"idle"}
        /\ desired \in [Names -> Snapshots \cup {None}]
        /\ todo \in SUBSET Names
    BY <1>2, <1>3 DEF IsLive, Exists, Pcs
  <2>2. sync' = [sync EXCEPT ![p] = t] /\ UNCHANGED <<kcp, secret, loaded, rollout>>
    BY <1>1, <1>9 DEF ListConsumerWorkspaces
  <2> HIDE DEF live, desired, pc, todo
  <2>3. t \in Syncs /\ Named(t)
    BY <1>1, <1>2, <1>9, <2>1 DEF Syncs, Named, ListConsumerWorkspaces, At
  <2> HIDE DEF t
  <2> QED
    BY <1>1, <2>2, <2>3, MoveTypes
<1>10. CASE Recheck(p)
  <2> DEFINE n == s.name
             desired == [s.desired EXCEPT ![n] = Current(n)]
             todo == Todo(desired)
             t == [s EXCEPT !.pc = "build", !.desired = desired, !.todo = todo]
  <2>1. CASE Goto(p, "build")
    BY <1>1, <1>7, <1>10, <2>1 DEF Recheck, At, Pcs
  <2>2. CASE /\ IsLive(n)
             /\ sync' = [sync EXCEPT ![p].pc = "build", ![p].desired = desired,
                                     ![p].todo = todo]
    <3>1. s.desired \in [Names -> Snapshots \cup {None}]
      BY <1>1 DEF Syncs
    <3>2. n \in Names => Current(n) \in Snapshots
      BY <1>2, <2>2 DEF IsLive
    <3>3. desired \in [Names -> Snapshots \cup {None}]
      BY <3>1, <3>2
    <3>4. todo \in SUBSET Names
      BY <1>3, <3>3
    <3> HIDE DEF desired, todo
    <3>5. t \in Syncs /\ Named(t)
      BY <1>1, <1>10, <3>3, <3>4 DEF Syncs, Named, Pcs, Recheck, At
    <3>6. sync' = [sync EXCEPT ![p] = t] /\ UNCHANGED <<kcp, secret, loaded, rollout>>
      BY <1>1, <1>10, <2>2 DEF Recheck
    <3> HIDE DEF t
    <3> QED
      BY <1>1, <3>5, <3>6, MoveTypes
  <2> QED
    BY <1>10, <2>1, <2>2 DEF Recheck
<1>11. ASSUME NEW n \in Names, ReadToken(p, n) PROVE TypeOK'
  <2> DEFINE token == IF Exists(n) /\ workspaces[n].token
                      THEN Token(workspaces[n].uid) ELSE None
             entries == [s.entries EXCEPT ![n] = token]
             t == [s EXCEPT !.todo = @ \ {n}, !.entries = entries]
  <2>1. token \in Entries \cup {None}
    BY <1>2 DEF Exists, Workspace, Entries
  <2>2. sync' = [sync EXCEPT ![p] = t] /\ UNCHANGED <<kcp, secret, loaded, rollout>>
    BY <1>1, <1>11 DEF ReadToken
  <2> HIDE DEF token
  <2>3. entries \in [Names -> Entries \cup {None}]
    BY <1>1, <2>1 DEF Syncs
  <2> HIDE DEF entries
  <2>4. t \in Syncs /\ Named(t)
    BY <1>1, <2>3 DEF Syncs, Named
  <2> HIDE DEF t
  <2> QED
    BY <1>1, <2>2, <2>4, MoveTypes
<1>12. CASE TokensFail(p)
  <2>1. PICK n \in Names : ReadTokenFails(p, n)
    BY <1>12 DEF TokensFail
  <2> DEFINE t == [s EXCEPT !.todo = @ \ {n}]
  <2>2. t \in Syncs /\ Named(t)
    BY <1>1 DEF Syncs, Named
  <2>3. sync' = [sync EXCEPT ![p] = t] /\ UNCHANGED <<kcp, secret, loaded, rollout>>
    BY <1>1, <2>1 DEF ReadTokenFails
  <2> HIDE DEF t
  <2> QED
    BY <1>1, <2>2, <2>3, MoveTypes
<1>13. CASE Built(p)
  BY <1>1, <1>7, <1>13 DEF Built, At, Pcs
<1>14. CASE Conflict(p) \/ RestartHeadlamp(p) \/ Fail(p)
  <2>1. /\ sync' = [sync EXCEPT ![p] = Idle]
        /\ UNCHANGED <<kcp, secret, loaded>> /\ rollout' \in BOOLEAN
    BY <1>1, <1>14 DEF Conflict, RestartHeadlamp, Fail, Return
  <2> QED
    BY <2>1, IdleTypes, MoveTypes
<1> QED
  BY <1>5, <1>6, <1>8, <1>9, <1>10, <1>11, <1>12, <1>13, <1>14 DEF Step

\* The Update, which may make the version that other syncs have read an old one.
LEMMA WrittenTypes ==
    ASSUME TypeOK, NEW p \in Procs
    PROVE  Written(p) \in [Names -> Entries \cup {None}]
<1>1. /\ \A n \in Names : sync[p].entries[n] \in Entries \cup {None}
      /\ \A n \in Names : secret.entries[n] \in Entries \cup {None}
      /\ Admin \in Entries
  BY DEF TypeOK, Syncs, Entries
<1> QED
  BY <1>1 DEF Written

\* An Update writes entries of the right type, and leaves every sync with its own.
LEMMA UpdateTypes ==
    ASSUME TypeOK, NEW p \in Procs, UpdateSecret(p)
    PROVE  TypeOK'
<1>1. /\ sync \in [Procs -> Syncs]
      /\ \A q \in Procs : Named(sync[q])
      /\ sync[p].epoch \in Nat
      /\ sync[p].pc = "update"
  BY DEF TypeOK, Syncs, Named, UpdateSecret, At
<1>2. UNCHANGED <<kcp, rollout, loaded>>
  BY DEF UpdateSecret
<1>3. secret' \in [entries : [Names -> Entries \cup {None}], epoch : Nat]
  <2>1. secret \in [entries : [Names -> Entries \cup {None}], epoch : Nat]
    BY DEF TypeOK
  <2>2. Written(p) \in [Names -> Entries \cup {None}]
    BY WrittenTypes
  <2>3. \/ secret' = secret
        \/ secret' = [entries |-> Written(p), epoch |-> sync[p].epoch]
    BY DEF UpdateSecret
  <2> QED
    BY <1>1, <2>1, <2>2, <2>3
<1>4. /\ sync' \in [Procs -> Syncs]
      /\ \A q \in Procs : Named(sync'[q])
  <2>1. CASE sync' = [sync EXCEPT ![p] = Restarting]
    BY <1>1, <2>1, RestartingTypes
  <2>2. CASE sync' = [q \in Procs |->
                IF q = p THEN Restarting ELSE [sync[q] EXCEPT !.fresh = FALSE]]
    <3> DEFINE t(q) == [sync[q] EXCEPT !.fresh = FALSE]
    <3>1. ASSUME NEW q \in Procs PROVE t(q) \in Syncs /\ Named(t(q))
      BY <1>1 DEF Syncs, Named
    <3>2. sync' = [q \in Procs |-> IF q = p THEN Restarting ELSE t(q)]
      BY <2>2
    <3> HIDE DEF t
    <3> QED
      BY <3>1, <3>2, RestartingTypes
  <2> QED
    BY <2>1, <2>2 DEF UpdateSecret
<1> QED
  BY <1>2, <1>3, <1>4 DEF TypeOK, Named, kcp

\* The steps of kcp and of the deployment controller.
LEMMA EnvironmentTypes ==
    ASSUME TypeOK, RollOut \/ \E n \in Names : Kcp(n)
    PROVE  TypeOK'
<1>1. CASE RollOut
  BY <1>1 DEF RollOut, TypeOK, kcp
<1>2. ASSUME NEW n \in Names, Kcp(n) PROVE TypeOK'
  <2>1. /\ workspaces \in [Names -> Workspace \cup {None}]
        /\ uids \in [Names -> 0..MaxUid] /\ MaxUid \in Nat /\ epoch \in Nat
        /\ since \in [Names -> Nat]
    BY ConstantTypes DEF TypeOK
  <2>2. /\ workspaces' \in [Names -> Workspace \cup {None}]
        /\ uids' \in [Names -> 0..MaxUid]
    <3> DEFINE new == [uid |-> uids[n] + 1, token |-> FALSE, scoped |-> FALSE,
                       terminating |-> FALSE]
               turned == [workspaces[n] EXCEPT !.token = ~@]
               marked == [workspaces[n] EXCEPT !.scoped = TRUE]
               dying == [workspaces[n] EXCEPT !.terminating = TRUE]
    <3>1. /\ uids[n] < MaxUid => new \in Workspace
          /\ Exists(n) => turned \in Workspace /\ marked \in Workspace
                          /\ dying \in Workspace
      <4>1. uids[n] < MaxUid => uids[n] + 1 \in 1..MaxUid
        BY <2>1
      <4>2. uids[n] < MaxUid => new \in Workspace
        BY <4>1 DEF Workspace
      <4>3. Exists(n) => workspaces[n] \in Workspace
        BY <2>1 DEF Exists
      <4>4. Exists(n) => turned \in Workspace /\ marked \in Workspace
                         /\ dying \in Workspace
        BY <4>3 DEF Workspace
      <4> QED
        BY <4>2, <4>4
    <3>2. \/ /\ uids[n] < MaxUid
             /\ workspaces' = [workspaces EXCEPT ![n] = new]
             /\ uids' = [uids EXCEPT ![n] = @ + 1]
          \/ /\ uids' = uids /\ Exists(n)
             /\ \/ workspaces' = [workspaces EXCEPT ![n] = turned]
                \/ workspaces' = [workspaces EXCEPT ![n] = marked]
                \/ workspaces' = [workspaces EXCEPT ![n] = dying]
                \/ workspaces' = [workspaces EXCEPT ![n] = None]
      BY <1>2, <2>1 DEF Kcp, CreateWorkspace, TurnToken, MarkWorkspace,
                  DeleteWorkspace, PurgeWorkspace, Changed, IsLive
    <3> HIDE DEF new, turned, marked, dying
    <3> QED
      BY <2>1, <3>1, <3>2
  <2>3. epoch' \in {epoch, epoch + 1} /\ UNCHANGED <<secret, rollout, loaded, sync>>
    BY <1>2 DEF Kcp, CreateWorkspace, TurnToken, MarkWorkspace, DeleteWorkspace,
                PurgeWorkspace, Changed
  <2>4. \/ since' = since
        \/ since' = [since EXCEPT ![n] = 0]
        \/ since' = [since EXCEPT ![n] = epoch']
    BY <1>2 DEF Kcp, CreateWorkspace, TurnToken, MarkWorkspace, DeleteWorkspace,
                PurgeWorkspace
  <2>5. since' \in [Names -> Nat]
    BY <2>1, <2>3, <2>4
  <2> QED
    BY <2>1, <2>2, <2>3, <2>5 DEF TypeOK
<1> QED
  BY <1>1, <1>2

\* Every step keeps the types.
LEMMA TypeStep ==
    ASSUME TypeOK, [Next]_vars
    PROVE  TypeOK'
<1>1. CASE ReconcileHeadlamp
  BY <1>1, SyncTypes, ConstantTypes
<1>2. ASSUME NEW p \in Procs, Step(p) \/ TokensFail(p) \/ Spawn(p) \/ Fail(p)
      PROVE  TypeOK'
  BY <1>2, SyncTypes, UpdateTypes
<1>3. CASE UNCHANGED vars
  BY <1>3 DEF vars, kcp, TypeOK
<1> QED
  BY <1>1, <1>2, <1>3, EnvironmentTypes DEF Next

\* Type correctness: what a sync has listed, collected and still to read has the
\* type of the secret it writes, in every state.
THEOREM TypeCorrect == Spec => []TypeOK
<1>1. TypeOK /\ [Next]_vars => TypeOK'
  BY TypeStep
<1> QED
  BY <1>1, InitTypes, PTL DEF Spec

(***************************************************************************)
(* The inductive invariant behind NeverFromOlderListing and                 *)
(* TokenContextKept.                                                        *)
(***************************************************************************)

\* A sync that has listed the workspaces and has not written them yet.
Listed(p) == sync[p].pc \in {"recheck", "build", "update"}

\* A sync that could still write has listed after the secret was written.
EpochInv ==
    /\ secret.epoch <= epoch
    /\ \A p \in Procs : Listed(p) =>
          /\ sync[p].epoch <= epoch
          /\ sync[p].fresh => secret.epoch <= sync[p].epoch

Early(p) == sync[p].pc \in {"idle", "get", "list"}

\* A sync collects its entries after the listing.  One that has listed a workspace
\* since it was annotated takes it for annotated and does not prune it, and has no
\* other entry for it than its token, as long as that workspace is live.
KeptInv ==
    \A p \in Procs, n \in Names :
        /\ Early(p) => sync[p].entries[n] = None
        /\ (/\ Listed(p) /\ IsLive(n) /\ workspaces[n].scoped
            /\ sync[p].epoch >= since[n])
           => /\ sync[p].entries[n] \in {None, Token(workspaces[n].uid)}
              /\ sync[p].desired[n] # None => sync[p].desired[n].scoped
              /\ n \in sync[p].listed

IInv == TypeOK /\ EpochInv /\ KeptInv

\* What the steps of a sync, other than the Update, do to its progress: it
\* lists workspaces as they are, and collects tokens of workspaces as they are, if it
\* has found them annotated.
Moved(p) ==
    /\ UNCHANGED <<kcp, secret>>
    /\ \A q \in Procs : q # p => sync'[q] = sync[q]
    /\ \A n \in Names :
          \/ sync'[p].entries[n] \in {sync[p].entries[n], None}
          \/ /\ Listed(p) /\ n \in sync[p].todo /\ Exists(n)
             /\ sync'[p].entries[n] = Token(workspaces[n].uid)
    /\ Listed(p)' => \A n \in sync'[p].todo :
                        \/ Listed(p) /\ n \in sync[p].todo
                        \/ n \in Todo(sync'[p].desired)
    /\ \A n \in Names :
          \/ sync'[p].desired[n] = None
          \/ sync'[p].desired[n] = sync[p].desired[n] /\ (Listed(p)' => Listed(p))
          \/ IsLive(n) /\ sync'[p].desired[n] = Current(n)
    /\ Listed(p)' /\ Listed(p) => /\ sync'[p].epoch = sync[p].epoch
                                  /\ sync'[p].fresh = sync[p].fresh
                                  /\ sync'[p].listed = sync[p].listed
                                  /\ sync'[p].kind = sync[p].kind
                                  /\ sync'[p].name = sync[p].name
                                  /\ \A n \in Names : sync[p].desired[n] # None =>
                                                       sync'[p].desired[n] # None
    /\ Listed(p)' /\ ~Listed(p) => /\ Early(p) /\ sync'[p].entries = sync[p].entries
                                   /\ sync'[p].epoch = epoch
                                   /\ sync'[p].listed = {n \in Names : IsLive(n)}
                                   /\ \A n \in Names : IsLive(n) =>
                                         \/ sync'[p].desired[n] # None
                                         \/ /\ sync'[p].kind = "delete"
                                            /\ sync'[p].name = n
    /\ Early(p)' => \/ sync'[p].entries = NoEntries
                    \/ Early(p) /\ sync'[p].entries = sync[p].entries

\* Every step of syncHeadlamp that does not write the secret is a Moved step.
LEMMA SyncStep ==
    ASSUME TypeOK, NEW p \in Procs,
           \/ p = Loop /\ ReconcileHeadlamp
           \/ Spawn(p) \/ TokensFail(p) \/ Fail(p)
           \/ Step(p) /\ ~UpdateSecret(p)
    PROVE  Moved(p)
<1> DEFINE s == sync[p]
<1>1. /\ s \in Syncs
      /\ sync \in [Procs -> Syncs]
      /\ s.desired \in [Names -> Snapshots \cup {None}]
      /\ s.entries \in [Names -> Entries \cup {None}]
      /\ \A n \in Names : IsLive(n) => Current(n) # None
  <2>1. \A n \in Names : IsLive(n) => Current(n) \in Snapshots
    BY DEF TypeOK, IsLive, Exists, Current, Workspace, Snapshots
  <2> QED
    BY <2>1, ConstantTypes DEF TypeOK, Syncs
<1>2. ASSUME NEW t, sync' = [sync EXCEPT ![p] = t], UNCHANGED <<kcp, secret>>,
             t.pc \notin {"recheck", "build", "update"},
             t.desired = s.desired \/ t.desired = NoEntries,
             (t.entries = s.entries /\ Early(p)) \/ t.entries = NoEntries
      PROVE  Moved(p)
  BY <1>1, <1>2 DEF Moved, Listed, Early, NoEntries
<1>3. ASSUME NEW pc, Goto(p, pc), UNCHANGED <<kcp, secret>>, Listed(p),
             pc \in {"build", "update"}
      PROVE  Moved(p)
  <2> DEFINE t == [s EXCEPT !.pc = pc]
  <2>1. /\ t.desired = s.desired /\ t.entries = s.entries
        /\ t.epoch = s.epoch /\ t.fresh = s.fresh /\ t.listed = s.listed
        /\ t.pc = pc /\ t.kind = s.kind /\ t.name = s.name
        /\ t.todo = s.todo
    BY <1>1 DEF Syncs
  <2>2. sync' = [sync EXCEPT ![p] = t]
    BY <1>3 DEF Goto
  <2> HIDE DEF t
  <2> QED
    BY <1>1, <1>3, <2>1, <2>2 DEF Moved, Listed, Early
<1>4. ASSUME NEW kind, NEW n, Start(p, kind, n)
      PROVE  Moved(p)
  <2> DEFINE t == [Idle EXCEPT !.pc = "get", !.kind = kind, !.name = n]
  <2>1. /\ t.pc = "get"
        /\ t.desired = NoEntries /\ t.entries = NoEntries
    BY DEF Idle, NoEntries
  <2>2. sync' = [sync EXCEPT ![p] = t] /\ UNCHANGED <<kcp, secret>>
    BY <1>4 DEF Start
  <2> HIDE DEF t
  <2> QED
    BY <1>2, <2>1, <2>2
<1>5. CASE (p = Loop /\ ReconcileHeadlamp) \/ Spawn(p)
  BY <1>4, <1>5 DEF ReconcileHeadlamp, Spawn, SyncAfterSetup, SyncAfterDelete
<1>6. CASE GetSecret(p)
  <2> DEFINE t == [s EXCEPT !.pc = "list", !.fresh = TRUE]
  <2>1. t.pc = "list" /\ t.desired = s.desired /\ t.entries = s.entries
    BY <1>1 DEF Syncs
  <2>2. sync' = [sync EXCEPT ![p] = t] /\ UNCHANGED <<kcp, secret>>
    BY <1>1, <1>6 DEF GetSecret
  <2>3. Early(p)
    BY <1>6 DEF GetSecret, At, Early
  <2> HIDE DEF t
  <2> QED
    BY <1>2, <2>1, <2>2, <2>3
<1>7. CASE ListConsumerWorkspaces(p)
  <2> DEFINE live == {n \in Names : IsLive(n)}
             gone == IF s.kind = "delete" THEN {s.name} ELSE {}
             desired == [n \in Names |->
                            IF n \in live \ gone THEN Current(n) ELSE None]
             pc == IF s.kind = "add" THEN "recheck" ELSE "build"
             todo == Todo(desired)
             t == [s EXCEPT !.pc = pc, !.epoch = epoch, !.listed = live,
                            !.desired = desired, !.todo = todo]
  <2>1. /\ \A n \in Names : desired[n] = None \/ (IsLive(n) /\ desired[n] = Current(n))
        /\ \A n \in Names : IsLive(n) => \/ desired[n] # None
                                         \/ s.kind = "delete" /\ s.name = n
    BY <1>1
  <2>2. /\ s.pc = "list" /\ sync' = [sync EXCEPT ![p] = t]
        /\ UNCHANGED <<kcp, secret>>
    BY <1>1, <1>7 DEF ListConsumerWorkspaces, At
  <2>3. pc \in {"recheck", "build"}
    OBVIOUS
  <2>6. todo = Todo(desired)
    OBVIOUS
  <2> HIDE DEF desired, pc, todo, live
  <2>4. /\ t.todo = todo /\ t.epoch = epoch /\ t.listed = live /\ t.pc = pc
        /\ t.desired = desired /\ t.entries = s.entries
        /\ t.kind = s.kind /\ t.name = s.name
    BY <1>1 DEF Syncs
  <2> HIDE DEF t
  <2>5. live = {n \in Names : IsLive(n)}
    BY DEF live
  <2> QED
    BY <1>1, <2>1, <2>2, <2>3, <2>4, <2>5, <2>6 DEF Moved, Listed, Early
<1>8. CASE Recheck(p)
  <2> DEFINE n == s.name
             desired == [s.desired EXCEPT ![n] = Current(n)]
             todo == Todo(desired)
             t == [s EXCEPT !.pc = "build", !.desired = desired, !.todo = todo]
  <2>1. s.pc = "recheck" /\ UNCHANGED <<kcp, secret>>
    BY <1>8 DEF Recheck, At
  <2>2. CASE Goto(p, "build")
    BY <1>3, <2>1, <2>2 DEF Listed
  <2>3. CASE /\ IsLive(n)
             /\ sync' = [sync EXCEPT ![p].pc = "build", ![p].desired = desired,
                                     ![p].todo = todo]
    <3>1. \A m \in Names :
             /\ \/ desired[m] = s.desired[m]
                \/ IsLive(m) /\ desired[m] = Current(m)
             /\ s.desired[m] # None => desired[m] # None
      BY <1>1, <2>3
    <3>2. sync' = [sync EXCEPT ![p] = t]
      BY <1>1, <2>3
    <3>4. todo = Todo(desired)
      OBVIOUS
    <3> HIDE DEF desired, todo
    <3>3. /\ t.todo = todo /\ t.pc = "build" /\ t.desired = desired /\ t.entries = s.entries
          /\ t.epoch = s.epoch /\ t.fresh = s.fresh /\ t.listed = s.listed
          /\ t.kind = s.kind /\ t.name = s.name
      BY <1>1 DEF Syncs
    <3> HIDE DEF t
    <3> QED
      BY <1>1, <2>1, <3>1, <3>2, <3>3, <3>4 DEF Moved, Listed, Early
  <2> QED
    BY <1>8, <2>2, <2>3 DEF Recheck
<1>9. ASSUME NEW n \in Names, ReadToken(p, n) PROVE Moved(p)
  <2> DEFINE token == IF Exists(n) /\ workspaces[n].token
                      THEN Token(workspaces[n].uid) ELSE None
             entries == [s.entries EXCEPT ![n] = token]
             t == [s EXCEPT !.todo = @ \ {n}, !.entries = entries]
  <2>1. \A m \in Names : \/ entries[m] \in {s.entries[m], None}
                         \/ /\ m \in s.todo /\ Exists(m)
                            /\ entries[m] = Token(workspaces[m].uid)
    BY <1>1, <1>9 DEF ReadToken
  <2>2. /\ s.pc = "build" /\ sync' = [sync EXCEPT ![p] = t]
        /\ UNCHANGED <<kcp, secret>>
    BY <1>1, <1>9 DEF ReadToken, At
  <2> HIDE DEF entries
  <2>3. /\ t.pc = s.pc /\ t.desired = s.desired /\ t.entries = entries
        /\ t.epoch = s.epoch /\ t.fresh = s.fresh /\ t.listed = s.listed
        /\ t.kind = s.kind /\ t.name = s.name /\ t.todo = s.todo \ {n}
    BY <1>1 DEF Syncs
  <2> HIDE DEF t
  <2> QED
    BY <1>1, <2>1, <2>2, <2>3 DEF Moved, Listed, Early
<1>10. CASE TokensFail(p)
  <2>1. PICK n \in Names : ReadTokenFails(p, n)
    BY <1>10 DEF TokensFail
  <2> DEFINE t == [s EXCEPT !.todo = @ \ {n}]
  <2>2. /\ t.pc = s.pc /\ t.desired = s.desired /\ t.entries = s.entries
        /\ t.epoch = s.epoch /\ t.fresh = s.fresh /\ t.listed = s.listed
        /\ t.kind = s.kind /\ t.name = s.name /\ t.todo = s.todo \ {n}
    BY <1>1 DEF Syncs
  <2>3. /\ s.pc = "build" /\ sync' = [sync EXCEPT ![p] = t]
        /\ UNCHANGED <<kcp, secret>>
    BY <1>1, <2>1 DEF ReadTokenFails, At
  <2> HIDE DEF t
  <2> QED
    BY <1>1, <2>2, <2>3 DEF Moved, Listed, Early
<1>11. CASE Built(p)
  BY <1>3, <1>11 DEF Built, At, Listed
<1>12. CASE Conflict(p) \/ RestartHeadlamp(p) \/ Fail(p)
  <2>1. sync' = [sync EXCEPT ![p] = Idle] /\ UNCHANGED <<kcp, secret>>
    BY <1>12 DEF Conflict, RestartHeadlamp, Fail, Return
  <2>2. /\ Idle.pc = "idle"
        /\ Idle.desired = NoEntries /\ Idle.entries = NoEntries
    BY DEF Idle, NoEntries
  <2> QED
    BY <1>2, <2>1, <2>2
<1> QED
  BY <1>5, <1>6, <1>7, <1>8, <1>9, <1>10, <1>11, <1>12 DEF Step

\* What an Update changes: the entries, and the version that others have read.
LEMMA UpdateStep ==
    ASSUME TypeOK, NEW p \in Procs, UpdateSecret(p)
    PROVE  /\ UNCHANGED kcp
           /\ sync[p].pc = "update" /\ sync[p].fresh
           /\ sync'[p] = Restarting
           /\ \A q \in Procs : q # p =>
                 /\ sync'[q].pc = sync[q].pc
                 /\ sync'[q].entries = sync[q].entries
                 /\ sync'[q].desired = sync[q].desired
                 /\ sync'[q].epoch = sync[q].epoch
                 /\ sync'[q].listed = sync[q].listed
                 /\ sync'[q].kind = sync[q].kind /\ sync'[q].name = sync[q].name
                 /\ sync'[q].todo = sync[q].todo
           /\ \A q \in Procs :
                 /\ Listed(q)' => Listed(q) /\ q # p
                 /\ Early(q)' => Early(q) /\ q # p
           /\ \/ /\ secret' = secret
                 /\ \A q \in Procs : q # p => sync'[q].fresh = sync[q].fresh
              \/ /\ secret'.entries = Written(p) /\ secret'.epoch = sync[p].epoch
                 /\ \A q \in Procs : ~sync'[q].fresh
<1>1. /\ sync \in [Procs -> Syncs]
      /\ UNCHANGED kcp /\ sync[p].pc = "update" /\ sync[p].fresh
  BY DEF TypeOK, UpdateSecret, At
<1>2. CASE sync' = [sync EXCEPT ![p] = Restarting] /\ secret' = secret
  BY <1>1, <1>2, RestartingTypes DEF Listed, Early
<1>3. CASE /\ secret' = [entries |-> Written(p), epoch |-> sync[p].epoch]
           /\ sync' = [q \in Procs |->
                 IF q = p THEN Restarting ELSE [sync[q] EXCEPT !.fresh = FALSE]]
  <2>1. secret'.entries = Written(p) /\ secret'.epoch = sync[p].epoch
    BY <1>3
  <2> DEFINE t(q) == [sync[q] EXCEPT !.fresh = FALSE]
  <2>2. sync'[p] = Restarting /\ \A q \in Procs : q # p => sync'[q] = t(q)
    BY <1>3
  <2>3. ASSUME NEW q \in Procs
        PROVE  /\ t(q).entries = sync[q].entries /\ t(q).desired = sync[q].desired
               /\ t(q).epoch = sync[q].epoch /\ t(q).listed = sync[q].listed
               /\ t(q).kind = sync[q].kind /\ t(q).name = sync[q].name
               /\ t(q).todo = sync[q].todo
               /\ ~t(q).fresh /\ t(q).pc = sync[q].pc
    <3>1. sync[q] \in Syncs
      BY <1>1
    <3> QED
      BY <3>1 DEF Syncs
  <2> HIDE DEF t
  <2> QED
    BY <1>1, <2>1, <2>2, <2>3, RestartingTypes DEF Listed, Early
<1> QED
  BY <1>2, <1>3 DEF UpdateSecret

\* How the workspaces change: whatever a listing shows of them is a new epoch, and
\* what is live and annotated, or gone, has been so since then.
LEMMA KcpStep ==
    ASSUME TypeOK, NEW m \in Names, Kcp(m)
    PROVE  /\ UNCHANGED <<secret, sync>>
           /\ \/ epoch' = epoch + 1
              \/ /\ epoch' = epoch /\ since' = since
                 /\ \A n \in Names : /\ IsLive(n)' <=> IsLive(n)
                                     /\ Exists(n)' <=> Exists(n)
                                     /\ Current(n)' = Current(n)
           /\ \A n \in Names :
                 /\ since'[n] \in {since[n], 0, epoch'}
                 /\ ~IsLive(n)' => \/ ~IsLive(n) /\ since'[n] = since[n]
                                   \/ since'[n] = epoch' /\ epoch' = epoch + 1
                 /\ IsLive(n)' /\ workspaces'[n].scoped =>
                       \/ /\ IsLive(n) /\ workspaces[n].scoped
                          /\ workspaces'[n].uid = workspaces[n].uid
                          /\ since'[n] = since[n]
                       \/ since'[n] = epoch' /\ epoch' = epoch + 1
<1>1. /\ workspaces \in [Names -> Workspace \cup {None}]
      /\ uids \in [Names -> 0..MaxUid] /\ since \in [Names -> Nat]
      /\ None \notin Workspace
      /\ Exists(m) => workspaces[m] \in Workspace
  BY ConstantTypes DEF TypeOK, Exists
<1>2. UNCHANGED <<secret, sync>> /\ epoch' \in {epoch, epoch + 1}
  BY DEF Kcp, CreateWorkspace, TurnToken, MarkWorkspace, DeleteWorkspace,
         PurgeWorkspace, Changed
<1>3. ASSUME NEW n \in Names, n # m
      PROVE  /\ workspaces'[n] = workspaces[n] /\ since'[n] = since[n]
             /\ IsLive(n)' <=> IsLive(n)
             /\ Exists(n)' <=> Exists(n)
             /\ Current(n)' = Current(n)
  <2>1. workspaces'[n] = workspaces[n] /\ since'[n] = since[n]
    BY <1>1, <1>3 DEF Kcp, CreateWorkspace, TurnToken, MarkWorkspace,
       DeleteWorkspace, PurgeWorkspace, Changed
  <2> QED
    BY <2>1 DEF IsLive, Exists, Current
<1>4. CASE CreateWorkspace(m)
  <2> DEFINE new == [uid |-> uids[m] + 1, token |-> FALSE, scoped |-> FALSE,
                     terminating |-> FALSE]
  <2>1. /\ workspaces'[m] = new /\ epoch' = epoch + 1 /\ since'[m] = 0
    BY <1>1, <1>4 DEF CreateWorkspace, Changed
  <2>2. new # None
    <3>1. uids[m] + 1 \in 1..MaxUid
      BY <1>1, <1>4, ConstantTypes DEF CreateWorkspace
    <3>2. new \in Workspace
      BY <3>1 DEF Workspace
    <3> QED
      BY <1>1, <3>2
  <2>3. ~new.scoped /\ ~new.terminating
    OBVIOUS
  <2> HIDE DEF new
  <2> QED
    BY <1>2, <1>3, <2>1, <2>2, <2>3 DEF IsLive, Exists
<1>5. CASE TurnToken(m)
  <2> DEFINE turned == [workspaces[m] EXCEPT !.token = ~@]
  <2>1. /\ workspaces'[m] = turned /\ epoch' = epoch /\ since' = since
        /\ workspaces[m] \in Workspace
    BY <1>1, <1>5 DEF TurnToken
  <2>2. /\ turned \in Workspace
        /\ turned.uid = workspaces[m].uid /\ turned.scoped = workspaces[m].scoped
        /\ turned.terminating = workspaces[m].terminating
    BY <2>1 DEF Workspace
  <2> HIDE DEF turned
  <2>3. /\ IsLive(m)' <=> IsLive(m)
        /\ Exists(m)' <=> Exists(m)
        /\ Current(m)' = Current(m)
    BY <1>1, <2>1, <2>2 DEF IsLive, Exists, Current
  <2> QED
    BY <1>2, <1>3, <2>1, <2>2, <2>3
<1>6. CASE MarkWorkspace(m)
  <2> DEFINE marked == [workspaces[m] EXCEPT !.scoped = TRUE]
  <2>1. /\ workspaces'[m] = marked /\ epoch' = epoch + 1
        /\ workspaces[m] \in Workspace
        /\ since'[m] = IF IsLive(m) THEN epoch' ELSE since[m]
    BY <1>1, <1>6 DEF MarkWorkspace, Changed
  <2>2. marked \in Workspace /\ marked.terminating = workspaces[m].terminating
    BY <2>1 DEF Workspace
  <2> HIDE DEF marked
  <2>3. IsLive(m)' <=> IsLive(m)
    BY <1>1, <2>1, <2>2 DEF IsLive, Exists
  <2> QED
    BY <1>2, <1>3, <2>1, <2>2, <2>3
<1>7. CASE DeleteWorkspace(m)
  <2>1. epoch' = epoch + 1 /\ since'[m] = epoch'
    BY <1>1, <1>7 DEF DeleteWorkspace, Changed
  <2> QED
    BY <1>2, <1>3, <2>1
<1>8. CASE PurgeWorkspace(m)
  <2>1. /\ epoch' = epoch + 1 /\ since' = since /\ workspaces'[m] = None
        /\ workspaces[m].terminating
    BY <1>1, <1>8 DEF PurgeWorkspace, Changed
  <2>2. ~IsLive(m) /\ ~IsLive(m)'
    BY <2>1 DEF IsLive, Exists
  <2> QED
    BY <1>2, <1>3, <2>1, <2>2
<1> QED
  BY <1>4, <1>5, <1>6, <1>7, <1>8 DEF Kcp

\* Every step is one of these three kinds, or changes none of their state.
LEMMA Steps ==
    ASSUME TypeOK, [Next]_vars
    PROVE  \/ \E p \in Procs : Moved(p)
           \/ \E p \in Procs : UpdateSecret(p)
           \/ \E n \in Names : Kcp(n)
           \/ UNCHANGED <<kcp, secret, sync>>
<1>1. CASE ReconcileHeadlamp
  BY <1>1, SyncStep, ConstantTypes
<1>2. ASSUME NEW p \in Procs, Step(p) \/ TokensFail(p) \/ Spawn(p) \/ Fail(p)
      PROVE  Moved(p) \/ UpdateSecret(p)
  BY <1>2, SyncStep
<1>3. CASE RollOut
  BY <1>3 DEF RollOut
<1>4. CASE UNCHANGED vars
  BY <1>4 DEF vars
<1> QED
  BY <1>1, <1>2, <1>3, <1>4 DEF Next

\* EpochInv is inductive.
LEMMA EpochStep ==
    ASSUME TypeOK, EpochInv, [Next]_vars
    PROVE  EpochInv'
<1>1. /\ epoch \in Nat /\ secret.epoch \in Nat
      /\ \A p \in Procs : sync[p].epoch \in Nat
  BY DEF TypeOK, Syncs
<1>2. ASSUME NEW p \in Procs, Moved(p) PROVE EpochInv'
  BY <1>1, <1>2 DEF Moved, EpochInv, Listed, kcp
<1>3. ASSUME NEW p \in Procs, UpdateSecret(p) PROVE EpochInv'
  BY <1>1, <1>3, UpdateStep DEF EpochInv, Listed, kcp
<1>4. ASSUME NEW n \in Names, Kcp(n) PROVE EpochInv'
  BY <1>1, <1>4, KcpStep DEF EpochInv, Listed
<1>5. CASE UNCHANGED <<kcp, secret, sync>>
  BY <1>5 DEF EpochInv, Listed, kcp
<1> QED
  BY <1>2, <1>3, <1>4, <1>5, Steps

\* Only an Update writes the secret, and what it writes is what has been listed
\* after the listing that the secret was written from.
LEMMA EpochAction ==
    ASSUME TypeOK, EpochInv, [Next]_vars
    PROVE  secret'.epoch >= secret.epoch
<1>1. secret.epoch \in Nat /\ \A p \in Procs : sync[p].epoch \in Nat
  BY DEF TypeOK, Syncs
<1>2. ASSUME NEW p \in Procs, UpdateSecret(p) PROVE secret'.epoch >= secret.epoch
  BY <1>1, <1>2, UpdateStep DEF EpochInv, Listed
<1> QED
  BY <1>1, <1>2, Steps, KcpStep DEF Moved

\* No sync undoes a later one: the entries of the secret are never replaced by
\* those of a sync with an older listing, however many syncs run at once.
THEOREM NewestListingWins == Spec => NeverFromOlderListing
<1>1. Init => TypeOK /\ EpochInv
  BY InitTypes DEF Init, EpochInv, Listed, Idle
<1>2. TypeOK /\ EpochInv /\ [Next]_vars => TypeOK' /\ EpochInv'
  BY TypeStep, EpochStep
<1>3. TypeOK /\ EpochInv /\ [Next]_vars => [secret'.epoch >= secret.epoch]_vars
  BY EpochAction
<1> QED
  BY <1>1, <1>2, <1>3, PTL DEF Spec, NeverFromOlderListing

\* KeptInv is inductive.
LEMMA KeptStep ==
    ASSUME TypeOK, EpochInv, KeptInv, [Next]_vars
    PROVE  KeptInv'
<1>1. /\ epoch \in Nat /\ \A n \in Names : since[n] \in Nat
      /\ \A p \in Procs : sync[p].epoch \in Nat
  BY DEF TypeOK, Syncs
<1>2. ASSUME NEW p \in Procs, Moved(p) PROVE KeptInv'
  <2>1. /\ UNCHANGED <<workspaces, since>>
        /\ \A n \in Names : IsLive(n)' = IsLive(n)
    BY <1>2 DEF Moved, kcp, Exists, IsLive
  <2>2. ASSUME NEW n \in Names, Early(p)'
        PROVE  sync'[p].entries[n] = None
    BY <1>2, <2>2 DEF Moved, KeptInv, NoEntries
  <2>3. ASSUME NEW n \in Names, Listed(p)', IsLive(n), workspaces[n].scoped,
               sync'[p].epoch >= since[n]
        PROVE  /\ sync'[p].entries[n] \in {None, Token(workspaces[n].uid)}
               /\ sync'[p].desired[n] # None => sync'[p].desired[n].scoped
               /\ n \in sync'[p].listed
    <3>1. Current(n).scoped
      BY <2>3 DEF Current
    <3>2. CASE Listed(p)
      <4>1. sync'[p].epoch = sync[p].epoch /\ sync'[p].listed = sync[p].listed
        BY <1>2, <2>3, <3>2 DEF Moved
      <4>2. /\ sync[p].entries[n] \in {None, Token(workspaces[n].uid)}
            /\ sync[p].desired[n] # None => sync[p].desired[n].scoped
            /\ n \in sync[p].listed
        BY <2>3, <3>2, <4>1 DEF KeptInv
      <4> QED
        BY <1>2, <3>1, <4>1, <4>2 DEF Moved
    <3>3. CASE ~Listed(p)
      <4>1. /\ sync'[p].entries[n] = None
            /\ sync'[p].listed = {m \in Names : IsLive(m)}
        BY <1>2, <2>3, <3>3 DEF Moved, KeptInv
      <4>2. sync'[p].desired[n] # None => sync'[p].desired[n].scoped
        BY <1>2, <2>3, <3>1, <3>3 DEF Moved
      <4> QED
        BY <2>3, <4>1, <4>2
    <3> QED
      BY <3>2, <3>3
  <2>4. \A q \in Procs : q # p => sync'[q] = sync[q]
    BY <1>2 DEF Moved
  <2> QED
    BY <2>1, <2>2, <2>3, <2>4 DEF KeptInv, Early, Listed
<1>3. ASSUME NEW p \in Procs, UpdateSecret(p) PROVE KeptInv'
  <2>1. /\ UNCHANGED <<workspaces, since>>
        /\ \A n \in Names : IsLive(n)' = IsLive(n)
    BY <1>3, UpdateStep DEF kcp, Exists, IsLive
  <2>2. \A q \in Procs :
           /\ Listed(q)' => Listed(q) /\ q # p
           /\ Early(q)' => Early(q) /\ q # p
           /\ q # p => /\ sync'[q].entries = sync[q].entries
                       /\ sync'[q].desired = sync[q].desired
                       /\ sync'[q].epoch = sync[q].epoch
                       /\ sync'[q].listed = sync[q].listed
    BY <1>3, UpdateStep
  <2> QED
    BY <2>1, <2>2 DEF KeptInv
<1>4. ASSUME NEW m \in Names, Kcp(m) PROVE KeptInv'
  <2>1. UNCHANGED sync /\ \A p \in Procs : /\ Listed(p)' = Listed(p)
                                           /\ Early(p)' = Early(p)
    BY <1>4, KcpStep DEF Listed, Early
  <2>2. ASSUME NEW p \in Procs, NEW n \in Names, Listed(p), IsLive(n)',
               workspaces'[n].scoped, sync[p].epoch >= since'[n]
        PROVE  /\ IsLive(n) /\ workspaces[n].scoped
               /\ workspaces'[n].uid = workspaces[n].uid /\ since'[n] = since[n]
    <3>1. sync[p].epoch <= epoch
      BY <2>2 DEF EpochInv
    <3>2. ~(since'[n] = epoch' /\ epoch' = epoch + 1)
      BY <1>1, <2>2, <3>1
    <3> QED
      BY <1>4, <2>2, <3>2, KcpStep
  <2> QED
    BY <2>1, <2>2 DEF KeptInv
<1>5. CASE UNCHANGED <<kcp, secret, sync>>
  BY <1>5 DEF KeptInv, Listed, Early, kcp, Exists, IsLive
<1> QED
  BY <1>2, <1>3, <1>4, <1>5, Steps

\* What an Update makes of the token of a workspace that was annotated when the
\* listing behind the secret was taken.
LEMMA KeptAction ==
    ASSUME IInv, [Next]_vars, NEW n \in Names,
           IsLive(n), workspaces[n].scoped, secret.epoch >= since[n],
           secret.entries[n] = Token(workspaces[n].uid)
    PROVE  secret'.entries[n] = secret.entries[n]
<1>1. /\ TypeOK /\ EpochInv /\ KeptInv
      /\ since[n] \in Nat /\ secret.epoch \in Nat
      /\ \A p \in Procs : sync[p].epoch \in Nat
  BY DEF IInv, TypeOK, Syncs
<1>2. ASSUME NEW p \in Procs, UpdateSecret(p)
      PROVE  secret'.entries[n] = secret.entries[n]
  <2>1. Listed(p) /\ sync[p].fresh
    BY <1>1, <1>2, UpdateStep DEF Listed
  <2>2. sync[p].epoch >= since[n]
    BY <1>1, <2>1 DEF EpochInv
  <2>3. /\ sync[p].entries[n] \in {None, Token(workspaces[n].uid)}
        /\ sync[p].desired[n] # None => sync[p].desired[n].scoped
        /\ n \in sync[p].listed
    BY <1>1, <2>1, <2>2 DEF KeptInv
  <2>4. \/ Written(p)[n] = Token(workspaces[n].uid)
        \/ Written(p)[n] = secret.entries[n]
    BY <2>3 DEF Written, Todo
  <2> QED
    BY <1>1, <1>2, <2>4, UpdateStep
<1> QED
  BY <1>1, <1>2, Steps, KcpStep DEF Moved

\* The inductive invariant holds initially ...
LEMMA InitInv == Init => IInv
<1> SUFFICES ASSUME Init PROVE IInv
  OBVIOUS
<1>1. TypeOK /\ EpochInv
  BY InitTypes DEF Init, EpochInv, Listed, Idle
<1>2. \A p \in Procs, n \in Names : sync[p].entries[n] = None /\ ~Listed(p)
  BY DEF Init, Idle, Listed
<1> QED
  BY <1>1, <1>2 DEF IInv, KeptInv

\* ... and every step keeps it.
LEMMA InvStep == IInv /\ [Next]_vars => IInv'
BY TypeStep, EpochStep, KeptStep DEF IInv

\* Once the secret has been written from a listing in which a workspace is
\* annotated, a context with its token stays until that workspace is deleted,
\* however many syncs run, however old their listings are, and whatever earlier
\* workspaces of the name they are about.
THEOREM TokenKept == Spec => TokenContextKept
<1> DEFINE Kept == \A n \in Names :
              /\ IsLive(n) /\ workspaces[n].scoped
              /\ secret.epoch >= since[n]
              /\ secret.entries[n] = Token(workspaces[n].uid)
              => secret'.entries[n] = secret.entries[n]
<1>1. IInv /\ [Next]_vars => [Kept]_vars
  BY KeptAction
<1> QED
  BY <1>1, InitInv, InvStep, PTL DEF Spec, TokenContextKept

(***************************************************************************)
(* The inductive invariant behind NoContextOfTheGone.                       *)
(***************************************************************************)

\* A sync that has listed the workspaces since a deletion neither keeps the
\* entry of the deleted workspace nor builds one for it, whatever it reads later.
UnlistedInv ==
    /\ \A n \in Names : since[n] <= epoch
    /\ \A p \in Procs, n \in Names :
          Listed(p) /\ ~IsLive(n) /\ sync[p].epoch >= since[n] =>
              sync[p].desired[n] = None /\ n \notin sync[p].listed

GoneInv == TypeOK /\ EpochInv /\ UnlistedInv /\ NoContextOfTheGone

\* A step that leaves the workspaces as they are leaves the live ones so.
LEMMA LiveKept ==
    ASSUME UNCHANGED workspaces
    PROVE  \A n \in Names : IsLive(n)' = IsLive(n)
BY DEF IsLive, Exists

\* UnlistedInv is inductive: a deletion is later than every listing so far, and a
\* listing, or a look at one workspace, takes the live ones only.
LEMMA UnlistedStep ==
    ASSUME TypeOK, EpochInv, UnlistedInv, [Next]_vars
    PROVE  UnlistedInv'
<1>1. /\ epoch \in Nat /\ \A n \in Names : since[n] \in Nat
      /\ \A p \in Procs : sync[p].epoch \in Nat
  BY DEF TypeOK, Syncs
<1>2. ASSUME NEW p \in Procs, Moved(p) PROVE UnlistedInv'
  <2>1. UNCHANGED <<epoch, since>> /\ \A n \in Names : IsLive(n)' = IsLive(n)
    BY <1>2, LiveKept DEF Moved, kcp
  <2>2. ASSUME NEW n \in Names, Listed(p)', ~IsLive(n), sync'[p].epoch >= since[n]
        PROVE  sync'[p].desired[n] = None /\ n \notin sync'[p].listed
    <3>1. CASE Listed(p)
      <4>1. sync'[p].epoch = sync[p].epoch /\ sync'[p].listed = sync[p].listed
        BY <1>2, <2>2, <3>1 DEF Moved
      <4>2. sync[p].desired[n] = None /\ n \notin sync[p].listed
        BY <2>2, <3>1, <4>1 DEF UnlistedInv
      <4> QED
        BY <1>2, <2>2, <4>1, <4>2 DEF Moved
    <3>2. CASE ~Listed(p)
      BY <1>2, <2>2, <3>2 DEF Moved
    <3> QED
      BY <3>1, <3>2
  <2>3. \A q \in Procs : q # p => sync'[q] = sync[q]
    BY <1>2 DEF Moved
  <2> QED
    BY <2>1, <2>2, <2>3 DEF UnlistedInv, Listed
<1>3. ASSUME NEW p \in Procs, UpdateSecret(p) PROVE UnlistedInv'
  <2>1. \A n \in Names : IsLive(n)' = IsLive(n)
    BY <1>3, UpdateStep, LiveKept DEF kcp
  <2>2. \A q \in Procs : Listed(q)' =>
           /\ Listed(q) /\ sync'[q].epoch = sync[q].epoch
           /\ sync'[q].desired = sync[q].desired /\ sync'[q].listed = sync[q].listed
    BY <1>3, UpdateStep
  <2>3. UNCHANGED <<epoch, since>>
    BY <1>3, UpdateStep DEF kcp
  <2> QED
    BY <2>1, <2>2, <2>3 DEF UnlistedInv
<1>4. ASSUME NEW m \in Names, Kcp(m) PROVE UnlistedInv'
  <2>1. UNCHANGED sync /\ epoch' \in {epoch, epoch + 1}
    BY <1>4, KcpStep
  <2>2. \A n \in Names : since'[n] <= epoch'
    BY <1>1, <1>4, <2>1, KcpStep DEF UnlistedInv
  <2>3. ASSUME NEW p \in Procs, NEW n \in Names, Listed(p), ~IsLive(n)',
               sync[p].epoch >= since'[n]
        PROVE  sync[p].desired[n] = None /\ n \notin sync[p].listed
    <3>1. sync[p].epoch <= epoch
      BY <2>3 DEF EpochInv
    <3>2. ~IsLive(n) /\ since'[n] = since[n]
      BY <1>1, <1>4, <2>3, <3>1, KcpStep
    <3> QED
      BY <2>3, <3>2 DEF UnlistedInv
  <2> QED
    BY <2>1, <2>2, <2>3 DEF UnlistedInv, Listed
<1>5. CASE UNCHANGED <<kcp, secret, sync>>
  BY <1>5, LiveKept DEF UnlistedInv, Listed, kcp
<1> QED
  BY <1>2, <1>3, <1>4, <1>5, Steps

\* NoContextOfTheGone, from UnlistedInv: what an Update keeps was listed, and
\* what it adds was found live.
LEMMA GoneStep ==
    ASSUME TypeOK, EpochInv, UnlistedInv, NoContextOfTheGone, [Next]_vars
    PROVE  NoContextOfTheGone'
<1>1. /\ epoch \in Nat /\ secret.epoch \in Nat
      /\ \A n \in Names : since[n] \in Nat
  BY DEF TypeOK
<1>2. ASSUME UNCHANGED kcp, UNCHANGED secret PROVE NoContextOfTheGone'
  BY <1>2, LiveKept DEF NoContextOfTheGone, kcp
<1>3. ASSUME NEW p \in Procs, UpdateSecret(p) PROVE NoContextOfTheGone'
  <2>1. UNCHANGED kcp /\ Listed(p)
    BY <1>3, UpdateStep DEF Listed
  <2>2. CASE secret' = secret
    BY <1>2, <2>1, <2>2
  <2>3. CASE secret'.entries = Written(p) /\ secret'.epoch = sync[p].epoch
    <3> SUFFICES ASSUME NEW n \in Names, ~IsLive(n), sync[p].epoch >= since[n]
                 PROVE  Written(p)[n] = None
      BY <2>1, <2>3, LiveKept DEF NoContextOfTheGone, kcp
    <3>1. sync[p].desired[n] = None /\ n \notin sync[p].listed
      BY <2>1 DEF UnlistedInv
    <3> QED
      BY <3>1 DEF Written
  <2> QED
    BY <1>3, <2>2, <2>3, UpdateStep
<1>4. ASSUME NEW m \in Names, Kcp(m) PROVE NoContextOfTheGone'
  <2>1. UNCHANGED secret
    BY <1>4, KcpStep
  <2> SUFFICES ASSUME NEW n \in Names, ~IsLive(n)', secret.epoch >= since'[n]
               PROVE  secret.entries[n] = None
    BY <2>1 DEF NoContextOfTheGone
  <2>2. secret.epoch <= epoch
    BY DEF EpochInv
  <2>3. ~IsLive(n) /\ since'[n] = since[n]
    BY <1>1, <1>4, <2>2, KcpStep
  <2> QED
    BY <2>3 DEF NoContextOfTheGone
<1> QED
  BY <1>2, <1>3, <1>4, Steps DEF Moved

\* A context of a deleted workspace does not outlive the next write: a secret
\* written from a listing that is not older than the deletion has none, however
\* many syncs run, for whatever workspace, and however late they read and write.
THEOREM GoneFromTheSecret == Spec => []NoContextOfTheGone
<1>1. Init => GoneInv
  <2> SUFFICES ASSUME Init PROVE GoneInv
    OBVIOUS
  <2>1. TypeOK /\ EpochInv
    BY InitTypes DEF Init, EpochInv, Listed, Idle
  <2>2. \A p \in Procs : ~Listed(p)
    BY DEF Init, Idle, Listed
  <2>3. \A n \in Names : since[n] <= epoch /\ secret.entries[n] = None
    BY DEF Init, NoEntries
  <2> QED
    BY <2>1, <2>2, <2>3 DEF GoneInv, UnlistedInv, NoContextOfTheGone
<1>2. GoneInv /\ [Next]_vars => GoneInv'
  BY TypeStep, EpochStep, UnlistedStep, GoneStep DEF GoneInv
<1>3. GoneInv => NoContextOfTheGone
  BY DEF GoneInv
<1> QED
  BY <1>1, <1>2, <1>3, PTL DEF Spec

(***************************************************************************)
(* The inductive invariant behind CurrentListingWritten.                    *)
(***************************************************************************)

\* While nothing has changed since its listing, a sync has listed the live
\* workspaces, wants each of them as it is, except for the one it was told is
\* deleted, and has collected the tokens of annotated workspaces only.
CurrentInv ==
    \A p \in Procs, n \in Names :
        Listed(p) /\ sync[p].epoch = epoch =>
            /\ (n \in sync[p].listed) <=> IsLive(n)
            /\ sync[p].desired[n] # None =>
                  IsLive(n) /\ sync[p].desired[n] = Current(n)
            /\ sync[p].desired[n] = None =>
                  ~IsLive(n) \/ (sync[p].kind = "delete" /\ sync[p].name = n)
            /\ n \in sync[p].todo => IsLive(n) /\ workspaces[n].scoped
            /\ sync[p].entries[n] # None =>
                  /\ Exists(n) /\ workspaces[n].scoped
                  /\ sync[p].entries[n] = Token(workspaces[n].uid)

\* CurrentInv is inductive: whatever changes what a listing shows of a workspace
\* makes every listing so far an old one.
LEMMA CurrentStep ==
    ASSUME TypeOK, EpochInv, KeptInv, CurrentInv, [Next]_vars
    PROVE  CurrentInv'
<1>1. epoch \in Nat /\ \A p \in Procs : sync[p].epoch \in Nat
  BY DEF TypeOK, Syncs
<1>2. ASSUME UNCHANGED workspaces
      PROVE  \A n \in Names : /\ IsLive(n)' = IsLive(n) /\ Exists(n)' = Exists(n)
                              /\ Current(n)' = Current(n)
  BY <1>2 DEF IsLive, Exists, Current
<1>3. ASSUME NEW p \in Procs, Moved(p) PROVE CurrentInv'
  <2>1. /\ UNCHANGED <<workspaces, epoch>>
        /\ \A q \in Procs : q # p => sync'[q] = sync[q]
    BY <1>3 DEF Moved, kcp
  <2>2. ASSUME NEW n \in Names, Listed(p)', sync'[p].epoch = epoch
        PROVE  /\ (n \in sync'[p].listed) <=> IsLive(n)
               /\ sync'[p].desired[n] # None =>
                     IsLive(n) /\ sync'[p].desired[n] = Current(n)
               /\ sync'[p].desired[n] = None =>
                     ~IsLive(n) \/ (sync'[p].kind = "delete" /\ sync'[p].name = n)
               /\ n \in sync'[p].todo => IsLive(n) /\ workspaces[n].scoped
               /\ sync'[p].entries[n] # None =>
                     /\ Exists(n) /\ workspaces[n].scoped
                     /\ sync'[p].entries[n] = Token(workspaces[n].uid)
    <3>1. CASE Listed(p)
      <4>1. /\ sync[p].epoch = epoch /\ sync'[p].listed = sync[p].listed
            /\ sync'[p].kind = sync[p].kind /\ sync'[p].name = sync[p].name
            /\ sync[p].desired[n] # None => sync'[p].desired[n] # None
        BY <1>3, <2>2, <3>1 DEF Moved
      <4>2. /\ (n \in sync[p].listed) <=> IsLive(n)
            /\ sync[p].desired[n] # None =>
                  IsLive(n) /\ sync[p].desired[n] = Current(n)
            /\ sync[p].desired[n] = None =>
                  ~IsLive(n) \/ (sync[p].kind = "delete" /\ sync[p].name = n)
            /\ n \in sync[p].todo => IsLive(n) /\ workspaces[n].scoped
            /\ sync[p].entries[n] # None =>
                  /\ Exists(n) /\ workspaces[n].scoped
                  /\ sync[p].entries[n] = Token(workspaces[n].uid)
        BY <3>1, <4>1 DEF CurrentInv
      <4>3. \/ sync'[p].desired[n] = None
            \/ sync'[p].desired[n] = sync[p].desired[n]
            \/ IsLive(n) /\ sync'[p].desired[n] = Current(n)
        BY <1>3 DEF Moved
      <4>4. \/ sync'[p].entries[n] \in {sync[p].entries[n], None}
            \/ /\ n \in sync[p].todo /\ Exists(n)
               /\ sync'[p].entries[n] = Token(workspaces[n].uid)
        BY <1>3 DEF Moved
      <4>5. /\ (n \in sync'[p].listed) <=> IsLive(n)
            /\ sync'[p].desired[n] # None =>
                  IsLive(n) /\ sync'[p].desired[n] = Current(n)
        BY <4>1, <4>2, <4>3
      <4>6. sync'[p].desired[n] = None =>
               ~IsLive(n) \/ (sync'[p].kind = "delete" /\ sync'[p].name = n)
        BY <4>1, <4>2
      <4>7. sync'[p].entries[n] # None =>
               /\ Exists(n) /\ workspaces[n].scoped
               /\ sync'[p].entries[n] = Token(workspaces[n].uid)
        BY <4>2, <4>4
      <4>8. n \in sync'[p].todo => IsLive(n) /\ workspaces[n].scoped
        <5>1. n \in sync'[p].todo =>
                 n \in sync[p].todo \/ n \in Todo(sync'[p].desired)
          BY <1>3, <2>2 DEF Moved
        <5> QED
          BY <4>2, <4>5, <5>1 DEF Todo, Current
      <4> QED
        BY <4>5, <4>6, <4>7, <4>8
    <3>2. CASE ~Listed(p)
      <4>1. /\ Early(p) /\ sync'[p].entries = sync[p].entries
            /\ sync'[p].listed = {m \in Names : IsLive(m)}
            /\ IsLive(n) => \/ sync'[p].desired[n] # None
                            \/ sync'[p].kind = "delete" /\ sync'[p].name = n
        BY <1>3, <2>2, <3>2 DEF Moved
      <4>2. \/ sync'[p].desired[n] = None
            \/ IsLive(n) /\ sync'[p].desired[n] = Current(n)
        BY <1>3, <2>2, <3>2 DEF Moved
      <4>3. sync'[p].entries[n] = None
        BY <4>1 DEF KeptInv
      <4>4. n \in sync'[p].todo => IsLive(n) /\ workspaces[n].scoped
        <5>1. n \in sync'[p].todo => n \in Todo(sync'[p].desired)
          BY <1>3, <2>2, <3>2 DEF Moved
        <5> QED
          BY <4>2, <5>1 DEF Todo, Current
      <4> QED
        BY <4>1, <4>2, <4>3, <4>4
    <3> QED
      BY <3>1, <3>2
  <2>3. ASSUME NEW q \in Procs, q # p
        PROVE  sync'[q] = sync[q] /\ Listed(q)' = Listed(q)
    BY <2>1, <2>3 DEF Listed
  <2> QED
    BY <1>2, <2>1, <2>2, <2>3 DEF CurrentInv
<1>4. ASSUME NEW p \in Procs, UpdateSecret(p) PROVE CurrentInv'
  <2>1. UNCHANGED <<workspaces, epoch>>
    BY <1>4, UpdateStep DEF kcp
  <2>2. \A q \in Procs : Listed(q)' =>
           /\ Listed(q) /\ sync'[q].todo = sync[q].todo
           /\ sync'[q].epoch = sync[q].epoch /\ sync'[q].listed = sync[q].listed
           /\ sync'[q].desired = sync[q].desired /\ sync'[q].entries = sync[q].entries
           /\ sync'[q].kind = sync[q].kind /\ sync'[q].name = sync[q].name
    BY <1>4, UpdateStep
  <2> QED
    BY <1>2, <2>1, <2>2 DEF CurrentInv
<1>5. ASSUME NEW m \in Names, Kcp(m) PROVE CurrentInv'
  <2>1. UNCHANGED sync /\ \A p \in Procs : Listed(p)' = Listed(p)
    BY <1>5, KcpStep DEF Listed
  <2>2. CASE epoch' = epoch + 1
    <3>1. \A p \in Procs : Listed(p)' => Listed(p) /\ sync'[p].epoch # epoch'
      BY <1>1, <2>1, <2>2 DEF EpochInv
    <3> QED
      BY <3>1 DEF CurrentInv
  <2>3. CASE epoch' = epoch
    <3>1. \A n \in Names : /\ IsLive(n)' <=> IsLive(n)
                           /\ Exists(n)' <=> Exists(n)
                           /\ Current(n)' = Current(n)
      BY <1>1, <1>5, <2>3, KcpStep
    <3>2. \A n \in Names : /\ workspaces'[n].uid = workspaces[n].uid
                           /\ workspaces'[n].scoped = workspaces[n].scoped
      <4> SUFFICES ASSUME NEW n \in Names
                   PROVE  /\ workspaces'[n].uid = workspaces[n].uid
                          /\ workspaces'[n].scoped = workspaces[n].scoped
        OBVIOUS
      <4>1. /\ Current(n).uid = workspaces[n].uid
            /\ Current(n).scoped = workspaces[n].scoped
            /\ Current(n)'.uid = workspaces'[n].uid
            /\ Current(n)'.scoped = workspaces'[n].scoped
        BY DEF Current
      <4> QED
        BY <3>1, <4>1
    <3> QED
      BY <2>1, <2>3, <3>1, <3>2 DEF CurrentInv
  <2> QED
    BY <1>5, <2>2, <2>3, KcpStep
<1>6. CASE UNCHANGED <<kcp, secret, sync>>
  <2>1. UNCHANGED <<workspaces, epoch, sync>> /\ \A p \in Procs : Listed(p)' = Listed(p)
    BY <1>6 DEF kcp, Listed
  <2> QED
    BY <1>2, <2>1 DEF CurrentInv
<1> QED
  BY <1>3, <1>4, <1>5, <1>6, Steps

\* What a sync whose listing is still how things are makes of an entry.
LEMMA CurrentAction ==
    ASSUME TypeOK, CurrentInv, [Next]_vars, NEW p \in Procs, NEW n \in Names,
           At(p, "update"), sync'[p].pc = "restart", sync[p].epoch = epoch
    PROVE  \/ secret'.entries[n] = Wanted(n)
           \/ /\ IsLive(n) /\ secret'.entries[n] = secret.entries[n]
              /\ \/ sync[p].kind = "delete" /\ sync[p].name = n
                 \/ workspaces[n].scoped /\ sync[p].entries[n] = None
<1>1. Listed(p) /\ sync \in [Procs -> Syncs]
  BY DEF At, Listed, TypeOK
<1>2. UpdateSecret(p)
  <2>1. sync' # sync
    BY DEF At
  <2>2. ASSUME NEW q \in Procs, UpdateSecret(q) PROVE q = p
    BY <2>2, UpdateStep DEF At
  <2>3. ASSUME NEW q \in Procs, Step(q) \/ TokensFail(q) \/ Spawn(q) \/ Fail(q),
               ~UpdateSecret(q)
        PROVE  FALSE
    <3>1. q = p
      BY <2>3, SyncStep DEF Moved, At
    <3>2. ~At(p, "idle") /\ ~At(p, "get") /\ ~At(p, "list") /\ ~At(p, "recheck")
          /\ ~At(p, "build") /\ ~At(p, "restart")
      BY DEF At
    <3>3. Conflict(p) \/ Fail(p)
      BY <2>3, <3>1, <3>2 DEF Step, TokensFail, Spawn, GetSecret,
         ListConsumerWorkspaces, Recheck, ReadToken, ReadTokenFails, Built,
         RestartHeadlamp, SyncAfterSetup, SyncAfterDelete, Start
    <3>4. sync'[p] = Idle
      BY <1>1, <3>3 DEF Conflict, Fail, Return
    <3> QED
      BY <3>4 DEF Idle
  <2>4. CASE ReconcileHeadlamp
    <3>1. sync[Loop].pc = "idle" /\ Loop \in Procs
      BY <2>4, ConstantTypes DEF ReconcileHeadlamp, Start, At
    <3>2. sync'[p] = sync[p]
      BY <2>4, <3>1, SyncStep DEF Moved, At
    <3> QED
      BY <3>2 DEF At
  <2> QED
    BY <2>1, <2>2, <2>3, <2>4 DEF Next, Kcp, CreateWorkspace, TurnToken,
       MarkWorkspace, DeleteWorkspace, PurgeWorkspace, Changed, RollOut, vars
<1>3. /\ (n \in sync[p].listed) <=> IsLive(n)
      /\ sync[p].desired[n] # None => IsLive(n) /\ sync[p].desired[n] = Current(n)
      /\ sync[p].desired[n] = None =>
            ~IsLive(n) \/ (sync[p].kind = "delete" /\ sync[p].name = n)
      /\ sync[p].entries[n] # None =>
            /\ Exists(n) /\ workspaces[n].scoped
            /\ sync[p].entries[n] = Token(workspaces[n].uid)
  BY <1>1 DEF CurrentInv
<1>4. secret'.entries = Written(p)
  <2>1. CASE Written(p) = secret.entries /\ UNCHANGED secret
    BY <2>1
  <2>2. CASE secret' = [entries |-> Written(p), epoch |-> sync[p].epoch]
    BY <2>2
  <2> QED
    BY <1>2, <2>1, <2>2 DEF UpdateSecret
<1>5. n \in Todo(sync[p].desired) <=>
         sync[p].desired[n] # None /\ sync[p].desired[n].scoped
  BY DEF Todo
<1>6. Current(n).scoped = workspaces[n].scoped
  BY DEF Current
<1>7. CASE sync[p].desired[n] = None
  BY <1>3, <1>4, <1>7 DEF Written, Wanted
<1>8. CASE sync[p].desired[n] # None /\ sync[p].entries[n] # None
  BY <1>3, <1>4, <1>8 DEF Written, Wanted
<1>9. CASE sync[p].desired[n] # None /\ sync[p].entries[n] = None
  BY <1>3, <1>4, <1>5, <1>6, <1>9 DEF Written, Wanted
<1> QED
  BY <1>7, <1>8, <1>9

\* A sync that writes while its listing is still how things are makes every entry
\* what it should be, except those whose token it could not read and, for a
\* deletion, that of a new workspace of the name: these it leaves as they were.
THEOREM CurrentWritten == Spec => CurrentListingWritten
<1> DEFINE AsItShouldBe ==
        \A p \in Procs, n \in Names :
            At(p, "update") /\ sync'[p].pc = "restart" /\ sync[p].epoch = epoch =>
                \/ secret'.entries[n] = Wanted(n)
                \/ /\ IsLive(n) /\ secret'.entries[n] = secret.entries[n]
                   /\ \/ sync[p].kind = "delete" /\ sync[p].name = n
                      \/ workspaces[n].scoped /\ sync[p].entries[n] = None
           Inv == IInv /\ CurrentInv
<1>1. Init => Inv
  <2>1. Init => CurrentInv
    BY DEF Init, Idle, Listed, CurrentInv
  <2> QED
    BY <2>1, InitInv
<1>2. Inv /\ [Next]_vars => Inv'
  BY InvStep, CurrentStep DEF IInv
<1>3. Inv /\ [Next]_vars => [AsItShouldBe]_vars
  BY CurrentAction DEF IInv
<1> QED
  BY <1>1, <1>2, <1>3, PTL DEF Spec, CurrentListingWritten

(***************************************************************************)
(* The workspaces as other parts of the provisioner know them: those of     *)
(* WorkspaceLife, which WorkspaceSetup implements.                          *)
(***************************************************************************)

LifeOf(n) ==
    IF Exists(n)
    THEN [state |-> IF workspaces[n].terminating THEN "terminating" ELSE "live",
          marked |-> workspaces[n].scoped, token |-> workspaces[n].token]
    ELSE [state |-> "absent", marked |-> FALSE, token |-> FALSE]

life == [n \in Names |-> LifeOf(n)]

Life == INSTANCE WorkspaceLife

\* A workspace is the last incarnation of its name.
IncarnationInv == \A n \in Names : workspaces[n] # None => workspaces[n].uid = uids[n]

\* IncarnationInv is inductive.
LEMMA IncarnationStep ==
    ASSUME TypeOK, IncarnationInv, [Next]_vars
    PROVE  IncarnationInv'
<1>1. ASSUME UNCHANGED kcp PROVE IncarnationInv'
  BY <1>1 DEF IncarnationInv, kcp
<1>2. ASSUME NEW m \in Names, Kcp(m) PROVE IncarnationInv'
  <2>1. /\ workspaces \in [Names -> Workspace \cup {None}]
        /\ uids \in [Names -> 0..MaxUid]
        /\ \A n \in Names : n # m => /\ workspaces'[n] = workspaces[n]
                                     /\ uids'[n] = uids[n]
    BY <1>2 DEF TypeOK, Kcp, CreateWorkspace, TurnToken, MarkWorkspace,
       DeleteWorkspace, PurgeWorkspace, Changed
  <2>2. workspaces'[m] # None => workspaces'[m].uid = uids'[m]
    <3>1. CASE CreateWorkspace(m)
      BY <2>1, <3>1 DEF CreateWorkspace, Changed
    <3>2. CASE TurnToken(m) \/ MarkWorkspace(m) \/ DeleteWorkspace(m)
      <4>1. /\ workspaces[m] # None /\ workspaces[m] \in Workspace /\ uids' = uids
            /\ \/ workspaces'[m] = [workspaces[m] EXCEPT !.token = ~@]
               \/ workspaces'[m] = [workspaces[m] EXCEPT !.scoped = TRUE]
               \/ workspaces'[m] = [workspaces[m] EXCEPT !.terminating = TRUE]
        BY <2>1, <3>2 DEF TurnToken, MarkWorkspace, DeleteWorkspace, Changed,
           IsLive, Exists
      <4>2. workspaces'[m].uid = workspaces[m].uid
        BY <4>1 DEF Workspace
      <4> QED
        BY <4>1, <4>2 DEF IncarnationInv
    <3>3. CASE PurgeWorkspace(m)
      BY <2>1, <3>3 DEF PurgeWorkspace, Changed
    <3> QED
      BY <1>2, <3>1, <3>2, <3>3 DEF Kcp
  <2> QED
    BY <2>1, <2>2 DEF IncarnationInv
<1>3. ASSUME NEW p \in Procs, UpdateSecret(p) PROVE IncarnationInv'
  BY <1>1, <1>3, UpdateStep
<1> QED
  BY <1>1, <1>2, <1>3, Steps DEF Moved

\* The bookkeeping of a step of n: the incarnation, the epoch, unless a listing
\* shows no change, and the history.
Recorded(n) ==
    /\ uids' = IF Exists(n) THEN uids ELSE [uids EXCEPT ![n] = @ + 1]
    /\ epoch' = IF LifeOf(n)'.token # LifeOf(n).token /\ Exists(n)'
                THEN epoch ELSE epoch + 1
    /\ since' = IF ~Exists(n) THEN [since EXCEPT ![n] = 0]
                ELSE IF /\ IsLive(n)
                        /\ ~IsLive(n)' \/ LifeOf(n)'.marked # LifeOf(n).marked
                     THEN [since EXCEPT ![n] = epoch'] ELSE since
    /\ UNCHANGED <<secret, rollout, loaded, sync>>

StepOfLife(n) ==
    Life!Create(n) \/ Life!Turn(n) \/ Life!Mark(n) \/ Life!Delete(n) \/ Life!Purge(n)

\* What the steps of WorkspaceLife do to the workspace they are about.
LEMMA LifeSteps ==
    ASSUME TypeOK, NEW n \in Names, life' # life, StepOfLife(n)
    PROVE  LET old == LifeOf(n)
               new == LifeOf(n)'
           IN  /\ \A m \in Names : m # n => LifeOf(m)' = LifeOf(m)
               /\ \/ /\ old.state = "absent" /\ new.state = "live"
                     /\ new.marked = old.marked /\ new.token = old.token
                  \/ /\ old.state # "absent" /\ new.state = old.state
                     /\ new.marked = old.marked /\ new.token = ~old.token
                  \/ /\ old.state # "absent" /\ new.state = old.state
                     /\ ~old.marked /\ new.marked /\ new.token = old.token
                  \/ /\ old.state = "live" /\ new.state = "terminating"
                     /\ new.marked = old.marked /\ new.token = old.token
                  \/ old.state = "terminating" /\ new.state = "absent"
<1>1. PICK state, marked, token :
         LifeOf(n) = [state |-> state, marked |-> marked, token |-> token]
  BY DEF LifeOf
<1>2. marked \in BOOLEAN
  <2>1. LifeOf(n).marked \in BOOLEAN
    BY DEF LifeOf, TypeOK, Workspace, Exists
  <2> QED
    BY <1>1, <2>1
<1>3. life[n] = LifeOf(n)
  BY DEF life
<1>4. \A x : /\ [LifeOf(n) EXCEPT !.state = x]
                   = [state |-> x, marked |-> marked, token |-> token]
             /\ [LifeOf(n) EXCEPT !.marked = x]
                   = [state |-> state, marked |-> x, token |-> token]
             /\ [LifeOf(n) EXCEPT !.token = x]
                   = [state |-> state, marked |-> marked, token |-> x]
  BY <1>1
<1>5. ASSUME NEW l, life' = [life EXCEPT ![n] = l]
      PROVE  /\ \A m \in Names : m # n => LifeOf(m)' = LifeOf(m)
             /\ LifeOf(n)' = l /\ l # LifeOf(n)
  <2>1. \A m \in Names : LifeOf(m)' = IF m = n THEN l ELSE LifeOf(m)
    <3>1. life' = [m \in Names |-> LifeOf(m)']
      BY DEF life
    <3>2. \A m \in Names : LifeOf(m)' = life'[m]
      BY <3>1
    <3>3. \A m \in Names : life'[m] = IF m = n THEN l ELSE LifeOf(m)
      BY <1>5 DEF life
    <3> QED
      BY <3>2, <3>3
  <2>2. l # LifeOf(n)
    <3> SUFFICES ASSUME l = LifeOf(n) PROVE life' = life
      OBVIOUS
    <3> QED
      BY <1>5 DEF life
  <2> QED
    BY <2>1, <2>2
<1>6. LifeOf(n).state = state /\ LifeOf(n).marked = marked /\ LifeOf(n).token = token
  BY <1>1
<1>7. CASE Life!Create(n)
  <2> DEFINE l == [LifeOf(n) EXCEPT !.state = "live"]
  <2>1. life' = [life EXCEPT ![n] = l] /\ life[n].state = "absent"
    BY <1>3, <1>7 DEF Life!Create
  <2>2. l.state = "live" /\ l.marked = marked /\ l.token = token
    BY <1>4
  <2> HIDE DEF l
  <2> QED
    BY <1>3, <1>5, <1>6, <2>1, <2>2
<1>8. CASE Life!Turn(n)
  <2> DEFINE l == [LifeOf(n) EXCEPT !.token = ~token]
  <2>1. life' = [life EXCEPT ![n] = l] /\ life[n].state # "absent"
    BY <1>3, <1>6, <1>8 DEF Life!Turn
  <2>2. l.state = state /\ l.marked = marked /\ l.token = ~token
    BY <1>4
  <2> HIDE DEF l
  <2> QED
    BY <1>3, <1>5, <1>6, <2>1, <2>2
<1>9. CASE Life!Mark(n)
  <2> DEFINE l == [LifeOf(n) EXCEPT !.marked = TRUE]
  <2>1. life' = [life EXCEPT ![n] = l] /\ life[n].state # "absent"
    BY <1>3, <1>9 DEF Life!Mark
  <2>2. l = [state |-> state, marked |-> TRUE, token |-> token]
    BY <1>4
  <2>3. l.state = state /\ l.marked = TRUE /\ l.token = token
    BY <2>2
  <2>4. marked # TRUE
    <3> SUFFICES ASSUME marked = TRUE PROVE FALSE
      OBVIOUS
    <3>1. l = LifeOf(n)
      BY <1>1, <2>2
    <3> HIDE DEF l
    <3> QED
      BY <1>5, <2>1, <3>1
  <2> HIDE DEF l
  <2> QED
    BY <1>2, <1>3, <1>5, <1>6, <2>1, <2>3, <2>4
<1>10. CASE Life!Delete(n)
  <2> DEFINE l == [LifeOf(n) EXCEPT !.state = "terminating"]
  <2>1. life' = [life EXCEPT ![n] = l] /\ life[n].state = "live"
    BY <1>3, <1>10 DEF Life!Delete
  <2>2. l.state = "terminating" /\ l.marked = marked /\ l.token = token
    BY <1>4
  <2> HIDE DEF l
  <2> QED
    BY <1>3, <1>5, <1>6, <2>1, <2>2
<1>11. CASE Life!Purge(n)
  <2>1. life' = [life EXCEPT ![n] = Life!Absent] /\ life[n].state = "terminating"
    BY <1>3, <1>11 DEF Life!Purge
  <2>2. Life!Absent.state = "absent"
    BY DEF Life!Absent
  <2> QED
    BY <1>3, <1>5, <1>6, <2>1, <2>2
<1> QED
  BY <1>7, <1>8, <1>9, <1>10, <1>11 DEF StepOfLife

\* Nothing that WorkspaceLife lets happen to a workspace is left out here: each of
\* its steps, those of the token and those of the mark among them, is one of Kcp,
\* up to the bound on incarnations.  With LifeRefinement of WorkspaceSetupProofs,
\* the steps that stand for the setups and the tenants in this module cover whatever
\* they do, whenever the token comes or goes between two of a sync's reads.
THEOREM EveryStepOfLife ==
    ASSUME TypeOK, TypeOK', IncarnationInv, IncarnationInv', NEW n \in Names,
           StepOfLife(n), life' # life, Recorded(n)
    PROVE  Kcp(n)
<1> DEFINE old == LifeOf(n)
           new == LifeOf(n)'
<1>1. /\ workspaces \in [Names -> Workspace \cup {None}]
      /\ workspaces' \in [Names -> Workspace \cup {None}]
      /\ uids \in [Names -> 0..MaxUid] /\ uids' \in [Names -> 0..MaxUid]
  BY DEF TypeOK
<1>2. \A m \in Names : m # n => workspaces'[m] = workspaces[m]
  <2> SUFFICES ASSUME NEW m \in Names, m # n PROVE workspaces'[m] = workspaces[m]
    OBVIOUS
  <2>1. LifeOf(m)' = LifeOf(m)
    BY LifeSteps
  <2>2. uids'[m] = uids[m]
    BY <1>1 DEF Recorded
  <2>3. CASE ~Exists(m)
    <3>1. LifeOf(m).state = "absent"
      BY <2>3 DEF LifeOf
    <3>2. ~Exists(m)'
      <4> SUFFICES ASSUME Exists(m)' PROVE FALSE
        OBVIOUS
      <4>1. LifeOf(m)'.state \in {"terminating", "live"}
        BY DEF LifeOf
      <4> QED
        BY <2>1, <3>1, <4>1
    <3> QED
      BY <2>3, <3>2 DEF Exists
  <2>4. CASE Exists(m)
    <3>1. LifeOf(m).state \in {"terminating", "live"}
      BY <2>4 DEF LifeOf
    <3>2. Exists(m)'
      <4> SUFFICES ASSUME ~Exists(m)' PROVE FALSE
        OBVIOUS
      <4>1. LifeOf(m)'.state = "absent"
        BY DEF LifeOf
      <4> QED
        BY <2>1, <3>1, <4>1
    <3>3. workspaces[m] \in Workspace /\ workspaces'[m] \in Workspace
      BY <1>1, <2>4, <3>2 DEF Exists
    <3>4. workspaces'[m].uid = workspaces[m].uid
      BY <2>2, <2>4, <3>2 DEF IncarnationInv, Exists
    <3>5. /\ LifeOf(m).marked = workspaces[m].scoped
          /\ LifeOf(m).token = workspaces[m].token
          /\ LifeOf(m)'.marked = workspaces'[m].scoped
          /\ LifeOf(m)'.token = workspaces'[m].token
          /\ LifeOf(m).state = IF workspaces[m].terminating THEN "terminating" ELSE "live"
          /\ LifeOf(m)'.state = IF workspaces'[m].terminating THEN "terminating" ELSE "live"
      BY <2>4, <3>2 DEF LifeOf
    <3> QED
      BY <2>1, <3>3, <3>4, <3>5 DEF Workspace
  <2> QED
    BY <2>3, <2>4
<1>3. workspaces' = [workspaces EXCEPT ![n] = workspaces'[n]]
  BY <1>1, <1>2
<1>4. /\ Exists(n) => /\ workspaces[n] \in Workspace
                      /\ old.marked = workspaces[n].scoped
                      /\ old.token = workspaces[n].token
                      /\ old.state = IF workspaces[n].terminating
                                     THEN "terminating" ELSE "live"
      /\ ~Exists(n) => old.state = "absent" /\ ~old.marked /\ ~old.token
  BY <1>1 DEF LifeOf, Exists
<1>5. /\ Exists(n)' => /\ workspaces'[n] \in Workspace
                       /\ workspaces'[n].uid = uids'[n]
                       /\ new.marked = workspaces'[n].scoped
                       /\ new.token = workspaces'[n].token
                       /\ new.state = IF workspaces'[n].terminating
                                      THEN "terminating" ELSE "live"
      /\ ~Exists(n)' => new.state = "absent" /\ workspaces'[n] = None
  BY <1>1 DEF LifeOf, Exists, IncarnationInv
<1>6. Exists(n) => workspaces[n].uid = uids[n]
  BY DEF Exists, IncarnationInv
<1>7. /\ uids' = IF Exists(n) THEN uids ELSE [uids EXCEPT ![n] = @ + 1]
      /\ epoch' = IF new.token # old.token /\ Exists(n)' THEN epoch ELSE epoch + 1
      /\ since' = IF ~Exists(n) THEN [since EXCEPT ![n] = 0]
                  ELSE IF IsLive(n) /\ (~IsLive(n)' \/ new.marked # old.marked)
                       THEN [since EXCEPT ![n] = epoch'] ELSE since
      /\ UNCHANGED <<secret, rollout, loaded, sync>>
  BY DEF Recorded
<1>8. \/ /\ old.state = "absent" /\ new.state = "live"
         /\ new.marked = old.marked /\ new.token = old.token
      \/ /\ old.state # "absent" /\ new.state = old.state
         /\ new.marked = old.marked /\ new.token = ~old.token
      \/ /\ old.state # "absent" /\ new.state = old.state
         /\ ~old.marked /\ new.marked /\ new.token = old.token
      \/ /\ old.state = "live" /\ new.state = "terminating"
         /\ new.marked = old.marked /\ new.token = old.token
      \/ old.state = "terminating" /\ new.state = "absent"
  BY LifeSteps
<1> HIDE DEF old, new
<1>9. CASE /\ old.state = "absent" /\ new.state = "live"
           /\ new.marked = old.marked /\ new.token = old.token
  <2>1. /\ ~Exists(n) /\ Exists(n)' /\ ~workspaces'[n].scoped
        /\ ~workspaces'[n].token /\ ~workspaces'[n].terminating
    BY <1>4, <1>5, <1>9
  <2>2. uids' = [uids EXCEPT ![n] = @ + 1] /\ uids'[n] = uids[n] + 1
    BY <1>1, <1>7, <2>1
  <2>3. uids[n] < MaxUid
    BY <1>1, <2>2, ConstantTypes
  <2>4. workspaces'[n] = [uid |-> uids[n] + 1, token |-> FALSE, scoped |-> FALSE,
                          terminating |-> FALSE]
    BY <1>5, <2>1, <2>2 DEF Workspace
  <2> QED
    BY <1>3, <1>7, <1>9, <2>1, <2>2, <2>3, <2>4 DEF Kcp, CreateWorkspace, Changed
<1>10. CASE /\ old.state # "absent" /\ new.state = old.state
            /\ new.marked = old.marked /\ new.token = ~old.token
  <2>1. Exists(n) /\ Exists(n)' /\ uids' = uids
    BY <1>4, <1>5, <1>7, <1>10
  <2>2. workspaces'[n] = [workspaces[n] EXCEPT !.token = ~@]
    BY <1>4, <1>5, <1>6, <1>10, <2>1 DEF Workspace
  <2>3. IsLive(n)' <=> IsLive(n)
    BY <1>4, <1>5, <1>10, <2>1 DEF IsLive, Workspace
  <2>4. new.token # old.token
    BY <1>4, <1>10, <2>1 DEF Workspace
  <2> QED
    BY <1>3, <1>7, <1>10, <2>1, <2>2, <2>3, <2>4 DEF Kcp, TurnToken
<1>11. CASE /\ old.state # "absent" /\ new.state = old.state
            /\ ~old.marked /\ new.marked /\ new.token = old.token
  <2>1. Exists(n) /\ Exists(n)' /\ ~workspaces[n].scoped /\ uids' = uids
    BY <1>4, <1>5, <1>7, <1>11
  <2>2. workspaces'[n] = [workspaces[n] EXCEPT !.scoped = TRUE]
    BY <1>4, <1>5, <1>6, <1>11, <2>1 DEF Workspace
  <2>3. IsLive(n)' <=> IsLive(n)
    BY <1>4, <1>5, <1>11, <2>1 DEF IsLive, Workspace
  <2> QED
    BY <1>3, <1>7, <1>11, <2>1, <2>2, <2>3 DEF Kcp, MarkWorkspace, Changed
<1>12. CASE /\ old.state = "live" /\ new.state = "terminating"
            /\ new.marked = old.marked /\ new.token = old.token
  <2>1. /\ Exists(n) /\ Exists(n)' /\ uids' = uids
        /\ ~workspaces[n].terminating /\ workspaces'[n].terminating
    BY <1>4, <1>5, <1>7, <1>12
  <2>2. workspaces'[n] = [workspaces[n] EXCEPT !.terminating = TRUE]
    BY <1>4, <1>5, <1>6, <1>12, <2>1 DEF Workspace
  <2>3. IsLive(n) /\ ~IsLive(n)'
    BY <2>1 DEF IsLive
  <2> QED
    BY <1>3, <1>7, <1>12, <2>1, <2>2, <2>3 DEF Kcp, DeleteWorkspace, Changed
<1>13. CASE old.state = "terminating" /\ new.state = "absent"
  <2>1. /\ Exists(n) /\ workspaces[n].terminating /\ ~Exists(n)'
        /\ workspaces'[n] = None /\ uids' = uids
    BY <1>4, <1>5, <1>7, <1>13
  <2>2. ~IsLive(n)
    BY <2>1 DEF IsLive
  <2> QED
    BY <1>3, <1>7, <2>1, <2>2 DEF Kcp, PurgeWorkspace, Changed
<1> QED
  BY <1>8, <1>9, <1>10, <1>11, <1>12, <1>13

=============================================================================
