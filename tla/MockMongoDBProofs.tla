-------------------------- MODULE MockMongoDBProofs --------------------------
(***************************************************************************)
(* Theorems about MockMongoDB, for every value of its constants.            *)
(***************************************************************************)
EXTENDS MockMongoDB, TLAPS

Patch == [phase : {"Running", None}, version : Versions \cup {None},
          observed : (1..MaxGeneration) \cup {None}]

\* client.MergeFrom, field by field.
LEMMA MergeFromFields ==
    ASSUME NEW obj \in MongoDB
    PROVE  /\ MergeFrom(obj) \in Patch
           /\ \A field \in {"phase", "version", "observed"} :
                 MergeFrom(obj)[field] =
                    IF Wanted(obj)[field] = obj.status[field] THEN None
                    ELSE Wanted(obj)[field]
<1>1. DOMAIN NoPatch = {"phase", "version", "observed"}
  BY DEF NoPatch
<1>2. MergeFrom(obj) = [field \in {"phase", "version", "observed"} |->
         IF Wanted(obj)[field] = obj.status[field] THEN None ELSE Wanted(obj)[field]]
  BY <1>1 DEF MergeFrom
<1> DEFINE patch == MergeFrom(obj)
<1>3. \A field \in {"phase", "version", "observed"} :
         patch[field] = IF Wanted(obj)[field] = obj.status[field] THEN None
                        ELSE Wanted(obj)[field]
  BY <1>2
<1>4. /\ Wanted(obj).phase = "Running" /\ Wanted(obj).version \in Versions
      /\ Wanted(obj).observed \in 1..MaxGeneration
  BY DEF Wanted, MongoDB
<1>5. /\ patch.phase \in {"Running", None} /\ patch.version \in Versions \cup {None}
      /\ patch.observed \in (1..MaxGeneration) \cup {None}
  BY <1>3, <1>4
<1>6. patch \in Patch
  BY <1>2, <1>5 DEF Patch
<1> QED
  BY <1>3, <1>6

\* What the API server makes of a patch is a status.
LEMMA MergeTypes ==
    ASSUME NEW status \in Status, NEW patch \in Patch
    PROVE  /\ Merge(status, patch) \in Status
           /\ \A field \in {"phase", "version", "observed"} :
                 Merge(status, patch)[field] =
                    IF patch[field] = None THEN status[field] ELSE patch[field]
<1>1. DOMAIN status = {"phase", "version", "observed"}
  BY DEF Status
<1> DEFINE merged == Merge(status, patch)
<1>2. merged = [field \in {"phase", "version", "observed"} |->
                  IF patch[field] = None THEN status[field] ELSE patch[field]]
  BY <1>1 DEF Merge
<1>3. \A field \in {"phase", "version", "observed"} :
         merged[field] = IF patch[field] = None THEN status[field] ELSE patch[field]
  BY <1>2
<1>4. /\ merged.phase \in {"", "Running"} /\ merged.version \in Versions \cup {None}
      /\ merged.observed \in 0..MaxGeneration
  <2>1. /\ patch.phase \in {"Running", None} /\ patch.version \in Versions \cup {None}
        /\ patch.observed \in (1..MaxGeneration) \cup {None}
    BY DEF Patch
  <2>2. /\ status.phase \in {"", "Running"} /\ status.version \in Versions \cup {None}
        /\ status.observed \in 0..MaxGeneration
    BY DEF Status
  <2>3. merged.phase \in {"", "Running"} /\ merged.version \in Versions \cup {None}
    <3> HIDE DEF merged
    <3> QED
      BY <1>3, <2>1, <2>2
  <2>4. merged.observed \in 0..MaxGeneration
    <3>1. 1..MaxGeneration \subseteq 0..MaxGeneration
      BY ConstantTypes
    <3> HIDE DEF merged
    <3> QED
      BY <1>3, <2>1, <2>2, <3>1
  <2> QED
    BY <2>3, <2>4
<1>5. merged \in Status
  BY <1>2, <1>4 DEF Status
<1> QED
  BY <1>3, <1>5

\* A patch made from an object whose status is not the wanted one never gives
\* the status it was made from, whichever status it meets.
LEMMA PatchTakesEffect ==
    ASSUME NEW obj \in MongoDB, NEW status \in Status, obj.status # Wanted(obj)
    PROVE  Merge(status, MergeFrom(obj)) # obj.status
<1>1. PICK field \in {"phase", "version", "observed"} :
         Wanted(obj)[field] # obj.status[field]
  <2>1. obj.status \in Status
    BY DEF MongoDB
  <2> QED
    BY <2>1 DEF Wanted, Status
<1>2. /\ MergeFrom(obj) \in Patch
      /\ MergeFrom(obj)[field] = Wanted(obj)[field]
  BY <1>1, MergeFromFields
<1>3. Wanted(obj)[field] # None
  BY ConstantTypes DEF Wanted, MongoDB
<1>4. Merge(status, MergeFrom(obj))[field] = Wanted(obj)[field]
  BY <1>2, <1>3, MergeTypes
<1> QED
  BY <1>1, <1>4

\* The initial state has the types of TypeOK.
LEMMA InitTypes == Init => TypeOK
<1>1. Idle \in [pc : {"idle", "patch"},
               patch : [phase : {"Running", None}, version : Versions \cup {None},
                        observed : (1..MaxGeneration) \cup {None}]]
  BY DEF Idle, NoPatch
<1>2. 0 \in 0..MaxUid
  BY ConstantTypes
<1> QED
  BY <1>1, <1>2 DEF Init, TypeOK

\* Every step keeps them.
LEMMA TypeStep ==
    ASSUME TypeOK, [Next]_vars
    PROVE  TypeOK'
<1>0. /\ MaxUid \in Nat /\ MaxGeneration \in Nat \ {0} /\ None \notin MongoDB
  BY ConstantTypes
<1>1. CASE Reconcile
  <2>1. cache # None => MergeFrom(cache) \in Patch
    BY MergeFromFields DEF TypeOK
  <2> DEFINE patch == MergeFrom(cache)
  <2>2. work' = Idle \/ (cache # None /\ work' = [pc |-> "patch", patch |-> patch])
    BY <1>1 DEF Reconcile
  <2> HIDE DEF patch
  <2>3. work' \in [pc : {"idle", "patch"}, patch : Patch]
    BY <2>1, <2>2 DEF Idle, NoPatch, Patch, patch
  <2> QED
    BY <1>1, <2>3 DEF Reconcile, TypeOK, Patch
<1>2. CASE PatchStatus
  <2> DEFINE merged == Merge(mongodb.status, work.patch)
  <2>1. mongodb \in MongoDB /\ work.patch \in Patch
    BY <1>2 DEF PatchStatus, TypeOK, Patch
  <2>2. merged \in Status
    BY <2>1, MergeTypes DEF MongoDB
  <2>3. mongodb' = [mongodb EXCEPT !.status = merged] /\ work' = Idle
    BY <1>2 DEF PatchStatus
  <2> HIDE DEF merged
  <2>4. mongodb' \in MongoDB
    BY <2>1, <2>2, <2>3 DEF MongoDB
  <2> QED
    BY <1>2, <2>3, <2>4 DEF PatchStatus, TypeOK, Idle, NoPatch
<1>3. CASE PatchFails
  BY <1>3 DEF PatchFails, TypeOK, Idle, NoPatch
<1>4. CASE SyncCache
  BY <1>4 DEF SyncCache, TypeOK
<1>5. CASE ChangeDatabase
  BY <1>5 DEF ChangeDatabase, TypeOK
<1>6. CASE ApplyGraph
  <2>1. CASE mongodb' = None /\ UNCHANGED uids
    BY <1>6, <2>1 DEF ApplyGraph, TypeOK
  <2>2. CASE /\ uids < MaxUid /\ uids' = uids + 1
             /\ \E v \in Versions : mongodb' =
                   [uid |-> uids', generation |-> 1, version |-> v, status |-> NoStatus]
    <3>1. uids' \in 1..MaxUid /\ uids' \in 0..MaxUid
      BY <1>0, <2>2 DEF TypeOK
    <3>2. NoStatus \in Status
      BY <1>0 DEF NoStatus, Status
    <3>3. mongodb' \in MongoDB
      BY <1>0, <2>2, <3>1, <3>2 DEF MongoDB
    <3> QED
      BY <1>6, <3>1, <3>3 DEF ApplyGraph, TypeOK
  <2> QED
    BY <1>6, <2>1, <2>2 DEF ApplyGraph
<1>7. CASE EditSpec
  <2>1. PICK v \in Versions :
           mongodb' = [mongodb EXCEPT !.version = v, !.generation = @ + 1]
    BY <1>7 DEF EditSpec
  <2>2. /\ mongodb \in MongoDB /\ mongodb.generation + 1 \in 1..MaxGeneration
    BY <1>0, <1>7 DEF EditSpec, TypeOK, MongoDB
  <2>3. mongodb' \in MongoDB
    BY <2>1, <2>2 DEF MongoDB
  <2> QED
    BY <1>7, <2>3 DEF EditSpec, TypeOK
<1>8. CASE UNCHANGED vars
  BY <1>8 DEF vars, TypeOK
<1> QED
  BY <1>1, <1>2, <1>3, <1>4, <1>5, <1>6, <1>7, <1>8 DEF Next, Step

\* Type correctness: no patch ever puts a status into the API server that is not
\* one, and none carries a field of the status it was made from.
THEOREM TypeCorrect == Spec => []TypeOK
<1>1. Init => TypeOK
  BY InitTypes
<1>2. TypeOK /\ [Next]_vars => TypeOK'
  BY TypeStep
<1> QED
  BY <1>1, <1>2, PTL DEF Spec

(***************************************************************************)
(* No wakeup is lost.                                                      *)
(***************************************************************************)

\* The copy of the informer is never ahead of the API server.
CopyInv ==
    /\ mongodb # None => mongodb.uid = uids
    /\ cache # None => cache.uid <= uids
    /\ cache # None /\ mongodb # None /\ cache.uid = mongodb.uid =>
          cache.generation <= mongodb.generation

\* While no news is queued, the patch under way is made from the present copy.
PatchInv ==
    ~queued /\ work.pc = "patch" => cache # None /\ work.patch = MergeFrom(cache)

\* While nothing is queued or under way, a copy with a status that is not the
\* wanted one is an old copy, and the informer will say so.
IdleInv ==
    ~queued /\ work.pc = "idle" /\ cache # None /\ cache.status # Wanted(cache) =>
        cache # mongodb

DoneInv == TypeOK /\ CopyInv /\ PatchInv /\ IdleInv

\* CopyInv is inductive: uids and generations only grow.
LEMMA CopyStep ==
    ASSUME TypeOK, CopyInv, [Next]_vars
    PROVE  CopyInv'
<1>0. /\ uids \in Nat
      /\ mongodb # None => mongodb \in MongoDB /\ mongodb.generation \in Nat
      /\ cache # None => cache \in MongoDB /\ cache.generation \in Nat /\ cache.uid \in Nat
      /\ None \notin MongoDB
  BY ConstantTypes DEF TypeOK, MongoDB
<1>1. CASE Reconcile \/ PatchFails \/ ChangeDatabase
  BY <1>1 DEF Reconcile, PatchFails, ChangeDatabase, CopyInv
<1>2. CASE PatchStatus
  <2> DEFINE merged == Merge(mongodb.status, work.patch)
  <2>1. /\ mongodb # None /\ mongodb' = [mongodb EXCEPT !.status = merged]
        /\ UNCHANGED <<uids, cache>>
    BY <1>2 DEF PatchStatus
  <2> HIDE DEF merged
  <2>2. mongodb'.uid = mongodb.uid /\ mongodb'.generation = mongodb.generation
    BY <1>0, <2>1 DEF MongoDB
  <2> QED
    BY <2>1, <2>2 DEF CopyInv
<1>3. CASE SyncCache
  BY <1>0, <1>3 DEF SyncCache, CopyInv
<1>4. CASE ApplyGraph
  BY <1>0, <1>4 DEF ApplyGraph, CopyInv
<1>5. CASE EditSpec
  <2>1. PICK v \in Versions :
           mongodb' = [mongodb EXCEPT !.version = v, !.generation = @ + 1]
    BY <1>5 DEF EditSpec
  <2>2. /\ mongodb # None /\ mongodb'.uid = mongodb.uid
        /\ mongodb'.generation = mongodb.generation + 1
        /\ UNCHANGED <<uids, cache>>
    BY <1>0, <1>5, <2>1 DEF EditSpec, MongoDB
  <2> QED
    BY <1>0, <2>2 DEF CopyInv
<1>6. CASE UNCHANGED vars
  BY <1>6 DEF vars, CopyInv
<1> QED
  BY <1>1, <1>2, <1>3, <1>4, <1>5, <1>6 DEF Next, Step

\* PatchInv and IdleInv are inductive with it: a copy is replaced only with its
\* key queued, and a patch that is applied leaves a status other than the one
\* it was made from.
LEMMA DoneStep ==
    ASSUME DoneInv, [Next]_vars
    PROVE  PatchInv' /\ IdleInv'
<1>0. /\ TypeOK /\ CopyInv /\ PatchInv /\ IdleInv
      /\ uids \in Nat /\ queued \in BOOLEAN
      /\ mongodb # None => mongodb \in MongoDB /\ mongodb.generation \in Nat
      /\ cache # None => cache \in MongoDB /\ cache.generation \in Nat /\ cache.uid \in Nat
      /\ None \notin MongoDB
  BY ConstantTypes DEF DoneInv, TypeOK, MongoDB
<1>1. CASE Reconcile
  BY <1>1 DEF Reconcile, Idle, PatchInv, IdleInv
<1>2. CASE PatchStatus
  <2> DEFINE merged == Merge(mongodb.status, work.patch)
  <2>1. /\ mongodb # None /\ mongodb' = [mongodb EXCEPT !.status = merged]
        /\ work.pc = "patch" /\ work'.pc = "idle" /\ UNCHANGED <<cache, queued>>
    BY <1>2 DEF PatchStatus, Idle
  <2>2. ASSUME ~queued, cache # None, cache.status # Wanted(cache)
        PROVE  cache # mongodb'
    <3>1. work.patch = MergeFrom(cache)
      BY <1>0, <2>1, <2>2 DEF PatchInv
    <3>2. mongodb.status \in Status
      BY <1>0, <2>1 DEF MongoDB
    <3>3. merged # cache.status
      BY <1>0, <2>2, <3>1, <3>2, PatchTakesEffect
    <3> HIDE DEF merged
    <3>4. mongodb'.status = merged
      BY <1>0, <2>1 DEF MongoDB
    <3> QED
      BY <3>3, <3>4
  <2>3. Wanted(cache)' = Wanted(cache)
    BY <2>1 DEF Wanted
  <2> QED
    BY <2>1, <2>2, <2>3 DEF PatchInv, IdleInv
<1>3. CASE PatchFails \/ SyncCache
  BY <1>3 DEF PatchFails, SyncCache, PatchInv, IdleInv
<1>4. CASE ChangeDatabase
  BY <1>0, <1>4 DEF ChangeDatabase, PatchInv, IdleInv, MergeFrom, Wanted
<1>5. CASE ApplyGraph
  <2>1. UNCHANGED <<cache, queued, work>>
    BY <1>5 DEF ApplyGraph
  <2>2. cache # None => cache # mongodb'
    BY <1>0, <1>5 DEF ApplyGraph, CopyInv
  <2> QED
    BY <1>0, <2>1, <2>2 DEF PatchInv, IdleInv, MergeFrom, Wanted
<1>6. CASE EditSpec
  <2>1. PICK v \in Versions :
           mongodb' = [mongodb EXCEPT !.version = v, !.generation = @ + 1]
    BY <1>6 DEF EditSpec
  <2>2. /\ mongodb # None /\ mongodb'.uid = mongodb.uid
        /\ mongodb'.generation = mongodb.generation + 1
        /\ UNCHANGED <<cache, queued, work>>
    BY <1>0, <1>6, <2>1 DEF EditSpec, MongoDB
  <2>3. cache # None => cache # mongodb'
    BY <1>0, <2>2 DEF CopyInv
  <2> QED
    BY <1>0, <2>2, <2>3 DEF PatchInv, IdleInv, MergeFrom, Wanted
<1>7. CASE UNCHANGED vars
  BY <1>0, <1>7 DEF vars, PatchInv, IdleInv, MergeFrom, Wanted
<1> QED
  BY <1>1, <1>2, <1>3, <1>4, <1>5, <1>6, <1>7 DEF Next, Step

\* No wakeup is lost: whenever the reconciler has nothing to do, the status says
\* what the spec does, although a patch carries no resource version and only the
\* fields that differ from a copy that may be old.
THEOREM NothingIsLeftUndone == Spec => []NothingLeftUndone
<1>1. Init => DoneInv
  BY InitTypes DEF Init, DoneInv, CopyInv, PatchInv, IdleInv, Idle
<1>2. DoneInv /\ [Next]_vars => DoneInv'
  BY TypeStep, CopyStep, DoneStep DEF DoneInv
<1>3. DoneInv => NothingLeftUndone
  BY DEF DoneInv, IdleInv, NothingLeftUndone
<1> QED
  BY <1>1, <1>2, <1>3, PTL DEF Spec

=============================================================================
