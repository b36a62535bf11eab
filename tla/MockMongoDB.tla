----------------------------- MODULE MockMongoDB -----------------------------
(***************************************************************************)
(* The mock of the MongoDB operator (internal/controller/mck) behind an    *)
(* on-premise Database: kro creates a MongoDB object while the Database is *)
(* on-premise (config/kro/database-rgd.yaml), and MongoDBReconciler writes *)
(* its status.  It reads the object from a cache that lags, and patches    *)
(* the status with the difference to what it has read, by name and without *)
(* a resource version: the patch may meet a newer object, another status,  *)
(* or another object of the name.                                          *)
(***************************************************************************)
EXTENDS Naturals

CONSTANTS
    Versions,       \* spec.version
    MaxUid,         \* bound: incarnations of the MongoDB object
    MaxGeneration,  \* bound: edits of its spec
    None            \* no object, a field the patch leaves out

Status  == [phase : {"", "Running"}, version : Versions \cup {None},
            observed : 0..MaxGeneration]
MongoDB == [uid : 1..MaxUid, generation : 1..MaxGeneration, version : Versions,
            status : Status]

\* None is told apart from every object and from every value of a status field.
ASSUME ConstantTypes ==
    /\ MaxUid \in Nat /\ MaxGeneration \in Nat \ {0}
    /\ None \notin MongoDB /\ None \notin Versions /\ None \notin 0..MaxGeneration
    /\ None \notin {"Running", "on-premise", "cloud"}

VARIABLES
    database,  \* class of the Database, None if there is none
    mongodb,   \* its MongoDB object in the API server
    uids,      \* how often it has been created
    cache,     \* the informer's copy of it
    queued,    \* is its key in the work queue?
    work       \* the reconcile: its next call, and the patch

vars == <<database, mongodb, uids, cache, queued, work>>

NoStatus == [phase |-> "", version |-> None, observed |-> 0]
NoPatch  == [phase |-> None, version |-> None, observed |-> None]
Idle     == [pc |-> "idle", patch |-> NoPatch]

Init ==
    /\ database = None /\ mongodb = None /\ uids = 0 /\ cache = None
    /\ queued = FALSE
    /\ work = Idle

-----------------------------------------------------------------------------
(* MongoDBReconciler.                                                      *)

\* The status Reconcile wants for the object it has read.
Wanted(obj) ==
    [phase |-> "Running", version |-> obj.version, observed |-> obj.generation]

\* Faulty variant of MergeFrom: an object that is Running needs nothing.
MergeFromUnlessRunning(obj) ==
    IF obj.status.phase = "Running" THEN NoPatch ELSE Wanted(obj)

\* Faulty variant of MergeFrom: the two objects are swapped.
MergeFromSwapped(obj) ==
    [field \in DOMAIN NoPatch |->
        IF Wanted(obj)[field] = obj.status[field] THEN None ELSE obj.status[field]]

\* client.MergeFrom: the fields that differ from those of the copy.
MergeFrom(obj) ==
    [field \in DOMAIN NoPatch |->
        IF Wanted(obj)[field] = obj.status[field] THEN None ELSE Wanted(obj)[field]]

\* An object that is not in the cache is no error.
Reconcile ==
    /\ work.pc = "idle" /\ queued
    /\ queued' = FALSE
    /\ work' = IF cache = None THEN Idle
               ELSE [pc |-> "patch", patch |-> MergeFrom(cache)]
    /\ UNCHANGED <<database, mongodb, uids, cache>>

Merge(status, patch) ==
    [field \in DOMAIN status |->
        IF patch[field] = None THEN status[field] ELSE patch[field]]

PatchStatus ==
    /\ work.pc = "patch" /\ mongodb # None
    /\ mongodb' = [mongodb EXCEPT !.status = Merge(@, work.patch)]
    /\ work' = Idle
    /\ UNCHANGED <<database, uids, cache, queued>>

\* Faulty variant of PatchFails: the error is not returned.
PatchFailsSilently ==
    /\ work.pc = "patch"
    /\ work' = Idle
    /\ UNCHANGED <<database, mongodb, uids, cache, queued>>

\* An error, as the object may be gone, puts the key back into the queue; so
\* does a restart of the process.
PatchFails ==
    /\ work.pc = "patch"
    /\ queued' = TRUE
    /\ work' = Idle
    /\ UNCHANGED <<database, mongodb, uids, cache>>

\* A change that reaches the cache queues the key.
SyncCache ==
    /\ cache # mongodb
    /\ cache' = mongodb
    /\ queued' = TRUE
    /\ UNCHANGED <<database, mongodb, uids, work>>

-----------------------------------------------------------------------------
(* The Database, kro, and whoever edits the MongoDB object.                 *)

ChangeDatabase ==
    /\ \E class \in {"on-premise", "cloud", None} \ {database} : database' = class
    /\ UNCHANGED <<mongodb, uids, cache, queued, work>>

\* The object is included when the Database is on-premise, and pruned when not.
ApplyGraph ==
    /\ \/ /\ database = "on-premise" /\ mongodb = None
          /\ uids < MaxUid
          /\ uids' = uids + 1
          /\ \E v \in Versions : mongodb' =
                [uid |-> uids', generation |-> 1, version |-> v, status |-> NoStatus]
       \/ /\ database # "on-premise" /\ mongodb # None
          /\ mongodb' = None
          /\ UNCHANGED uids
    /\ UNCHANGED <<database, cache, queued, work>>

EditSpec ==
    /\ mongodb # None
    /\ mongodb.generation < MaxGeneration
    /\ \E v \in Versions \ {mongodb.version} : mongodb' =
          [mongodb EXCEPT !.version = v, !.generation = @ + 1]
    /\ UNCHANGED <<database, uids, cache, queued, work>>

-----------------------------------------------------------------------------
Step == Reconcile \/ PatchStatus \/ (PatchFails /\ mongodb = None)

Next == Step \/ PatchFails \/ SyncCache \/ ChangeDatabase \/ ApplyGraph \/ EditSpec

\* The queue hands out its key and calls return; errors stop some time, after
\* any number of them, but for an object that is gone; the informer catches up.
Fairness ==
    /\ WF_vars(Step) /\ WF_vars(SyncCache) /\ WF_vars(ApplyGraph)
    /\ <>[][PatchFails => mongodb = None]_vars

Spec == Init /\ [][Next]_vars /\ Fairness

\* The types of the variables; a patch carries what is wanted, never the status
\* that was read.
TypeOK ==
    /\ database \in {"on-premise", "cloud", None}
    /\ mongodb \in MongoDB \cup {None} /\ cache \in MongoDB \cup {None}
    /\ uids \in 0..MaxUid /\ queued \in BOOLEAN
    /\ work \in [pc : {"idle", "patch"},
                 patch : [phase : {"Running", None}, version : Versions \cup {None},
                          observed : (1..MaxGeneration) \cup {None}]]

\* No wakeup is lost: when the reconciler has nothing to do, no key, no call and
\* no news from the informer, the status says what the spec does.  The patch is
\* made from a copy and carries only the fields that differ from it; it may meet
\* another status, a newer spec, or a newer object of the name.
NothingLeftUndone ==
    ~queued /\ work.pc = "idle" /\ cache = mongodb /\ mongodb # None =>
        mongodb.status = Wanted(mongodb)

\* Once nobody edits the object any more its status says what its spec does:
\* running, with the version and the generation of the spec, even if patches
\* made from an older copy, or for a former object of the name, got mixed up
\* in it, field by field.
StatusSettles ==
    \A u \in 1..MaxUid, g \in 1..MaxGeneration :
        <>[](IF mongodb = None THEN FALSE
             ELSE mongodb.uid = u /\ mongodb.generation = g) =>
        <>[](mongodb # None /\ mongodb.status = Wanted(mongodb))

\* A Database that stays on-premise gets its MongoDB, and kro sees it Running,
\* however often it has been of another class before.
OnPremiseComesUp ==
    <>[](database = "on-premise" /\ (mongodb = None => uids < MaxUid)) =>
        <>[](mongodb # None /\ mongodb.status.phase = "Running")

=============================================================================
