-------------------------- MODULE MigrationTrigger --------------------------
(***************************************************************************)
(* The migration trigger controller (pkg/trigger) for ONE resource type:   *)
(* the discovery routine, the migration management routine, and what they  *)
(* share with the rest of the cluster.                                     *)
(*                                                                         *)
(* The trigger keeps a StorageState object per resource, which tells a     *)
(* cluster administrator in which versions persisted instances may still   *)
(* be encoded, and launches a StorageVersionMigration when that list has   *)
(* to shrink.  Resources are processed one after the other and share       *)
(* nothing but the serial loop of Run, so one of them is modelled.         *)
(*                                                                         *)
(* Abstractions.                                                           *)
(*  - data is the set of versions that persisted instances are encoded in. *)
(*  - A storage version stands for its hash.  persistedStorageVersionHashes*)
(*    is the set of its elements: the list [x, x] is never produced, so    *)
(*    "has one element, the current hash" means the same for both.         *)
(*  - since[n] is the set of versions the API server has encoded objects   *)
(*    in since migration n was created.  The migrator (CoreMigrator) makes *)
(*    n "Succeeded" only when every instance is encoded in one of them.    *)
(*  - Time is counted in discovery periods; ages above the staleness limit *)
(*    of two periods are not told apart.  An age is counted from the       *)
(*    update that records it, not from the discovery it belongs to: a      *)
(*    period that ends in between may as well end after.                   *)
(*  - wait.ExponentialBackoff either succeeds or gives up: the attempts    *)
(*    before that leave no trace.  A GET followed by an UPDATE is one step *)
(*    because the UPDATE carries the resourceVersion of the GET.           *)
(*  - The queue holds one item per informer event.  Items of one migration *)
(*    are merged: processing an item reads the migration afresh, so a      *)
(*    second item is only a repetition, which touch provides.              *)
(*  - Everything unusual the environment does is charged to one budget.    *)
(*                                                                         *)
(* A definition X_Bug is X with a bug in it.  No behaviour uses it: it is  *)
(* there to show which property notices the bug.                           *)
(***************************************************************************)
EXTENDS Naturals, FiniteSets

CONSTANTS
  Versions,         \* storage versions of the resource
  MaxMigrations,    \* bound on migration objects that exist at once
  EnvBudget,        \* bound on the unusual events of the environment
  DeletesReliable,  \* TRUE: a DELETE of a migration object never fails
  ChangesObserved,  \* TRUE: a discovery sees every change of the storage version
  CacheTimely,      \* TRUE: the informer is up to date when a discovery begins
  Overlap           \* TRUE: a second replica runs for a while, as in a rolling update

\* types.go: a valid element of persistedStorageVersionHashes, and the value
\* of currentStorageVersionHash in an empty status.
Unknown == "Unknown"
NoHash  == ""

ASSUME VersionsAssumption == Unknown \notin Versions /\ NoHash \notin Versions
ASSUME MaxMigrationsAssumption == MaxMigrations \in Nat
ASSUME EnvBudgetAssumption == EnvBudget \in Nat
ASSUME FaultsAssumption == {DeletesReliable, ChangesObserved, CacheTimely, Overlap} \subseteq BOOLEAN

Names  == 1..MaxMigrations
Status == {"Pending", "Running", "Succeeded", "Failed"}
StaleAge == 3   \* more than 2 * discoveryPeriod

VARIABLES
  \* the API server
  ver,       \* the current storage version of the resource
  data,      \* the versions persisted instances are encoded in
  ss,        \* the StorageState object of the resource
  status,    \* the condition of each migration object, "None" if there is no such object
  since,     \* ghost: the versions used since the migration was created
  \* the trigger controller
  cache,     \* the informer's cache: the last status seen
  queue,     \* the names in the work queue
  pc,        \* where Run is
  tick,      \* ticker.C has a value
  doc,       \* the resource's hash in the discovery document being processed, or NoHash
  todo,      \* the migrations cleanMigrations has still to delete
  \* ghosts: the versions the API server switched to since ...
  unrecorded,  \* ... the discovery that was last recorded in ss
  changed,     \* ... the discovery being processed
  budget

apiVars == <<ver, data, status, since>>
docVars == <<doc, changed>>
vars == <<apiVars, ss, cache, queue, pc, tick, docVars, todo, unrecorded, budget>>

\* A StorageState: currentStorageVersionHash, persistedStorageVersionHashes and the
\* age of lastHeartbeatTime.
StateType == [found : BOOLEAN, cur : Versions \cup {NoHash},
              persisted : SUBSET (Versions \cup {Unknown, NoHash}), age : 0..StaleAge]
NoState    == [found |-> FALSE, cur |-> NoHash, persisted |-> {}, age |-> StaleAge]
EmptyState == [found |-> TRUE, cur |-> NoHash, persisted |-> {}, age |-> StaleAge]

\* The types of the variables; a StorageState that does not exist has no status, and one
\* that records a current hash never has an empty list of persisted ones.
TypeOK ==
  /\ ver \in Versions
  /\ data \in SUBSET Versions
  /\ ss \in StateType
  /\ ss.found \/ ss = NoState
  /\ ss.cur # NoHash => ss.persisted # {}
  /\ status \in [Names -> Status \cup {"None"}]
  /\ since \in [Names -> SUBSET Versions]
  /\ cache \in [Names -> Status \cup {"None"}]
  /\ queue \in SUBSET Names
  /\ pc \in {"discover", "process", "deleteState", "list", "clean", "update", "mark", "idle"}
  /\ tick \in BOOLEAN
  /\ doc \in Versions \cup {NoHash}
  /\ todo \in SUBSET Names
  /\ unrecorded \in SUBSET Versions
  /\ changed \in SUBSET Versions
  /\ budget \in 0..EnvBudget

Init ==
  /\ ver \in Versions /\ data \in SUBSET Versions
  /\ ss = NoState
  /\ status = [n \in Names |-> "None"]
  /\ since = [n \in Names |-> {}]
  /\ cache = [n \in Names |-> "None"]
  /\ queue = {}
  /\ pc = "discover" /\ tick = FALSE
  /\ doc = NoHash /\ todo = {}
  /\ unrecorded = {} /\ changed = {}
  /\ budget = EnvBudget

-----------------------------------------------------------------------------
(***************************************************************************)
(* Helpers.                                                                *)
(***************************************************************************)
Charge == budget > 0 /\ budget' = budget - 1

Live   == {n \in Names : status[n] # "None"}
Cached == {n \in Names : cache[n] # "None"}

Synced == cache = status

\* What the trigger may rely on: the life of a migration object.
L == INSTANCE MigrationLifecycle

\* The API server creates or deletes a migration object.  generateName makes
\* a fresh name: the least one that neither the server nor the cache knows.
Free == {n \in Names : status[n] = "None" /\ cache[n] = "None"}
IsFreshName(n) == n \in Free /\ \A m \in Free : n <= m
CreateMigration ==
  /\ \E n \in Names :
       /\ IsFreshName(n)
       /\ L!Create(n)
       /\ since' = [since EXCEPT ![n] = {ver}]
  /\ UNCHANGED <<ver, data>>
DeleteMigration(n) ==
  /\ L!Delete(n)
  /\ since' = [since EXCEPT ![n] = {}]
  /\ UNCHANGED <<ver, data>>

\* The typed client of StorageStates.  POST leaves the status empty.
CreateState    == ~ss.found /\ ss' = EmptyState
DeleteState    == ss.found /\ ss' = NoState
UpdateState(s) == ss.found /\ ss' = s

\* hasPendingOrRunningMigration, from the cache.
hasPendingOrRunningMigration == \E n \in Names : cache[n] \in {"Pending", "Running"}

isMigrated == ss.persisted = {ss.cur}

-----------------------------------------------------------------------------
(***************************************************************************)
(* The discovery routine: processDiscovery and processDiscoveryResource.   *)
(***************************************************************************)
\* A discovery begins: on start, or when the ticker fires.
Discovering == pc = "discover" \/ (pc = "idle" /\ tick)

\* The discovery document holds the resource.
processDiscovery ==
  /\ Discovering
  /\ CacheTimely => Synced
  /\ doc' = ver
  /\ tick' = FALSE
  /\ pc' = "process"
  /\ UNCHANGED <<apiVars, ss, cache, queue, changed, todo, unrecorded, budget>>

\* Discovery fails, or fails for the resource's group: nothing is processed.
processDiscoveryFails ==
  /\ Discovering
  /\ Charge
  /\ tick' = FALSE
  /\ pc' = "idle"
  /\ UNCHANGED <<apiVars, ss, cache, queue, docVars, todo, unrecorded>>

\* The next discovery document will be a new one.
EndProcessing == pc' = "idle" /\ doc' = NoHash /\ changed' = {}

staleStorageState == ss.age = StaleAge

relaunch_OnlyOnChange == ~ss.found \/ staleStorageState \/ ss.cur # doc
relaunch ==
  \/ ~ss.found \/ staleStorageState
  \/ ss.cur # doc
  \/ ~isMigrated /\ ~hasPendingOrRunningMigration

\* The GET of the StorageState and the decision what to do.
processDiscoveryResource ==
  /\ pc = "process"
  /\ \/ /\ pc' = IF ss.found /\ staleStorageState THEN "deleteState"
                 ELSE IF relaunch THEN "list"
                 ELSE "update"
        /\ UNCHANGED <<docVars, budget>>
     \/ Charge /\ EndProcessing   \* the GET fails
  /\ UNCHANGED <<apiVars, ss, cache, queue, tick, todo, unrecorded>>

\* A stale StorageState is deleted; an error ends the processing, NotFound
\* and the error of a DELETE that took effect included.
deleteState ==
  /\ pc = "deleteState"
  /\ \/ DeleteState /\ pc' = "list" /\ UNCHANGED <<docVars, budget>>
     \/ ~ss.found /\ EndProcessing /\ UNCHANGED <<ss, budget>>
     \/ Charge /\ EndProcessing /\ (DeleteState \/ UNCHANGED ss)
  /\ UNCHANGED <<apiVars, cache, queue, tick, todo, unrecorded>>

listMigrations_OnlyUnfinished ==
  /\ pc = "list"
  /\ todo' = {n \in Names : cache[n] \in {"Pending", "Running"}}
  /\ pc' = "clean"
  /\ UNCHANGED <<apiVars, ss, cache, queue, tick, docVars, unrecorded, budget>>

\* cleanMigrations finds the migrations of the resource in the cache ...
listMigrations ==
  /\ pc = "list"
  /\ todo' = Cached
  /\ pc' = "clean"
  /\ UNCHANGED <<apiVars, ss, cache, queue, tick, docVars, unrecorded, budget>>

\* ... and deletes them one by one.  Any error, NotFound included, ends
\* relaunchMigration, and processDiscoveryResource goes on to the update.
cleanMigrations(n) ==
  /\ pc = "clean" /\ n \in todo
  /\ \/ /\ n \in Live
        /\ DeleteMigration(n)
        /\ todo' = todo \ {n}
        /\ UNCHANGED <<pc, budget>>
     \/ /\ n \notin Live
        /\ todo' = {} /\ pc' = "update"
        /\ UNCHANGED <<apiVars, budget>>
     \/ /\ ~DeletesReliable /\ Charge
        /\ todo' = {} /\ pc' = "update"
        /\ UNCHANGED apiVars
  /\ UNCHANGED <<ss, cache, queue, tick, docVars, unrecorded>>

\* The CREATE may fail, or take effect and be answered with an error; an error
\* is only logged.
launchMigration ==
  /\ pc = "clean" /\ todo = {}
  /\ \/ CreateMigration /\ UNCHANGED budget
     \/ Charge /\ UNCHANGED apiVars
  /\ pc' = "update"
  /\ UNCHANGED <<ss, cache, queue, tick, docVars, todo, unrecorded>>

Recorded_NoDefault(state, hash) ==
  [found     |-> TRUE,
   cur       |-> hash,
   persisted |-> IF state.cur = hash \/ state.persisted = {} THEN state.persisted
                 ELSE state.persisted \cup {hash},
   age       |-> 0]

\* The status updateStorageState writes.
Recorded(state, hash) ==
  [found     |-> TRUE,
   cur       |-> hash,
   persisted |-> IF state.cur = hash THEN state.persisted
                 ELSE IF state.persisted = {} THEN {Unknown}
                 ELSE state.persisted \cup {hash},
   age       |-> 0]

\* updateStorageState: creates the StorageState if there is none, which
\* leaves its status empty, then writes the status; or gives up.
updateStorageState ==
  /\ pc = "update"
  /\ \/ CreateState /\ UNCHANGED <<pc, docVars, unrecorded, budget>>
     \/ UpdateState(Recorded(ss, doc)) /\ unrecorded' = changed /\ EndProcessing /\ UNCHANGED budget
     \/ Charge /\ EndProcessing /\ UNCHANGED <<ss, unrecorded>>
  /\ UNCHANGED <<apiVars, cache, queue, tick, todo>>

-----------------------------------------------------------------------------
(***************************************************************************)
(* The migration management routine: processQueue and processMigration.    *)
(***************************************************************************)
\* Run receives an item and reads the migration.  If the GET fails the item is
\* lost: AddRateLimited does not bring back an item whose Done is deferred to
\* the end of Run.
processQueue(n) ==
  /\ pc = "idle" /\ n \in queue
  /\ queue' = queue \ {n}
  /\ \/ pc' = (IF status[n] = "Succeeded" THEN "mark" ELSE "idle") /\ UNCHANGED budget
     \/ Charge /\ UNCHANGED pc
  /\ UNCHANGED <<apiVars, ss, cache, tick, docVars, todo, unrecorded>>

Marked == [ss EXCEPT !.persisted = {ss.cur}]

\* markStorageStateSucceeded: nothing is done about a missing StorageState.
\* If the backoff is exhausted the item is lost as well.
markStorageStateSucceeded ==
  /\ pc = "mark"
  /\ \/ UpdateState(Marked) /\ UNCHANGED budget
     \/ ~ss.found /\ UNCHANGED <<ss, budget>>
     \/ Charge /\ UNCHANGED ss
  /\ pc' = "idle"
  /\ UNCHANGED <<apiVars, cache, queue, tick, docVars, todo, unrecorded>>

TriggerStep ==
  \/ processDiscovery \/ processDiscoveryFails \/ processDiscoveryResource
  \/ deleteState \/ listMigrations \/ (\E n \in Names : cleanMigrations(n))
  \/ launchMigration \/ updateStorageState
  \/ (\E n \in Names : processQueue(n)) \/ markStorageStateSucceeded

-----------------------------------------------------------------------------
(***************************************************************************)
(* A second replica.  It does all of a discovery, or processes a whole     *)
(* item, between two steps of the first one.                               *)
(***************************************************************************)
otherDiscovers ==
  /\ Overlap
  /\ Charge
  /\ LET state == IF staleStorageState THEN NoState ELSE ss
     IN /\ ss' = Recorded(state, ver)
        /\ IF \/ state.cur # ver
              \/ ~isMigrated /\ \A n \in Names : status[n] \notin {"Pending", "Running"}
           THEN \E n \in Names :
                  /\ IsFreshName(n)
                  /\ status' = [k \in Names |-> IF k = n THEN "Pending" ELSE "None"]
                  /\ since' = [k \in Names |-> IF k = n THEN {ver} ELSE {}]
           ELSE UNCHANGED <<status, since>>
  /\ unrecorded' = {}
  /\ UNCHANGED <<ver, data, cache, queue, pc, tick, docVars, todo>>

otherMarks(n) ==
  /\ Overlap
  /\ Charge
  /\ status[n] = "Succeeded"
  /\ UpdateState(Marked)
  /\ UNCHANGED <<apiVars, cache, queue, pc, tick, docVars, todo, unrecorded>>

-----------------------------------------------------------------------------
(***************************************************************************)
(* The informer, the ticker and restarts.                                  *)
(***************************************************************************)
\* The informer learns the state of n; addResource, updateResource or
\* deleteResource enqueues it.
deliver(n) ==
  /\ cache[n] # status[n]
  /\ cache' = [cache EXCEPT ![n] = status[n]]
  /\ queue' = queue \cup {n}
  /\ UNCHANGED <<apiVars, ss, pc, tick, docVars, todo, unrecorded, budget>>

\* An update of n that leaves its status alone, such as a saved continue token.
touch(n) ==
  /\ n \in (Live \cap Cached) \ queue
  /\ Charge
  /\ queue' = queue \cup {n}
  /\ UNCHANGED <<apiVars, ss, cache, pc, tick, docVars, todo, unrecorded>>

\* A discovery period ends.  Usually the trigger has finished its work by then;
\* that it is busy, slow or down is an unusual event.
periodEnds ==
  /\ \/ pc = "idle" /\ ~tick /\ queue = {} /\ Synced /\ UNCHANGED budget
     \/ Charge
  /\ tick' = TRUE
  /\ ss' = [ss EXCEPT !.age = IF @ = StaleAge THEN @ ELSE @ + 1]
  /\ UNCHANGED <<apiVars, cache, queue, pc, docVars, todo, unrecorded>>

\* The process crashes and starts again: the new informer lists all migrations,
\* which enqueues them, and a discovery is done at once.
restart ==
  /\ Charge
  /\ cache' = status /\ queue' = Live
  /\ pc' = "discover" /\ tick' = FALSE /\ todo' = {}
  /\ doc' = NoHash /\ changed' = {}
  /\ UNCHANGED <<apiVars, ss, unrecorded>>

-----------------------------------------------------------------------------
(***************************************************************************)
(* The API server, the migrator and the users.                             *)
(***************************************************************************)
\* The storage version of the resource changes: an API server is upgraded or
\* downgraded, or a CustomResourceDefinition is edited.
changeVersion(v) ==
  /\ v # ver
  /\ ChangesObserved => unrecorded = {}
  /\ Charge
  /\ ver' = v
  /\ since' = [n \in Names |-> IF n \in Live THEN since[n] \cup {v} ELSE {}]
  /\ unrecorded' = unrecorded \cup {v}
  /\ changed' = IF doc = NoHash THEN {} ELSE changed \cup {v}
  /\ UNCHANGED <<data, ss, status, cache, queue, pc, tick, doc, todo>>

\* A client writes an instance of the resource.
write ==
  /\ ver \notin data
  /\ data' = data \cup {ver}
  /\ UNCHANGED <<ver, ss, status, since, cache, queue, pc, tick, docVars, todo, unrecorded, budget>>

\* The migrator makes migration n Running, and ends it.  A successful migration
\* has written every instance since n was created: what other versions it wrote
\* instances in before ver are the effect of write.  That it ends just when a
\* discovery is due or under way, which then relaunches it, is an unusual event.
startMigration(n) ==
  /\ L!Start(n)
  /\ UNCHANGED <<ver, data, since, ss, cache, queue, pc, tick, docVars, todo, unrecorded, budget>>
endMigration(n) ==
  /\ L!End(n)
  /\ \/ /\ status'[n] = "Succeeded"
        /\ data' = IF data = {} THEN {} ELSE (data \cap since[n]) \cup {ver}
        /\ \/ pc = "idle" /\ ~tick /\ UNCHANGED budget
           \/ ~(pc = "idle" /\ ~tick) /\ Charge
     \/ status'[n] = "Failed" /\ Charge /\ UNCHANGED data
  /\ UNCHANGED <<ver, since, ss, cache, queue, pc, tick, docVars, todo, unrecorded>>

\* A user or the initializer creates a migration (leaving a name for the trigger).
userCreate ==
  /\ Charge
  /\ Cardinality(Live \cup Cached) + 1 < MaxMigrations
  /\ CreateMigration
  /\ UNCHANGED <<ss, cache, queue, pc, tick, docVars, todo, unrecorded>>

\* A user deletes a migration.  In the middle of a discovery this makes the
\* DELETE of the trigger fail with NotFound.
userDelete(n) ==
  /\ n \in Live
  /\ DeletesReliable => pc \notin {"process", "deleteState", "list", "clean"}
  /\ Charge
  /\ DeleteMigration(n)
  /\ UNCHANGED <<ss, cache, queue, pc, tick, docVars, todo, unrecorded>>

\* A user deletes the StorageState.
userDeleteState ==
  /\ Charge
  /\ DeleteState
  /\ UNCHANGED <<apiVars, cache, queue, pc, tick, docVars, todo, unrecorded>>

migratorStep(n) == startMigration(n) \/ endMigration(n)

Environment ==
  \/ \E v \in Versions : changeVersion(v)
  \/ write \/ userCreate \/ userDeleteState \/ restart \/ otherDiscovers
  \/ \E n \in Names : userDelete(n) \/ touch(n) \/ otherMarks(n)

Next ==
  \/ TriggerStep \/ periodEnds \/ Environment
  \/ \E n \in Names : deliver(n) \/ migratorStep(n)

\* The trigger and the migrator run, the informer delivers and time passes.
Fairness ==
  /\ WF_vars(TriggerStep) /\ WF_vars(periodEnds)
  /\ \A n \in Names : WF_vars(deliver(n)) /\ SF_vars(migratorStep(n))

Spec == Init /\ [][Next]_vars /\ Fairness

-----------------------------------------------------------------------------
(***************************************************************************)
(* Properties.                                                             *)
(***************************************************************************)
\* persistedStorageVersionHashes lists every version that persisted instances
\* might still be encoded in, unless it says Unknown.  A version that the API
\* server has switched to since the last recorded discovery may be missing.
PersistedSound ==
  ss.cur # NoHash /\ Unknown \notin ss.persisted => data \subseteq ss.persisted \cup unrecorded

\* Once the environment settles, the storage state of the resource is refined to
\* the current storage version, whatever calls failed, items were lost, and
\* migrations failed or were deleted on the way.
Converges == <>[](ss.cur = ver /\ ss.persisted = {ver})
=============================================================================
