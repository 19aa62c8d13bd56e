----------------------- MODULE MigrationTriggerProofs -----------------------
(***************************************************************************)
(* Proofs about MigrationTrigger, for any set of storage versions and any  *)
(* number of migration objects.                                            *)
(*                                                                         *)
(* persistedStorageVersionHashes is sound because a migration that is      *)
(* processed was created no earlier than the discovery that recorded       *)
(* currentStorageVersionHash: cleanMigrations has deleted the older ones.  *)
(* The inductive invariant says what is known of the versions each         *)
(* migration spans (since) at each step of a discovery.                    *)
(***************************************************************************)
EXTENDS MigrationTrigger, TLAPS

USE DEF StateType, CreateState, DeleteState, UpdateState

\* The versions that instances written since the recorded discovery, or since
\* the discovery being processed, may be encoded in.
Known   == {ss.cur} \cup unrecorded
Fetched == {doc} \cup changed

OneChange   == changed \subseteq unrecorded /\ unrecorded \subseteq {ver}
VerKnown    == ss.cur # NoHash => ver \in Known
DocAtHand   == pc \in {"process", "deleteState", "list", "clean", "update"} => doc # NoHash
VerFetched  == doc # NoHash => ver \in Fetched /\ unrecorded \subseteq Fetched

SinceCurrent == \A n \in Live : ver \in since[n]
SinceSound   == \A n \in Live : status[n] = "Succeeded" => data \subseteq since[n]

\* Once a version is recorded, no migration spans an earlier one.
LiveKnown == ss.cur # NoHash => \A n \in Live : since[n] \subseteq Known

\* The migrations that span an earlier version are those cleanMigrations deletes.
Cleaning ==
  /\ pc \in {"process", "deleteState", "list"} =>
       Cached \subseteq Live /\ \A n \in Live \ Cached : since[n] \subseteq Fetched
  /\ pc = "clean" =>
       todo \subseteq Live /\ \A n \in Live \ todo : since[n] \subseteq Fetched
  /\ pc = "update" => \A n \in Live : since[n] \subseteq Fetched

MarkSound == pc = "mark" /\ ss.cur # NoHash => data \subseteq Known
CurListed == ss.cur # NoHash => Unknown \in ss.persisted \/ ss.cur \in ss.persisted

\* A state whose status was never written is stale, and is not updated.
EmptyStale == ss.cur = NoHash =>
  ss.age = StaleAge /\ (pc \in {"list", "clean", "update"} => ss.persisted = {})

IInv ==
  /\ TypeOK
  /\ OneChange /\ VerKnown /\ DocAtHand /\ VerFetched
  /\ SinceCurrent /\ SinceSound /\ LiveKnown /\ Cleaning
  /\ MarkSound /\ CurListed /\ EmptyStale
  /\ PersistedSound

-----------------------------------------------------------------------------
(***************************************************************************)
(* Type correctness.                                                       *)
(***************************************************************************)
StateOK(s) ==
  s \in StateType /\ (s.found \/ s = NoState) /\ (s.cur # NoHash => s.persisted # {})

\* The absent StorageState and the one just created.
LEMMA NoStateOK == StateOK(NoState) /\ StateOK(EmptyState)
<1>1. NoState \in StateType /\ EmptyState \in StateType
  BY DEF NoState, EmptyState, StateType, StaleAge
<1>2. EmptyState.found /\ EmptyState.cur = NoHash /\ NoState.cur = NoHash
  BY DEF EmptyState, NoState
<1> QED
  BY <1>1, <1>2 DEF StateOK

\* What TypeOK says of the StorageState.
LEMMA TypeOKState == TypeOK => StateOK(ss)
BY Zenon DEF TypeOK, StateOK, StateType

\* The status updateStorageState writes over any StorageState.
LEMMA RecordedOK ==
  ASSUME NEW state, StateOK(state), NEW hash \in Versions \cup {NoHash}
  PROVE  StateOK(Recorded(state, hash))
<1>1. Recorded(state, hash) \in StateType
  BY DEF Recorded, StateOK, StateType, StaleAge
<1>2. Recorded(state, hash).found
  BY DEF Recorded
<1>3. Recorded(state, hash).cur # NoHash => Recorded(state, hash).persisted # {}
  BY DEF Recorded, StateOK
<1> QED
  BY <1>1, <1>2, <1>3 DEF StateOK

\* The StorageState markStorageStateSucceeded writes.
LEMMA MarkedOK == TypeOK /\ ss.found => StateOK(Marked)
<1> SUFFICES ASSUME TypeOK, ss.found PROVE StateOK(Marked)
  OBVIOUS
<1>1. ss \in StateType
  BY DEF TypeOK
<1>2. Marked \in StateType /\ Marked.found = ss.found /\ Marked.persisted # {}
  BY <1>1 DEF Marked
<1> QED
  BY <1>2 DEF StateOK

\* The StorageState a period later.
LEMMA AgedOK ==
  TypeOK => StateOK([ss EXCEPT !.age = IF @ = StaleAge THEN @ ELSE @ + 1])
<1> SUFFICES ASSUME TypeOK
             PROVE  StateOK([ss EXCEPT !.age = IF @ = StaleAge THEN @ ELSE @ + 1])
  OBVIOUS
<1>1. ss \in StateType /\ (ss.found \/ ss = NoState) /\ (ss.cur # NoHash => ss.persisted # {})
  BY DEF TypeOK, StateType
<1>2. (IF ss.age = StaleAge THEN ss.age ELSE ss.age + 1) \in 0..StaleAge
  BY <1>1 DEF StateType, StaleAge
<1>3. CASE ss.found
  BY <1>1, <1>2, <1>3 DEF StateOK, StateType
<1>4. CASE ss = NoState
  BY <1>1, <1>4 DEF StateOK, NoState, StateType
<1> QED
  BY <1>1, <1>3, <1>4

\* TypeOK holds initially ...
LEMMA InitType == Init => TypeOK
<1> SUFFICES ASSUME Init PROVE TypeOK
  OBVIOUS
<1>1. StateOK(ss)
  BY NoStateOK DEF Init
<1>2. tick \in BOOLEAN
  BY Zenon DEF Init
<1> QED
  BY <1>1, <1>2, EnvBudgetAssumption DEF Init, TypeOK, StateOK, StateType, Status

\* The variables of the API server and of the informer.
ApiType ==
  /\ ver \in Versions /\ data \in SUBSET Versions
  /\ status \in [Names -> Status \cup {"None"}] /\ since \in [Names -> SUBSET Versions]

\* The migration objects keep their types when one is created ...
LEMMA CreateType == TypeOK /\ CreateMigration => ApiType'
BY DEF TypeOK, CreateMigration, IsFreshName, L!Create, L!Move, ApiType, Free, Status

\* ... or deleted.
LEMMA DeleteType ==
  ASSUME TypeOK, NEW n \in Names, DeleteMigration(n)
  PROVE  ApiType'
BY DEF TypeOK, DeleteMigration, L!Delete, L!Move, ApiType, Status

\* Every step keeps TypeOK.
LEMMA NextType == TypeOK /\ [Next]_vars => TypeOK'
<1> SUFFICES ASSUME TypeOK, [Next]_vars PROVE TypeOK'
  OBVIOUS
<1> USE EnvBudgetAssumption
<1>1. ASSUME ApiType', StateOK(ss'), tick' \in BOOLEAN,
             cache' \in [Names -> Status \cup {"None"}],
             queue' \in SUBSET Names, todo' \in SUBSET Names,
             pc' \in {"discover", "process", "deleteState", "list", "clean", "update", "mark", "idle"},
             doc' \in Versions \cup {NoHash},
             unrecorded' \in SUBSET Versions, changed' \in SUBSET Versions,
             budget' \in 0..EnvBudget
      PROVE  TypeOK'
  BY <1>1 DEF TypeOK, ApiType, StateOK, StateType
<1>2. StateOK(ss) /\ ApiType
  BY TypeOKState DEF TypeOK, ApiType
<1>3. UNCHANGED apiVars => ApiType'
  BY <1>2 DEF ApiType, apiVars
<1>4. Charge \/ UNCHANGED budget => budget' \in 0..EnvBudget
  BY DEF Charge, TypeOK
<1>5. CASE processDiscovery \/ processDiscoveryFails
  <2>1. tick' \in BOOLEAN
    BY <1>5, Zenon DEF processDiscovery, processDiscoveryFails
  <2> QED
    BY <1>1, <1>2, <1>3, <1>4, <1>5, <2>1
    DEF processDiscovery, processDiscoveryFails, TypeOK, docVars
<1>6. CASE processDiscoveryResource
  BY <1>1, <1>2, <1>3, <1>4, <1>6
  DEF processDiscoveryResource, EndProcessing, TypeOK, docVars
<1>7. CASE deleteState
  BY <1>1, <1>2, <1>3, <1>4, <1>7, NoStateOK
  DEF deleteState, EndProcessing, TypeOK, docVars
<1>8. CASE listMigrations
  BY <1>1, <1>2, <1>3, <1>4, <1>8 DEF listMigrations, Cached, TypeOK, docVars
<1>9. ASSUME NEW n \in Names, cleanMigrations(n) PROVE TypeOK'
  <2>1. ApiType'
    BY <1>3, <1>9, DeleteType DEF cleanMigrations
  <2> QED
    BY <1>1, <1>2, <1>4, <1>9, <2>1 DEF cleanMigrations, TypeOK, docVars
<1>10. CASE launchMigration
  <2>1. ApiType'
    BY <1>3, <1>10, CreateType DEF launchMigration
  <2> QED
    BY <1>1, <1>2, <1>4, <1>10, <2>1 DEF launchMigration, TypeOK, docVars
<1>11. CASE updateStorageState
  <2>1. StateOK(ss')
    BY <1>2, <1>11, NoStateOK, RecordedOK DEF updateStorageState, TypeOK
  <2> QED
    BY <1>1, <1>3, <1>4, <1>11, <2>1 DEF updateStorageState, EndProcessing, TypeOK, docVars
<1>12. ASSUME NEW n \in Names, processQueue(n) PROVE TypeOK'
  BY <1>1, <1>2, <1>3, <1>4, <1>12 DEF processQueue, TypeOK, docVars
<1>13. CASE markStorageStateSucceeded
  <2>1. StateOK(ss')
    BY <1>2, <1>13, MarkedOK DEF markStorageStateSucceeded
  <2> QED
    BY <1>1, <1>3, <1>4, <1>13, <2>1 DEF markStorageStateSucceeded, Marked, TypeOK, docVars
<1>14. ASSUME NEW n \in Names, deliver(n) \/ touch(n) PROVE TypeOK'
  BY <1>1, <1>2, <1>3, <1>4, <1>14 DEF deliver, touch, TypeOK, docVars
<1>15. CASE periodEnds
  <2>1. StateOK(ss') /\ tick' \in BOOLEAN
    <3>1. tick' \in BOOLEAN
      BY <1>15, Zenon DEF periodEnds
    <3> QED
      BY <1>15, <3>1, AgedOK DEF periodEnds
  <2> QED
    BY <1>1, <1>3, <1>4, <1>15, <2>1 DEF periodEnds, TypeOK, docVars
<1>16. CASE restart
  <2>1. tick' \in BOOLEAN
    BY <1>16, Zenon DEF restart
  <2> QED
    BY <1>1, <1>2, <1>3, <1>4, <1>16, <2>1 DEF restart, Live, TypeOK
<1>17. ASSUME NEW v \in Versions, changeVersion(v) PROVE TypeOK'
  <2>1. ApiType'
    BY <1>17 DEF changeVersion, ApiType, TypeOK
  <2> QED
    BY <1>1, <1>2, <1>4, <1>17, <2>1 DEF changeVersion, TypeOK
<1>18. CASE write
  <2>1. ApiType'
    BY <1>18 DEF write, ApiType, TypeOK
  <2> QED
    BY <1>1, <1>2, <1>4, <1>18, <2>1 DEF write, TypeOK, docVars
<1>19. ASSUME NEW n \in Names, migratorStep(n) PROVE TypeOK'
  <2>1. ApiType'
    BY <1>19 DEF migratorStep, startMigration, endMigration, L!Start, L!End, L!Completed, L!Move,
      ApiType, TypeOK, Status
  <2> QED
    BY <1>1, <1>2, <1>4, <1>19, <2>1
    DEF migratorStep, startMigration, endMigration, TypeOK, docVars
<1>20. CASE userCreate
  <2>1. ApiType'
    BY <1>20, CreateType DEF userCreate
  <2> QED
    BY <1>1, <1>2, <1>4, <1>20, <2>1 DEF userCreate, TypeOK, docVars
<1>21. ASSUME NEW n \in Names, userDelete(n) PROVE TypeOK'
  <2>1. ApiType'
    BY <1>21, DeleteType DEF userDelete
  <2> QED
    BY <1>1, <1>2, <1>4, <1>21, <2>1 DEF userDelete, TypeOK, docVars
<1>22. CASE userDeleteState
  BY <1>1, <1>3, <1>4, <1>22, NoStateOK DEF userDeleteState, TypeOK, docVars
<1>23. CASE UNCHANGED vars
  BY <1>1, <1>2, <1>3, <1>4, <1>23 DEF vars, TypeOK, docVars
<1>24. CASE otherDiscovers
  <2>1. ApiType'
    BY <1>2, <1>24 DEF otherDiscovers, ApiType, Status
  <2>2. StateOK(ss')
    BY <1>2, <1>24, NoStateOK, RecordedOK DEF otherDiscovers, TypeOK
  <2> QED
    BY <1>1, <1>4, <1>24, <2>1, <2>2 DEF otherDiscovers, TypeOK, docVars
<1>25. ASSUME NEW n \in Names, otherMarks(n) PROVE TypeOK'
  <2>1. StateOK(ss')
    BY <1>25, MarkedOK DEF otherMarks
  <2> QED
    BY <1>1, <1>3, <1>4, <1>25, <2>1 DEF otherMarks, TypeOK, docVars
<1> QED
  BY <1>5, <1>6, <1>7, <1>8, <1>9, <1>10, <1>11, <1>12, <1>13, <1>14, <1>15, <1>16, <1>17,
     <1>18, <1>19, <1>20, <1>21, <1>22, <1>23, <1>24, <1>25
  DEF Next, TriggerStep, Environment

\* The variables keep their types; a StorageState that does not exist has no status, and
\* one with a current hash lists some persisted hash.
THEOREM TypeCorrect == Spec => []TypeOK
BY InitType, NextType, PTL DEF Spec

-----------------------------------------------------------------------------
(***************************************************************************)
(* persistedStorageVersionHashes is sound.                                 *)
(***************************************************************************)
\* The inductive invariant holds initially.
LEMMA InitInv == Init => IInv
<1> SUFFICES ASSUME Init PROVE IInv
  OBVIOUS
<1>1. TypeOK
  BY InitType
<1>2. Live = {} /\ ss.cur = NoHash /\ ss.age = StaleAge /\ ss.persisted = {}
  BY DEF Init, Live, NoState
<1> QED
  BY <1>1, <1>2
  DEF Init, IInv, OneChange, VerKnown, DocAtHand, VerFetched, SinceCurrent, SinceSound,
      LiveKnown, Cleaning, MarkSound, CurListed, EmptyStale, PersistedSound

\* A new migration object spans the current version only.
LEMMA Created ==
  ASSUME TypeOK, CreateMigration
  PROVE  /\ Live \subseteq Live'
         /\ \A n \in Live : status'[n] = status[n] /\ since'[n] = since[n]
         /\ \A n \in Live' \ Live : status'[n] = "Pending" /\ since'[n] = {ver}
         /\ UNCHANGED <<ver, data>>
BY DEF TypeOK, CreateMigration, IsFreshName, L!Create, L!Move, Free, Live

\* A deletion leaves the other migration objects alone.
LEMMA Deleted ==
  ASSUME TypeOK, NEW n \in Names, DeleteMigration(n)
  PROVE  /\ Live' = Live \ {n}
         /\ \A m \in Live' : status'[m] = status[m] /\ since'[m] = since[m]
         /\ UNCHANGED <<ver, data>>
BY DEF TypeOK, DeleteMigration, L!Delete, L!Move, Live

\* Every step keeps the inductive invariant, under the four assumptions.
LEMMA NextInv ==
  ASSUME DeletesReliable, ChangesObserved, CacheTimely, ~Overlap
  PROVE  IInv /\ [Next]_vars => IInv'
<1> SUFFICES ASSUME IInv, [Next]_vars PROVE IInv'
  OBVIOUS
<1>1. TypeOK /\ TypeOK'
  BY NextType DEF IInv
<1>2. CASE processDiscovery
  <2>1. /\ OneChange' /\ VerKnown' /\ SinceCurrent' /\ SinceSound' /\ LiveKnown'
        /\ MarkSound' /\ CurListed' /\ EmptyStale' /\ PersistedSound'
    BY <1>1, <1>2 DEF processDiscovery, IInv, OneChange, VerKnown, SinceCurrent, SinceSound,
      LiveKnown, MarkSound, CurListed, EmptyStale, PersistedSound, apiVars, docVars, Live,
      Cached, Known, Fetched, TypeOK
  <2>2. DocAtHand'
    BY <1>2, <1>1, VersionsAssumption DEF processDiscovery, DocAtHand, TypeOK
  <2>3. VerFetched'
    BY <1>1, <1>2 DEF processDiscovery, VerFetched, IInv, OneChange, Fetched, Known, apiVars,
      docVars, TypeOK
  <2>4. Cleaning'
    BY <1>1, <1>2 DEF processDiscovery, Cleaning, Discovering, Synced, Live, Cached, IInv,
      Fetched, apiVars, docVars, TypeOK
  <2> QED
    BY <1>1, <2>1, <2>2, <2>3, <2>4 DEF IInv
<1>3. CASE processDiscoveryFails
  <2>1. /\ OneChange' /\ VerKnown' /\ DocAtHand' /\ VerFetched' /\ SinceCurrent'
        /\ SinceSound' /\ LiveKnown' /\ Cleaning' /\ MarkSound' /\ CurListed' /\ EmptyStale'
        /\ PersistedSound'
    BY <1>1, <1>3 DEF processDiscoveryFails, Discovering, IInv, OneChange, VerKnown, DocAtHand,
      VerFetched, SinceCurrent, SinceSound, LiveKnown, Cleaning, MarkSound, CurListed,
      EmptyStale, PersistedSound, apiVars, docVars, Live, Cached, Known, Fetched, TypeOK
  <2> QED
    BY <1>1, <2>1 DEF IInv
<1>4. CASE processDiscoveryResource
  <2>1. /\ OneChange' /\ VerKnown' /\ DocAtHand' /\ VerFetched' /\ SinceCurrent'
        /\ SinceSound' /\ LiveKnown' /\ MarkSound' /\ CurListed' /\ PersistedSound'
    BY <1>1, <1>4 DEF processDiscoveryResource, EndProcessing, staleStorageState, relaunch,
      IInv, OneChange, VerKnown, DocAtHand, VerFetched, SinceCurrent, SinceSound, LiveKnown,
      MarkSound, CurListed, PersistedSound, apiVars, docVars, Live, Cached, Known, Fetched,
      TypeOK
  <2>2. Cleaning'
    BY <1>4 DEF processDiscoveryResource, EndProcessing, staleStorageState, relaunch, Cleaning,
      IInv, DocAtHand, VerFetched, LiveKnown, Live, Cached, Known, Fetched, apiVars, docVars
  <2>3. EmptyStale'
    BY <1>4, <1>1 DEF processDiscoveryResource, EndProcessing, staleStorageState, relaunch,
      EmptyStale, IInv, TypeOK, NoState
  <2> QED
    BY <1>1, <2>1, <2>2, <2>3 DEF IInv
<1>5. CASE deleteState
  <2>1. /\ OneChange' /\ VerKnown' /\ DocAtHand' /\ VerFetched' /\ SinceCurrent'
        /\ SinceSound' /\ LiveKnown' /\ Cleaning' /\ MarkSound' /\ CurListed' /\ EmptyStale'
        /\ PersistedSound'
    BY <1>1, <1>5 DEF deleteState, EndProcessing, NoState, IInv, OneChange, VerKnown, DocAtHand,
      VerFetched, SinceCurrent, SinceSound, LiveKnown, Cleaning, MarkSound, CurListed,
      EmptyStale, PersistedSound, apiVars, docVars, Live, Cached, Known, Fetched, TypeOK
  <2> QED
    BY <1>1, <2>1 DEF IInv
<1>6. CASE listMigrations
  <2>1. /\ OneChange' /\ VerKnown' /\ DocAtHand' /\ VerFetched' /\ SinceCurrent'
        /\ SinceSound' /\ LiveKnown' /\ MarkSound' /\ CurListed' /\ EmptyStale'
        /\ PersistedSound'
    BY <1>1, <1>6 DEF listMigrations, IInv, OneChange, VerKnown, DocAtHand, VerFetched,
      SinceCurrent, SinceSound, LiveKnown, MarkSound, CurListed, EmptyStale, PersistedSound,
      apiVars, docVars, Live, Cached, Known, Fetched, TypeOK
  <2>2. Cleaning'
    BY <1>6 DEF listMigrations, Cleaning, IInv, Live, Cached, Fetched, apiVars, docVars
  <2> QED
    BY <1>1, <2>1, <2>2 DEF IInv
<1>7. ASSUME NEW n \in Names, cleanMigrations(n) PROVE IInv'
  <2>1. /\ Live' = (IF pc' = "clean" THEN Live \ {n} ELSE Live) /\ n \in Live
        /\ \A m \in Live' : status'[m] = status[m] /\ since'[m] = since[m]
        /\ UNCHANGED <<ver, data>>
    BY <1>7, <1>1, Deleted DEF cleanMigrations, IInv, Cleaning, apiVars, Live, Cached
  <2>2. /\ OneChange' /\ VerKnown' /\ DocAtHand' /\ VerFetched' /\ MarkSound' /\ CurListed'
        /\ EmptyStale' /\ PersistedSound'
    BY <1>1, <1>7, <2>1 DEF cleanMigrations, IInv, OneChange, VerKnown, DocAtHand, VerFetched,
      MarkSound, CurListed, EmptyStale, PersistedSound, apiVars, docVars, Live, Cached, Known,
      Fetched, TypeOK
  <2>3. SinceCurrent'
    BY <1>7, <2>1 DEF cleanMigrations, SinceCurrent, IInv
  <2>4. SinceSound'
    BY <1>7, <2>1 DEF cleanMigrations, SinceSound, IInv
  <2>5. LiveKnown'
    BY <1>7, <2>1 DEF cleanMigrations, LiveKnown, IInv, Known
  <2>6. Cleaning'
    BY <1>7, <2>1 DEF cleanMigrations, Cleaning, IInv, Fetched, docVars
  <2> QED
    BY <1>1, <2>2, <2>3, <2>4, <2>5, <2>6 DEF IInv
<1>8. CASE launchMigration
  <2>1. /\ Live \subseteq Live'
        /\ \A n \in Live : status'[n] = status[n] /\ since'[n] = since[n]
        /\ \A n \in Live' \ Live : status'[n] = "Pending" /\ since'[n] = {ver}
        /\ UNCHANGED <<ver, data>>
    BY <1>8, <1>1, Created DEF launchMigration, apiVars, Live
  <2>2. /\ OneChange' /\ VerKnown' /\ DocAtHand' /\ VerFetched' /\ MarkSound' /\ CurListed'
        /\ EmptyStale' /\ PersistedSound'
    BY <1>1, <1>8, <2>1 DEF launchMigration, IInv, OneChange, VerKnown, DocAtHand, VerFetched,
      MarkSound, CurListed, EmptyStale, PersistedSound, apiVars, docVars, Live, Cached, Known,
      Fetched, TypeOK
  <2>3. SinceCurrent'
    BY <1>8, <2>1 DEF launchMigration, SinceCurrent, IInv
  <2>4. SinceSound'
    BY <1>8, <2>1 DEF launchMigration, SinceSound, IInv
  <2>5. LiveKnown'
    BY <1>8, <2>1 DEF launchMigration, LiveKnown, IInv, VerKnown, Known
  <2>6. Cleaning'
    BY <1>8, <2>1 DEF launchMigration, Cleaning, IInv, DocAtHand, VerFetched, Fetched, docVars
  <2> QED
    BY <1>1, <2>2, <2>3, <2>4, <2>5, <2>6 DEF IInv
<1>9. CASE updateStorageState
  <2>1. /\ DocAtHand' /\ VerFetched' /\ SinceCurrent' /\ SinceSound' /\ Cleaning'
        /\ MarkSound'
    BY <1>1, <1>9 DEF updateStorageState, EndProcessing, EmptyState, IInv, DocAtHand,
      VerFetched, SinceCurrent, SinceSound, Cleaning, MarkSound, apiVars, docVars, Live, Cached,
      Known, Fetched, TypeOK
  <2>2. OneChange'
    BY <1>9 DEF updateStorageState, EndProcessing, EmptyState, OneChange, IInv, apiVars, docVars
  <2>3. VerKnown'
    BY <1>9 DEF updateStorageState, EndProcessing, EmptyState, VerKnown, IInv, DocAtHand,
      VerFetched, Recorded, Known, Fetched, apiVars
  <2>4. LiveKnown'
    BY <1>9 DEF updateStorageState, EndProcessing, EmptyState, LiveKnown, IInv, Cleaning,
      Recorded, Live, Known, Fetched, apiVars
  <2>5. CurListed'
    BY <1>9 DEF updateStorageState, EndProcessing, EmptyState, CurListed, IInv, EmptyStale,
      Recorded, DocAtHand
  <2>6. EmptyStale'
    BY <1>9, <1>1 DEF updateStorageState, EndProcessing, EmptyState, EmptyStale, IInv, Recorded,
      DocAtHand, TypeOK, NoState
  <2>7. PersistedSound'
    BY <1>1, <1>9, VersionsAssumption DEF updateStorageState, EndProcessing, EmptyState,
      PersistedSound, IInv, OneChange, VerKnown, DocAtHand, VerFetched, CurListed, EmptyStale,
      Recorded, Fetched, Known, TypeOK, apiVars, docVars
  <2> QED
    BY <1>1, <2>1, <2>2, <2>3, <2>4, <2>5, <2>6, <2>7 DEF IInv
<1>10. ASSUME NEW n \in Names, processQueue(n) PROVE IInv'
  <2>1. /\ OneChange' /\ VerKnown' /\ DocAtHand' /\ VerFetched' /\ SinceCurrent'
        /\ SinceSound' /\ LiveKnown' /\ Cleaning' /\ CurListed' /\ EmptyStale'
        /\ PersistedSound'
    BY <1>1, <1>10 DEF processQueue, IInv, OneChange, VerKnown, DocAtHand, VerFetched,
      SinceCurrent, SinceSound, LiveKnown, Cleaning, CurListed, EmptyStale, PersistedSound,
      apiVars, docVars, Live, Cached, Known, Fetched, TypeOK
  <2>2. MarkSound'
    BY <1>10 DEF processQueue, MarkSound, IInv, SinceSound, LiveKnown, Live, Known, apiVars
  <2> QED
    BY <1>1, <2>1, <2>2 DEF IInv
<1>11. CASE markStorageStateSucceeded
  <2>1. /\ OneChange' /\ DocAtHand' /\ VerFetched' /\ SinceCurrent' /\ SinceSound'
        /\ Cleaning' /\ MarkSound'
    BY <1>1, <1>11 DEF markStorageStateSucceeded, Marked, IInv, OneChange, DocAtHand, VerFetched,
      SinceCurrent, SinceSound, Cleaning, MarkSound, apiVars, docVars, Live, Cached, Known,
      Fetched, TypeOK
  <2>2. VerKnown'
    BY <1>11, <1>1 DEF markStorageStateSucceeded, Marked, VerKnown, IInv, Known, TypeOK, apiVars
  <2>3. LiveKnown'
    BY <1>11, <1>1 DEF markStorageStateSucceeded, Marked, LiveKnown, IInv, Known, Live, TypeOK, apiVars
  <2>4. CurListed'
    BY <1>11, <1>1 DEF markStorageStateSucceeded, Marked, CurListed, IInv, TypeOK
  <2>5. EmptyStale'
    BY <1>11, <1>1 DEF markStorageStateSucceeded, Marked, EmptyStale, IInv, TypeOK
  <2>6. PersistedSound'
    BY <1>11, <1>1 DEF markStorageStateSucceeded, Marked, PersistedSound, IInv, MarkSound, Known,
      TypeOK, apiVars
  <2> QED
    BY <1>1, <2>1, <2>2, <2>3, <2>4, <2>5, <2>6 DEF IInv
<1>12. ASSUME NEW n \in Names, deliver(n) \/ touch(n) PROVE IInv'
  <2>1. /\ OneChange' /\ VerKnown' /\ DocAtHand' /\ VerFetched' /\ SinceCurrent'
        /\ SinceSound' /\ LiveKnown' /\ MarkSound' /\ CurListed' /\ EmptyStale'
        /\ PersistedSound'
    BY <1>1, <1>12 DEF deliver, touch, IInv, OneChange, VerKnown, DocAtHand, VerFetched,
      SinceCurrent, SinceSound, LiveKnown, MarkSound, CurListed, EmptyStale, PersistedSound,
      apiVars, docVars, Live, Cached, Known, Fetched, TypeOK
  <2>2. Cleaning'
    BY <1>12, <1>1 DEF deliver, touch, Cleaning, IInv, Live, Cached, Fetched, TypeOK, apiVars,
      docVars
  <2> QED
    BY <1>1, <2>1, <2>2 DEF IInv
<1>13. CASE periodEnds
  <2>1. ss'.cur = ss.cur /\ ss'.persisted = ss.persisted /\ (ss.age = StaleAge => ss'.age = StaleAge)
    BY <1>13, <1>1 DEF periodEnds, TypeOK
  <2>2. /\ OneChange' /\ DocAtHand' /\ VerFetched' /\ SinceCurrent' /\ SinceSound'
        /\ Cleaning'
    BY <1>1, <1>13, <2>1 DEF periodEnds, IInv, OneChange, DocAtHand, VerFetched, SinceCurrent,
      SinceSound, Cleaning, apiVars, docVars, Live, Cached, Known, Fetched, TypeOK
  <2>3. VerKnown'
    BY <1>13, <2>1 DEF periodEnds, VerKnown, IInv, Known, apiVars
  <2>4. LiveKnown'
    BY <1>13, <2>1 DEF periodEnds, LiveKnown, IInv, Known, Live, apiVars
  <2>5. MarkSound'
    BY <1>13, <2>1 DEF periodEnds, MarkSound, IInv, Known, apiVars
  <2>6. CurListed'
    BY <1>13, <2>1 DEF periodEnds, CurListed, IInv
  <2>7. EmptyStale'
    BY <1>13, <2>1 DEF periodEnds, EmptyStale, IInv
  <2>8. PersistedSound'
    BY <1>13, <2>1 DEF periodEnds, PersistedSound, IInv, apiVars
  <2> QED
    BY <1>1, <2>2, <2>3, <2>4, <2>5, <2>6, <2>7, <2>8 DEF IInv
<1>14. CASE restart
  <2>1. /\ OneChange' /\ VerKnown' /\ DocAtHand' /\ VerFetched' /\ SinceCurrent'
        /\ SinceSound' /\ LiveKnown' /\ Cleaning' /\ MarkSound' /\ CurListed' /\ EmptyStale'
        /\ PersistedSound'
    BY <1>1, <1>14 DEF restart, IInv, OneChange, VerKnown, DocAtHand, VerFetched, SinceCurrent,
      SinceSound, LiveKnown, Cleaning, MarkSound, CurListed, EmptyStale, PersistedSound,
      apiVars, docVars, Live, Cached, Known, Fetched, TypeOK
  <2> QED
    BY <1>1, <2>1 DEF IInv
<1>15. ASSUME NEW v \in Versions, changeVersion(v) PROVE IInv'
  <2>1. /\ Live' = Live /\ status' = status
        /\ \A n \in Live : since'[n] = since[n] \cup {v}
        /\ unrecorded = {} /\ unrecorded' = {v} /\ ver' = v
    BY <1>15 DEF changeVersion, Live
  <2>2. /\ VerKnown' /\ DocAtHand' /\ MarkSound' /\ CurListed' /\ EmptyStale' /\ PersistedSound'
    BY <1>1, <1>15, <2>1 DEF changeVersion, IInv, VerKnown, DocAtHand, MarkSound, CurListed,
      EmptyStale, PersistedSound, apiVars, docVars, Live, Cached, Known, Fetched, TypeOK
  <2>3. SinceCurrent'
    BY <1>15, <2>1 DEF changeVersion, SinceCurrent
  <2>4. SinceSound'
    BY <1>15, <2>1 DEF changeVersion, SinceSound, IInv
  <2>5. LiveKnown'
    BY <1>15, <2>1 DEF changeVersion, LiveKnown, IInv, Known
  <2>6. VerFetched'
    BY <1>15, <2>1 DEF changeVersion, VerFetched, IInv, Fetched
  <2>7. OneChange'
    BY <1>15, <2>1 DEF changeVersion, OneChange, IInv
  <2>8. Cleaning'
    BY <1>15, <2>1 DEF changeVersion, Cleaning, IInv, DocAtHand, Cached, Fetched
  <2> QED
    BY <1>1, <2>2, <2>3, <2>4, <2>5, <2>6, <2>7, <2>8 DEF IInv
<1>16. CASE write
  <2>1. /\ OneChange' /\ VerKnown' /\ DocAtHand' /\ VerFetched' /\ SinceCurrent'
        /\ LiveKnown' /\ Cleaning' /\ CurListed' /\ EmptyStale'
    BY <1>1, <1>16 DEF write, IInv, OneChange, VerKnown, DocAtHand, VerFetched, SinceCurrent,
      LiveKnown, Cleaning, CurListed, EmptyStale, apiVars, docVars, Live, Cached, Known,
      Fetched, TypeOK
  <2>2. SinceSound'
    BY <1>16 DEF write, SinceSound, IInv, SinceCurrent, Live
  <2>3. MarkSound'
    BY <1>16 DEF write, MarkSound, IInv, VerKnown, Known
  <2>4. PersistedSound'
    BY <1>16 DEF write, PersistedSound, IInv, VerKnown, CurListed, Known
  <2> QED
    BY <1>1, <2>1, <2>2, <2>3, <2>4 DEF IInv
<1>17. ASSUME NEW n \in Names, migratorStep(n) PROVE IInv'
  <2>1. /\ Live' = Live /\ since' = since /\ data' \subseteq data \cup {ver}
        /\ \A m \in Live : status'[m] = "Succeeded" => data' \subseteq since[m]
    BY <1>17, <1>1 DEF migratorStep, startMigration, endMigration, L!Start, L!End, L!Completed,
      L!Move, IInv, SinceCurrent, SinceSound, Live, TypeOK
  <2>2. /\ OneChange' /\ VerKnown' /\ DocAtHand' /\ VerFetched' /\ CurListed' /\ EmptyStale'
    BY <1>1, <1>17, <2>1 DEF migratorStep, startMigration, endMigration, IInv, OneChange,
      VerKnown, DocAtHand, VerFetched, CurListed, EmptyStale, apiVars, docVars, Live, Cached,
      Known, Fetched, TypeOK
  <2>3. SinceSound'
    BY <1>17, <2>1 DEF migratorStep, startMigration, endMigration, SinceSound
  <2>4. Cleaning'
    BY <1>17, <2>1 DEF migratorStep, startMigration, endMigration, Cleaning, IInv, Cached,
      Fetched, docVars
  <2>5. MarkSound'
    BY <1>17, <2>1 DEF migratorStep, startMigration, endMigration, MarkSound, IInv, VerKnown,
      Known
  <2>6. PersistedSound'
    BY <1>17, <2>1 DEF migratorStep, startMigration, endMigration, PersistedSound, IInv,
      VerKnown, CurListed, Known
  <2>7. SinceCurrent'
    BY <1>17, <2>1 DEF migratorStep, startMigration, endMigration, SinceCurrent, IInv
  <2>8. LiveKnown'
    BY <1>17, <2>1 DEF migratorStep, startMigration, endMigration, LiveKnown, IInv, Known
  <2> QED
    BY <1>1, <2>2, <2>3, <2>4, <2>5, <2>6, <2>7, <2>8 DEF IInv
<1>18. CASE userCreate
  <2>1. /\ Live \subseteq Live'
        /\ \A n \in Live : status'[n] = status[n] /\ since'[n] = since[n]
        /\ \A n \in Live' \ Live : status'[n] = "Pending" /\ since'[n] = {ver}
        /\ UNCHANGED <<ver, data>>
    BY <1>18, <1>1, Created DEF userCreate
  <2>2. /\ OneChange' /\ VerKnown' /\ DocAtHand' /\ VerFetched' /\ MarkSound' /\ CurListed'
        /\ EmptyStale' /\ PersistedSound'
    BY <1>1, <1>18, <2>1 DEF userCreate, IInv, OneChange, VerKnown, DocAtHand, VerFetched,
      MarkSound, CurListed, EmptyStale, PersistedSound, apiVars, docVars, Live, Cached, Known,
      Fetched, TypeOK
  <2>3. SinceCurrent'
    BY <1>18, <2>1 DEF userCreate, SinceCurrent, IInv
  <2>4. SinceSound'
    BY <1>18, <2>1 DEF userCreate, SinceSound, IInv
  <2>5. LiveKnown'
    BY <1>18, <2>1 DEF userCreate, LiveKnown, IInv, VerKnown, Known
  <2>6. Cleaning'
    BY <1>18, <2>1 DEF userCreate, Cleaning, IInv, DocAtHand, VerFetched, Cached, Fetched,
      docVars
  <2> QED
    BY <1>1, <2>2, <2>3, <2>4, <2>5, <2>6 DEF IInv
<1>19. ASSUME NEW n \in Names, userDelete(n) PROVE IInv'
  <2>1. /\ Live' \subseteq Live /\ \A m \in Live' : status'[m] = status[m] /\ since'[m] = since[m]
        /\ UNCHANGED <<ver, data>> /\ pc \notin {"process", "deleteState", "list", "clean"}
    BY <1>19, <1>1, Deleted DEF userDelete
  <2>2. /\ OneChange' /\ VerKnown' /\ DocAtHand' /\ VerFetched' /\ MarkSound' /\ CurListed'
        /\ EmptyStale' /\ PersistedSound'
    BY <1>1, <1>19, <2>1 DEF userDelete, IInv, OneChange, VerKnown, DocAtHand, VerFetched,
      MarkSound, CurListed, EmptyStale, PersistedSound, apiVars, docVars, Live, Cached, Known,
      Fetched, TypeOK
  <2>3. SinceCurrent'
    BY <1>19, <2>1 DEF userDelete, SinceCurrent, IInv
  <2>4. SinceSound'
    BY <1>19, <2>1 DEF userDelete, SinceSound, IInv
  <2>5. LiveKnown'
    BY <1>19, <2>1 DEF userDelete, LiveKnown, IInv, Known
  <2>6. Cleaning'
    BY <1>19, <2>1 DEF userDelete, Cleaning, IInv, Fetched, docVars
  <2> QED
    BY <1>1, <2>2, <2>3, <2>4, <2>5, <2>6 DEF IInv
<1>20. CASE userDeleteState
  <2>1. /\ OneChange' /\ VerKnown' /\ DocAtHand' /\ VerFetched' /\ SinceCurrent'
        /\ SinceSound' /\ LiveKnown' /\ Cleaning' /\ MarkSound' /\ CurListed' /\ EmptyStale'
        /\ PersistedSound'
    BY <1>1, <1>20 DEF userDeleteState, NoState, IInv, OneChange, VerKnown, DocAtHand,
      VerFetched, SinceCurrent, SinceSound, LiveKnown, Cleaning, MarkSound, CurListed,
      EmptyStale, PersistedSound, apiVars, docVars, Live, Cached, Known, Fetched, TypeOK
  <2> QED
    BY <1>1, <2>1 DEF IInv
<1>21. CASE UNCHANGED vars
  <2>1. /\ OneChange' /\ VerKnown' /\ DocAtHand' /\ VerFetched' /\ SinceCurrent'
        /\ SinceSound' /\ LiveKnown' /\ Cleaning' /\ MarkSound' /\ CurListed' /\ EmptyStale'
        /\ PersistedSound'
    BY <1>1, <1>21 DEF vars, IInv, OneChange, VerKnown, DocAtHand, VerFetched, SinceCurrent,
      SinceSound, LiveKnown, Cleaning, MarkSound, CurListed, EmptyStale, PersistedSound,
      apiVars, docVars, Live, Cached, Known, Fetched, TypeOK
  <2> QED
    BY <1>1, <2>1 DEF IInv
<1>22. ~otherDiscovers /\ \A n \in Names : ~otherMarks(n)
  BY DEF otherDiscovers, otherMarks
<1> QED
  BY <1>2, <1>3, <1>4, <1>5, <1>6, <1>7, <1>8, <1>9, <1>10, <1>11, <1>12, <1>13, <1>14, <1>15,
    <1>16, <1>17, <1>18, <1>19, <1>20, <1>21, <1>22 DEF Next, TriggerStep, Environment

\* If the DELETE of a migration object never fails, every change of the storage
\* version is seen by a discovery, the informer is up to date when a discovery begins,
\* and no second replica runs, then persistedStorageVersionHashes never misses a version that instances
\* are encoded in, except one that no discovery has recorded yet.
THEOREM PersistedIsSound ==
  ASSUME DeletesReliable, ChangesObserved, CacheTimely, ~Overlap
  PROVE  Spec => []PersistedSound
<1>1. IInv => PersistedSound
  BY DEF IInv
<1>2. IInv /\ [Next]_vars => IInv'
  BY NextInv
<1> QED
  BY <1>1, <1>2, InitInv, PTL DEF Spec
=============================================================================
