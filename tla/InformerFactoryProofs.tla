----------------------- MODULE InformerFactoryProofs ------------------------
(***************************************************************************)
(* Proofs about InformerFactory, for any number of types, goroutines and   *)
(* channels.                                                               *)
(***************************************************************************)
EXTENDS InformerFactory, FiniteSetTheorems, TLAPS

\* The informers that have a goroutine.
Running == {t \in Types : run[t] > 0}

\* The WaitGroup counts the goroutines, which are those of started informers.
Counted ==
  /\ RunsOnce
  /\ Running \subseteq startedInformers
  /\ wg = Cardinality(Running)

\* A call of Shutdown that waits, or has returned, has closed the factory.
ShutdownBegan == down \/ (\E c \in Callers : pc[c] = "waitGroup") => shuttingDown

\* Only informers that were started have synced or are waited for.
SyncStarted ==
  /\ synced \subseteq startedInformers
  /\ \A c \in Callers : waitFor[c] \subseteq startedInformers

IInv ==
  /\ TypeOK /\ Counted /\ ShutdownBegan /\ NothingRunsAfterShutdown
  /\ SyncStarted /\ SyncReported

-----------------------------------------------------------------------------
\* Running is a finite set.
LEMMA RunningFinite == IsFiniteSet(Running) /\ Cardinality(Running) \in Nat
BY TypesAssumption, FS_Subset, FS_CardinalityType DEF Running

\* The inductive invariant holds initially.
LEMMA InitInv == Init => IInv
<1> SUFFICES ASSUME Init PROVE IInv
  OBVIOUS
<1>1. TypeOK
  BY DEF Init, TypeOK
<1>2. Running = {}
  BY DEF Init, Running
<1>3. Counted
  BY <1>2, FS_EmptySet DEF Init, Counted, RunsOnce
<1>4. ShutdownBegan /\ NothingRunsAfterShutdown
  BY DEF Init, ShutdownBegan, NothingRunsAfterShutdown
<1>5. SyncStarted /\ SyncReported
  BY DEF Init, SyncStarted, SyncReported
<1> QED
  BY <1>1, <1>3, <1>4, <1>5 DEF IInv

\* Start spawns one goroutine for each informer that was not started.
LEMMA StartStep ==
  ASSUME IInv, NEW c \in Callers, NEW ch \in Channels, Start(c, ch)
  PROVE  IInv'
<1> DEFINE S == informers \ startedInformers
<1>0. TypeOK /\ Counted
  BY DEF IInv
<1>1. S \in SUBSET Types /\ S \cap Running = {} /\ \A t \in S : run[t] = 0
  BY <1>0 DEF TypeOK, Counted, Running
<1>2. /\ run' = [t \in Types |-> IF t \in S THEN run[t] + 1 ELSE run[t]]
      /\ wg' = wg + Cardinality(S) /\ startedInformers' = startedInformers \cup S
      /\ stopCh' = [t \in Types |-> IF t \in S THEN ch ELSE stopCh[t]]
  BY DEF Start, Spawn
<1>3. Running' = Running \cup S
  BY <1>0, <1>1, <1>2 DEF Running, TypeOK
<1>4. IsFiniteSet(S) /\ Cardinality(S) \in Nat
  BY <1>1, TypesAssumption, FS_Subset, FS_CardinalityType
<1>5. Cardinality(Running') = Cardinality(Running) + Cardinality(S)
  <2> HIDE DEF S
  <2>1. Cardinality(Running \cup S) = Cardinality(Running) + Cardinality(S) - Cardinality(Running \cap S)
    BY <1>4, RunningFinite, FS_Union
  <2>2. Cardinality(Running \cap S) = 0
    BY <1>1, FS_EmptySet
  <2> QED
    BY <1>3, <1>4, <2>1, <2>2, RunningFinite
<1>6. TypeOK'
  BY <1>0, <1>1, <1>2, <1>4 DEF TypeOK, Start, callerVars
<1>7. Counted'
  BY <1>0, <1>1, <1>2, <1>3, <1>5 DEF Counted, RunsOnce, TypeOK
<1>8. ShutdownBegan' /\ NothingRunsAfterShutdown'
  BY DEF IInv, ShutdownBegan, NothingRunsAfterShutdown, Start, callerVars
<1>9. SyncStarted' /\ SyncReported'
  BY <1>2 DEF IInv, SyncStarted, SyncReported, Start, callerVars
<1> QED
  BY <1>6, <1>7, <1>8, <1>9 DEF IInv

\* A goroutine of Start that ends is no longer counted.
LEMMA RunReturnsStep ==
  ASSUME IInv, NEW t \in Types, runReturns(t)
  PROVE  IInv'
<1>0. TypeOK /\ Counted /\ run[t] = 1
  BY DEF IInv, TypeOK, Counted, RunsOnce, runReturns
<1>1. run' = [run EXCEPT ![t] = 0] /\ wg' = wg - 1
  BY <1>0 DEF runReturns
<1>2. Running' = Running \ {t} /\ t \in Running
  BY <1>0, <1>1 DEF Running, TypeOK
<1>3. Cardinality(Running') = Cardinality(Running) - 1
  BY <1>2, RunningFinite, FS_RemoveElement
<1>4. Cardinality(Running') \in Nat
  BY <1>2, RunningFinite, FS_RemoveElement, FS_CardinalityType
<1>5. TypeOK'
  BY <1>0, <1>1, <1>3, <1>4 DEF TypeOK, Counted, runReturns, callerVars
<1>6. Counted'
  BY <1>0, <1>1, <1>2, <1>3 DEF Counted, RunsOnce, TypeOK, runReturns
<1>7. ShutdownBegan' /\ NothingRunsAfterShutdown'
  BY <1>0, <1>1 DEF IInv, TypeOK, ShutdownBegan, NothingRunsAfterShutdown, runReturns, callerVars
<1>8. SyncStarted' /\ SyncReported'
  BY DEF IInv, SyncStarted, SyncReported, runReturns, callerVars
<1> QED
  BY <1>5, <1>6, <1>7, <1>8 DEF IInv

\* Every step keeps the inductive invariant.
LEMMA NextInv == IInv /\ [Next]_vars => IInv'
<1> SUFFICES ASSUME IInv, [Next]_vars PROVE IInv'
  OBVIOUS
<1> USE DEF factoryVars, goroutineVars, callerVars
<1>0. TypeOK /\ Counted /\ ShutdownBegan /\ NothingRunsAfterShutdown /\ SyncStarted /\ SyncReported
  BY DEF IInv
<1>1. ASSUME UNCHANGED <<run, startedInformers, wg>> PROVE Counted'
  BY <1>0, <1>1 DEF Counted, RunsOnce, Running
<1>2. ASSUME NEW c \in Callers, NEW t \in Types, InformerFor(c, t) PROVE IInv'
  BY <1>0, <1>1, <1>2 DEF InformerFor, IInv, TypeOK, ShutdownBegan, NothingRunsAfterShutdown,
     SyncStarted, SyncReported
<1>3. ASSUME NEW c \in Callers, Shutdown(c) PROVE IInv'
  BY <1>0, <1>1, <1>3 DEF Shutdown, Goto, IInv, TypeOK, ShutdownBegan, NothingRunsAfterShutdown,
     SyncStarted, SyncReported
<1>4. ASSUME NEW c \in Callers, ShutdownReturns(c) PROVE IInv'
  <2>1. Running = {}
    BY <1>0, <1>4, RunningFinite, FS_EmptySet DEF ShutdownReturns, Counted
  <2>2. \A t \in Types : run[t] = 0
    BY <1>0, <2>1 DEF Running, TypeOK
  <2>3. TypeOK' /\ Counted' /\ SyncStarted' /\ SyncReported'
    BY <1>0, <1>1, <1>4 DEF ShutdownReturns, Goto, TypeOK, SyncStarted, SyncReported
  <2>4. ShutdownBegan' /\ NothingRunsAfterShutdown'
    BY <1>0, <1>4, <2>2 DEF ShutdownReturns, Goto, TypeOK, ShutdownBegan, NothingRunsAfterShutdown
  <2> QED
    BY <2>3, <2>4 DEF IInv
<1>5. ASSUME NEW c \in Callers, NEW ch \in Channels, WaitForCacheSync(c, ch) PROVE IInv'
  BY <1>0, <1>1, <1>5 DEF WaitForCacheSync, Goto, IInv, TypeOK, ShutdownBegan,
     NothingRunsAfterShutdown, SyncStarted, SyncReported
<1>6. ASSUME NEW c \in Callers, NEW t \in Types, waitOne(c, t) PROVE IInv'
  BY <1>0, <1>1, <1>6 DEF waitOne, IInv, TypeOK, ShutdownBegan, NothingRunsAfterShutdown,
     SyncStarted, SyncReported
<1>7. ASSUME NEW c \in Callers, waitReturns(c) PROVE IInv'
  BY <1>0, <1>1, <1>7 DEF waitReturns, Goto, IInv, TypeOK, ShutdownBegan, NothingRunsAfterShutdown,
     SyncStarted, SyncReported
<1>8. ASSUME NEW t \in Types, sync(t) PROVE IInv'
  BY <1>0, <1>1, <1>8 DEF sync, IInv, TypeOK, Counted, Running, ShutdownBegan,
     NothingRunsAfterShutdown, SyncStarted, SyncReported
<1>9. ASSUME NEW ch \in Channels, close(ch) PROVE IInv'
  BY <1>0, <1>1, <1>9 DEF close, IInv, TypeOK, ShutdownBegan, NothingRunsAfterShutdown,
     SyncStarted, SyncReported
<1>10. CASE UNCHANGED vars
  BY <1>0, <1>1, <1>10 DEF vars, IInv, TypeOK, ShutdownBegan, NothingRunsAfterShutdown,
     SyncStarted, SyncReported
<1> QED
  BY <1>2, <1>3, <1>4, <1>5, <1>6, <1>7, <1>8, <1>9, <1>10, StartStep, RunReturnsStep DEF Next

-----------------------------------------------------------------------------
\* The variables keep their types: the WaitGroup never goes below zero, which would
\* make the program panic.
THEOREM TypeCorrect == Spec => []TypeOK
<1>1. IInv => TypeOK
  BY DEF IInv
<1> QED
  BY <1>1, InitInv, NextInv, PTL DEF Spec

\* For any number of callers, no informer is run twice.
THEOREM InformersRunOnce == Spec => []RunsOnce
<1>1. IInv => RunsOnce
  BY DEF IInv, Counted
<1> QED
  BY <1>1, InitInv, NextInv, PTL DEF Spec

\* For any number of callers, no informer runs after a call of Shutdown has returned.
THEOREM ShutdownIsFinal == Spec => []NothingRunsAfterShutdown
<1>1. IInv => NothingRunsAfterShutdown
  BY DEF IInv
<1> QED
  BY <1>1, InitInv, NextInv, PTL DEF Spec

\* For any number of callers, WaitForCacheSync reports only what has synced.
THEOREM SyncIsReported == Spec => []SyncReported
<1>1. IInv => SyncReported
  BY DEF IInv
<1> QED
  BY <1>1, InitInv, NextInv, PTL DEF Spec
=============================================================================
