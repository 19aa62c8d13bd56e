------------------------- MODULE CoreMigratorProofs -------------------------
(***************************************************************************)
(* Proofs about CoreMigrator, for any number of objects, any page size and *)
(* any set of workers.                                                     *)
(***************************************************************************)
EXTENDS CoreMigrator, FiniteSetTheorems, TLAPS

-----------------------------------------------------------------------------
(***************************************************************************)
(* Type correctness.                                                       *)
(***************************************************************************)
\* What a list or a GET sees has the type of a snapshot.
LEMMA CurrentType == TypeOK => Current \in Snapshot
BY DEF TypeOK, Current, Snapshot

\* An object read from a snapshot is a copy.
LEMMA CopyOfType ==
  ASSUME NEW s \in Snapshot, NEW k \in Keys
  PROVE  CopyOf(s, k) \in Copy
BY DEF CopyOf, Copy, Snapshot

\* The token of a new migration object.
LEMMA EmptyTokenType == EmptyToken \in Token
BY NumKeysAssumption DEF EmptyToken, Token

\* The page of a Run that has not listed anything.
LEMMA NoSnapshotType == NoSnapshot \in Snapshot
BY DEF NoSnapshot, Snapshot

\* A write keeps the types of the store.
LEMMA StoreType ==
  ASSUME TypeOK, NEW k \in Keys, NEW v \in Nat, Store(k, v)
  PROVE  /\ present' \in SUBSET Keys /\ old' \in SUBSET Keys
         /\ rv' \in [Keys -> Nat] /\ val' \in [Keys -> Nat]
BY DEF TypeOK, Store

\* TypeOK holds initially ...
LEMMA InitType == Init => TypeOK
<1> SUFFICES ASSUME Init PROVE TypeOK
  OBVIOUS
<1>1. more \in BOOLEAN /\ errs \in BOOLEAN
  BY Zenon DEF Init
<1>2. NoCopy \in Copy
  BY DEF NoCopy, Copy
<1>3. /\ wpc \in [Workers -> {"idle", "get", "put"}]
      /\ wkey \in [Workers -> 0..NumKeys]
      /\ wcopy \in [Workers -> Copy]
  BY <1>2, NumKeysAssumption DEF Init
<1>4. rv \in [Keys -> Nat] /\ val \in [Keys -> Nat]
  BY DEF Init
<1> QED
  BY <1>1, <1>3, <1>4, EmptyTokenType, NoSnapshotType, NumKeysAssumption, EnvBudgetAssumption
  DEF Init, TypeOK

\* ... and every step keeps it.
LEMMA NextType == TypeOK /\ [Next]_vars => TypeOK'
<1> SUFFICES ASSUME TypeOK, [Next]_vars PROVE TypeOK'
  OBVIOUS
<1> USE NumKeysAssumption, EnvBudgetAssumption
<1>1. CASE load
  BY <1>1 DEF TypeOK, load, Return, Charge, storeVars, svmVars, pageVars, workerVars
<1>2. CASE list
  <2> DEFINE snapshot  == IF tok.snap = Latest THEN Current ELSE tok.snap
             remaining == Remaining(tok, snapshot)
             items     == Page(remaining)
  <2>1. /\ chunk' = items /\ page' = snapshot /\ more' = (items # remaining)
        /\ last' = tok.pos \/ last' \in items
        /\ errs' = FALSE /\ pc = "list" /\ pc' = "migrate"
        /\ UNCHANGED <<storeVars, svmVars, err, tok, workerVars, budget>>
    BY <1>2 DEF list
  <2>2. snapshot \in Snapshot
    BY CurrentType DEF TypeOK, Token
  <2>3. items \in SUBSET Keys
    BY <2>2 DEF Page, Remaining, Snapshot
  <2>4. more' \in BOOLEAN /\ errs' \in BOOLEAN
    BY <2>1, Zenon
  <2>5. last' \in 0..NumKeys
    BY <2>1, <2>3 DEF TypeOK, Token, Keys
  <2> HIDE DEF snapshot, items, remaining
  <2> QED
    BY <2>1, <2>2, <2>3, <2>4, <2>5 DEF TypeOK, storeVars, svmVars, workerVars
<1>3. CASE \E e \in Error : listFails(e)
  <2>1. tok' \in Token
    <3>1. tok' = tok \/ tok' = [tok EXCEPT !.snap = Latest]
      BY <1>3 DEF listFails
    <3> QED
      BY <3>1 DEF TypeOK, Token
  <2> QED
    BY <1>3, <2>1
    DEF TypeOK, listFails, Return, Charge, storeVars, svmVars, pageVars, workerVars
<1>4. CASE migrateListReturns
  <2>1. [pos |-> last, snap |-> page] \in Token
    BY DEF TypeOK, Token
  <2> QED
    BY <1>4, <2>1
    DEF TypeOK, migrateListReturns, Return, storeVars, svmVars, pageVars, workerVars
<1>5. CASE save
  BY <1>5 DEF TypeOK, save, Charge, storeVars, svmVars, pageVars, workerVars
<1>6. ASSUME NEW w \in Workers, take(w) PROVE TypeOK'
  <2>1. PICK k \in chunk : /\ chunk' = chunk \ {k}
                           /\ wpc' = [wpc EXCEPT ![w] = "put"]
                           /\ wkey' = [wkey EXCEPT ![w] = k]
                           /\ wcopy' = [wcopy EXCEPT ![w] = CopyOf(page, k)]
    BY <1>6 DEF take
  <2>2. k \in Keys /\ k \in 0..NumKeys /\ CopyOf(page, k) \in Copy
    BY CopyOfType DEF TypeOK, Keys
  <2> QED
    BY <1>6, <2>1, <2>2 DEF TypeOK, take, storeVars, svmVars
<1>7. ASSUME NEW w \in Workers, get(w) PROVE TypeOK'
  <2>1. wkey[w] \in present => CopyOf(Current, wkey[w]) \in Copy
    BY CurrentType, CopyOfType DEF TypeOK
  <2> QED
    BY <1>7, <2>1 DEF TypeOK, get, ItemDone, storeVars, svmVars, pageVars
<1>8. ASSUME NEW w \in Workers, put(w) PROVE TypeOK'
  <2>1. wcopy[w].val \in Nat
    BY DEF TypeOK, Copy
  <2>2. /\ present' \in SUBSET Keys /\ old' \in SUBSET Keys
        /\ rv' \in [Keys -> Nat] /\ val' \in [Keys -> Nat]
    BY <1>8, <2>1, StoreType DEF put, TypeOK, storeVars
  <2>3. /\ wpc' \in [Workers -> {"idle", "get", "put"}]
        /\ wkey' = wkey /\ wcopy' = wcopy
        /\ \A x \in Workers : wpc'[x] # "idle" => wpc[x] # "idle"
    BY <1>8 DEF put, ItemDone, Retry, TypeOK
  <2> QED
    BY <1>8, <2>2, <2>3 DEF TypeOK, put, svmVars, pageVars
<1>9. ASSUME NEW w \in Workers, NEW e \in Error, callFails(w, e) PROVE TypeOK'
  <2>1. wcopy[w].val \in Nat
    BY DEF TypeOK, Copy
  <2>2. /\ present' \in SUBSET Keys /\ old' \in SUBSET Keys
        /\ rv' \in [Keys -> Nat] /\ val' \in [Keys -> Nat]
    BY <1>9, <2>1, StoreType DEF callFails, TypeOK, storeVars
  <2>3. /\ wpc' \in [Workers -> {"idle", "get", "put"}]
        /\ wkey' = wkey /\ \A x \in Workers : wpc'[x] # "idle" => wpc[x] # "idle"
        /\ wcopy' = wcopy \/ wcopy' = [wcopy EXCEPT ![w] = CopyOf(page, wkey[w])]
    BY <1>9 DEF callFails, ItemDone, Retry, TypeOK
  <2>4. CopyOf(page, wkey[w]) \in Copy
    BY <1>9, CopyOfType DEF TypeOK, callFails
  <2>5. errs' \in BOOLEAN
    BY <1>9, Zenon DEF callFails, TypeOK
  <2> QED
    BY <1>9, <2>2, <2>3, <2>4, <2>5 DEF TypeOK, callFails, Charge, svmVars
<1>10. ASSUME NEW k \in Keys, clientWrite(k) PROVE TypeOK'
  <2>1. val[k] + 1 \in Nat
    BY DEF TypeOK
  <2>2. /\ present' \in SUBSET Keys /\ old' \in SUBSET Keys
        /\ rv' \in [Keys -> Nat] /\ val' \in [Keys -> Nat]
    BY <1>10, <2>1, StoreType DEF clientWrite
  <2> QED
    BY <1>10, <2>2 DEF TypeOK, clientWrite, Charge, svmVars, pageVars, workerVars
<1>11. ASSUME NEW k \in Keys, clientDelete(k) PROVE TypeOK'
  BY <1>11 DEF TypeOK, clientDelete, Charge, svmVars, pageVars, workerVars
<1>12. CASE deleteMigration
  BY <1>12 DEF TypeOK, deleteMigration, Charge, storeVars, pageVars, workerVars
<1>13. CASE restart
  <2>1. more' \in BOOLEAN /\ errs' \in BOOLEAN
    BY <1>13, Zenon DEF restart
  <2>2. NoCopy \in Copy
    BY DEF NoCopy, Copy
  <2>3. /\ wpc' \in [Workers -> {"idle", "get", "put"}]
        /\ wkey' \in [Workers -> 0..NumKeys]
        /\ wcopy' \in [Workers -> Copy]
    BY <1>13, <2>2 DEF restart
  <2> QED
    BY <1>13, <2>1, <2>3, EmptyTokenType, NoSnapshotType
    DEF TypeOK, restart, Charge, storeVars, svmVars
<1>14. CASE UNCHANGED vars
  BY <1>14 DEF TypeOK, vars, storeVars, svmVars, pageVars, workerVars
<1> QED
  BY <1>1, <1>2, <1>3, <1>4, <1>5, <1>6, <1>7, <1>8, <1>9, <1>10, <1>11, <1>12, <1>13, <1>14
  DEF Next, RunStep, workerStep, Environment, Returned

\* The variables of the migrator keep their types, Run has a result exactly when it has
\* returned, and no worker is at work unless migrateList waits for it.
THEOREM TypeCorrect == Spec => []TypeOK
BY InitType, NextType, PTL DEF Spec

-----------------------------------------------------------------------------
(***************************************************************************)
(* The migrator skips no object.                                           *)
(*                                                                         *)
(* `old' only loses keys, so a key that is old now was in every snapshot   *)
(* ever read.  The inductive invariant follows the old keys through a run: *)
(* they are beyond the position of every token that may still be used, and *)
(* those of the page at hand are in the hands of migrateList or come in a  *)
(* later page.                                                             *)
(***************************************************************************)
\* A list that continues with t still returns every old key.
Covers(t) == \A k \in old : k > t.pos /\ (t.snap = Latest \/ k \in t.snap.keys)

\* The keys migrateList has not finished.
InHand == chunk \cup {wkey[w] : w \in {x \in Workers : wpc[x] # "idle"}}

OldPresent    == old \subseteq present
SavedCovers   == Covers(saved)
TokenCovers   == pc \in {"list", "save"} => Covers(tok)
PageComplete  == pc = "migrate" => old \subseteq page.keys
PageCovers    == pc = "migrate" /\ ~errs => \A k \in old : k \in InHand \/ (more /\ k > last)
NilMeansDone  == err = "nil" => old = {}

IInv ==
  /\ TypeOK
  /\ OldPresent /\ SavedCovers /\ TokenCovers /\ PageComplete /\ PageCovers /\ NilMeansDone

\* A page is a prefix of the keys still to list.
LEMMA PageIsPrefix ==
  ASSUME NEW S \in SUBSET Keys, NEW j \in Page(S), NEW k \in S \ Page(S)
  PROVE  j < k
<1> SUFFICES ASSUME ~(j < k) PROVE FALSE
  OBVIOUS
<1>1. IsFiniteSet(S)
  <2>1. IsFiniteSet(Keys)
    BY NumKeysAssumption, 1 \in Int, NumKeys \in Int, FS_Interval DEF Keys
  <2> QED
    BY <2>1, FS_Subset
<1> DEFINE Below(i) == {x \in S : x < i}
<1>2. /\ IsFiniteSet(Below(j)) /\ Below(k) \subseteq Below(j)
  <2>1. j \in Int /\ k \in Int /\ \A x \in S : x \in Int
    BY NumKeysAssumption DEF Keys, Page
  <2>2. \A x \in S : x < k => x < j
    BY <2>1
  <2>3. Below(j) \subseteq S /\ Below(k) \subseteq Below(j)
    BY <2>2
  <2> HIDE DEF Below
  <2> QED
    BY <1>1, <2>3, FS_Subset
<1>3. Cardinality(Below(k)) \leq Cardinality(Below(j))
  BY <1>2, FS_Subset
<1>4. Cardinality(Below(k)) \in Nat /\ Cardinality(Below(j)) \in Nat
  BY <1>2, FS_Subset, FS_CardinalityType
<1>5. Cardinality(Below(j)) < ChunkLimit /\ ~(Cardinality(Below(k)) < ChunkLimit)
  BY DEF Page
<1> QED
  BY <1>3, <1>4, <1>5, ChunkLimitAssumption

\* No step makes a key old, and a key that stays old stays present.
LEMMA OldShrinks ==
  ASSUME TypeOK, OldPresent, [Next]_vars
  PROVE  old' \subseteq old /\ OldPresent'
<1>1. ASSUME NEW k, NEW v, Store(k, v)
      PROVE  old' \subseteq old /\ OldPresent'
  BY <1>1 DEF Store, OldPresent
<1>2. ASSUME UNCHANGED storeVars
      PROVE  old' \subseteq old /\ OldPresent'
  BY <1>2 DEF storeVars, OldPresent
<1>3. CASE RunStep
  BY <1>2, <1>3 DEF RunStep, load, list, listFails, migrateListReturns, save
<1>4. ASSUME NEW w \in Workers, workerStep(w)
      PROVE  old' \subseteq old /\ OldPresent'
  BY <1>1, <1>2, <1>4 DEF workerStep, take, get, put, callFails
<1>5. CASE Environment
  BY <1>1, <1>2, <1>5
  DEF Environment, clientWrite, clientDelete, deleteMigration, restart, OldPresent
<1>6. CASE UNCHANGED vars
  BY <1>2, <1>6 DEF vars
<1> QED
  BY <1>3, <1>4, <1>5, <1>6 DEF Next, Returned

\* The invariant about skipped objects holds initially ...
LEMMA InitInv == Init => IInv
<1> SUFFICES ASSUME Init PROVE IInv
  OBVIOUS
<1>1. TypeOK
  BY InitType
<1>2. Covers(EmptyToken)
  BY <1>1, NumKeysAssumption DEF Covers, EmptyToken, TypeOK, Keys
<1> QED
  BY <1>1, <1>2
  DEF Init, IInv, OldPresent, SavedCovers, TokenCovers, PageComplete, PageCovers, NilMeansDone

\* ... and every step keeps it.
LEMMA NextInv == IInv /\ [Next]_vars => IInv'
<1> SUFFICES ASSUME IInv, [Next]_vars PROVE IInv'
  OBVIOUS
<1>1. TypeOK /\ TypeOK'
  BY NextType DEF IInv
<1>2. old' \subseteq old /\ OldPresent /\ OldPresent'
  BY OldShrinks DEF IInv
<1>3. ASSUME UNCHANGED saved PROVE SavedCovers'
  BY <1>2, <1>3 DEF IInv, SavedCovers, Covers
<1>4. ASSUME err' # "nil" \/ err' = err PROVE NilMeansDone'
  BY <1>2, <1>4 DEF IInv, NilMeansDone
\* Steps that leave the main goroutine alone.
<1>5. ASSUME UNCHANGED <<saved, pc, err, tok, page, last, more>>,
             ~errs' => ~errs /\ \A k \in old' : k \in InHand => k \in InHand'
      PROVE  IInv'
  <2>1. TokenCovers' /\ PageComplete' /\ PageCovers'
    BY <1>2, <1>5 DEF IInv, TokenCovers, PageComplete, PageCovers, Covers
  <2> QED
    BY <1>1, <1>2, <1>3, <1>4, <1>5, <2>1 DEF IInv
<1>6. CASE load
  <2>1. TokenCovers'
    BY <1>1, <1>2, <1>6
    DEF load, Return, IInv, SavedCovers, TokenCovers, Covers, TypeOK
  <2> QED
    BY <1>1, <1>2, <1>3, <1>4, <1>6, <2>1
    DEF load, Return, svmVars, IInv, PageComplete, PageCovers
<1>7. CASE list
  <2> DEFINE snapshot  == IF tok.snap = Latest THEN Current ELSE tok.snap
             remaining == Remaining(tok, snapshot)
             items     == Page(remaining)
  <2>1. /\ chunk' = items /\ page' = snapshot /\ more' = (items # remaining)
        /\ (items = {} /\ last' = tok.pos) \/ last' \in items
        /\ pc = "list" /\ pc' = "migrate"
        /\ UNCHANGED <<storeVars, svmVars, err, wpc, wkey>>
    BY <1>7 DEF list, workerVars
  <2>2. Covers(tok) /\ old' = old
    BY <2>1 DEF IInv, TokenCovers, storeVars
  <2>3. old \subseteq snapshot.keys /\ snapshot \in Snapshot
    BY <1>1, <1>2, <2>2, CurrentType DEF Covers, OldPresent, Current, TypeOK, Token
  <2>4. old \subseteq remaining /\ remaining \in SUBSET Keys
    BY <2>2, <2>3 DEF Covers, Remaining, Snapshot
  <2>5. PageComplete'
    BY <2>1, <2>2, <2>3 DEF PageComplete
  <2>6. PageCovers'
    <3> SUFFICES ASSUME NEW k \in old, k \notin items PROVE more' /\ k > last'
      BY <2>1, <2>2 DEF PageCovers, InHand
    <3>1. k \in remaining \ items
      BY <2>4
    <3>2. more'
      BY <2>1, <3>1
    <3>3. ASSUME items = {} /\ last' = tok.pos PROVE k > last'
      BY <2>2, <3>3 DEF Covers
    <3>4. ASSUME last' \in items PROVE k > last'
      <4>1. last' < k
        BY <2>4, <3>1, <3>4, PageIsPrefix
      <4>2. last' \in Nat /\ k \in Nat
        BY <1>1, NumKeysAssumption DEF TypeOK, Keys
      <4> QED
        BY <4>1, <4>2
    <3> QED
      BY <2>1, <3>2, <3>3, <3>4
  <2> QED
    BY <1>1, <1>2, <1>3, <1>4, <2>1, <2>5, <2>6 DEF IInv, TokenCovers, svmVars
<1>8. CASE \E e \in Error : listFails(e)
  <2>1. /\ pc = "list" /\ UNCHANGED <<saved, old>>
        /\ pc' \in {"list", "save", "returned"}
        /\ err' = "error" \/ err' = err
        /\ tok' = tok \/ tok' = [tok EXCEPT !.snap = Latest]
    BY <1>8 DEF listFails, Return, svmVars, storeVars
  <2>2. tok'.pos = tok.pos /\ (tok'.snap = tok.snap \/ tok'.snap = Latest)
    BY <1>1, <2>1 DEF TypeOK, Token
  <2>3. TokenCovers' /\ PageComplete' /\ PageCovers'
    BY <2>1, <2>2 DEF IInv, TokenCovers, PageComplete, PageCovers, Covers
  <2> QED
    BY <1>1, <1>2, <1>3, <1>4, <2>1, <2>3 DEF IInv
<1>9. CASE migrateListReturns
  <2>1. /\ pc = "migrate" /\ InHand = {} /\ UNCHANGED <<saved, old>>
        /\ pc' \in {"save", "returned"}
    BY <1>9 DEF migrateListReturns, InHand, Return, svmVars, storeVars
  <2>2. CASE pc' = "save"
    <3>1. /\ ~errs /\ tok' = [pos |-> last, snap |-> page] /\ err' = err
      BY <1>9, <2>2 DEF migrateListReturns, Return
    <3>2. \A k \in old : k > last /\ k \in page.keys
      BY <2>1, <3>1 DEF IInv, PageCovers, PageComplete
    <3>3. TokenCovers'
      BY <2>1, <3>1, <3>2 DEF TokenCovers, Covers
    <3> QED
      BY <1>1, <1>2, <1>3, <1>4, <2>1, <2>2, <3>1, <3>3 DEF IInv, PageComplete, PageCovers
  <2>3. CASE pc' = "returned"
    <3>1. err' = "nil" => ~errs /\ ~more
      BY <1>9, <2>3 DEF migrateListReturns, Return
    <3>2. NilMeansDone'
      BY <2>1, <3>1 DEF NilMeansDone, IInv, PageCovers
    <3> QED
      BY <1>1, <1>2, <1>3, <2>1, <2>3, <3>2 DEF IInv, TokenCovers, PageComplete, PageCovers
  <2> QED
    BY <2>1, <2>2, <2>3
<1>10. CASE save
  <2>1. /\ pc = "save" /\ pc' = "list" /\ UNCHANGED <<old, tok, err>>
        /\ saved' = saved \/ saved' = tok
    BY <1>10 DEF save, storeVars
  <2>2. SavedCovers' /\ TokenCovers'
    BY <2>1 DEF IInv, SavedCovers, TokenCovers, Covers
  <2> QED
    BY <1>1, <1>2, <1>4, <2>1, <2>2 DEF IInv, PageComplete, PageCovers
<1>11. ASSUME NEW w \in Workers, take(w) PROVE IInv'
  <2>1. PICK k \in chunk : /\ chunk' = chunk \ {k}
                           /\ wpc' = [wpc EXCEPT ![w] = "put"]
                           /\ wkey' = [wkey EXCEPT ![w] = k]
    BY <1>11 DEF take
  <2>2. wpc[w] = "idle" /\ UNCHANGED <<saved, pc, err, tok, page, last, more, errs>>
    BY <1>11 DEF take, svmVars
  <2>3. InHand \subseteq InHand'
    <3> SUFFICES ASSUME NEW j \in InHand PROVE j \in InHand'
      OBVIOUS
    <3>1. CASE j = k
      BY <1>1, <2>1, <3>1 DEF InHand, TypeOK
    <3>2. CASE j \in chunk \ {k}
      BY <2>1, <3>2 DEF InHand
    <3>3. CASE \E x \in Workers : wpc[x] # "idle" /\ j = wkey[x]
      <4>1. PICK x \in Workers : wpc[x] # "idle" /\ j = wkey[x]
        BY <3>3
      <4>2. wpc'[x] # "idle" /\ wkey'[x] = j
        BY <1>1, <2>1, <2>2, <4>1 DEF TypeOK
      <4> QED
        BY <4>2 DEF InHand
    <3> QED
      BY <3>1, <3>2, <3>3 DEF InHand
  <2> QED
    BY <1>5, <2>2, <2>3
\* A worker that finishes an item without an error has taken its key out of old.
<1>12. ASSUME NEW w \in Workers, UNCHANGED <<chunk, wkey>>,
              \A x \in Workers \ {w} : wpc'[x] = wpc[x],
              wpc'[w] # "idle" \/ wkey[w] \notin old'
       PROVE  \A k \in old' : k \in InHand => k \in InHand'
  BY <1>12 DEF InHand
<1>13. ASSUME NEW w \in Workers, get(w) PROVE IInv'
  <2>1. /\ UNCHANGED <<saved, pc, err, tok, chunk, page, last, more, errs, old, wkey>>
        /\ \A x \in Workers \ {w} : wpc'[x] = wpc[x]
        /\ wpc'[w] # "idle" \/ wkey[w] \notin present
    BY <1>1, <1>13 DEF get, ItemDone, TypeOK, svmVars, pageVars, storeVars
  <2> QED
    BY <1>2, <1>5, <1>12, <2>1 DEF OldPresent
<1>14. ASSUME NEW w \in Workers, put(w) PROVE IInv'
  <2>1. /\ UNCHANGED <<saved, pc, err, tok, chunk, page, last, more, errs, wkey>>
        /\ \A x \in Workers \ {w} : wpc'[x] = wpc[x]
    BY <1>1, <1>14 DEF put, ItemDone, Retry, TypeOK, svmVars, pageVars
  <2>2. wpc'[w] # "idle" \/ wkey[w] \notin old'
    BY <1>1, <1>2, <1>14 DEF put, ItemDone, Retry, Store, TypeOK, OldPresent, storeVars
  <2> QED
    BY <1>5, <1>12, <2>1, <2>2
<1>15. ASSUME NEW w \in Workers, NEW e \in Error, callFails(w, e) PROVE IInv'
  <2>1. /\ UNCHANGED <<saved, pc, err, tok, chunk, page, last, more, wkey>>
        /\ \A x \in Workers \ {w} : wpc'[x] = wpc[x]
        /\ ~errs' => ~errs /\ wpc'[w] # "idle"
    BY <1>1, <1>15 DEF callFails, ItemDone, Retry, TypeOK, svmVars
  <2> QED
    BY <1>5, <1>12, <2>1
<1>16. ASSUME NEW k \in Keys, clientWrite(k) \/ clientDelete(k) PROVE IInv'
  <2>1. UNCHANGED <<saved, pc, err, tok, page, last, more, errs, chunk, wpc, wkey>>
    BY <1>16 DEF clientWrite, clientDelete, svmVars, pageVars, workerVars
  <2> QED
    BY <1>5, <2>1 DEF InHand
<1>17. CASE deleteMigration \/ UNCHANGED vars
  <2>1. UNCHANGED <<saved, pc, err, tok, page, last, more, errs, chunk, wpc, wkey>>
    BY <1>17 DEF deleteMigration, vars, svmVars, pageVars, workerVars
  <2> QED
    BY <1>5, <2>1 DEF InHand
<1>18. CASE restart
  BY <1>1, <1>2, <1>3, <1>4, <1>18
  DEF restart, svmVars, IInv, TokenCovers, PageComplete, PageCovers
<1> QED
  BY <1>6, <1>7, <1>8, <1>9, <1>10, <1>11, <1>13, <1>14, <1>15, <1>16, <1>17, <1>18
  DEF Next, RunStep, workerStep, Environment, Returned

\* When Run returns nil, every object that exists has been written since the
\* migration was created, for any number of objects, page size and concurrency
\* and whatever fails on the way.
THEOREM NothingSkipped == Spec => []SucceededMeansMigrated
<1>1. IInv => SucceededMeansMigrated
  BY DEF IInv, NilMeansDone, SucceededMeansMigrated
<1> QED
  BY <1>1, InitInv, NextInv, PTL DEF Spec

\* The saved continue token never runs ahead of the work.
THEOREM RestartSkipsNothing == Spec => []SavedTokenSound
<1>1. IInv => SavedTokenSound
  BY DEF IInv, SavedCovers, Covers, SavedTokenSound
<1> QED
  BY <1>1, InitInv, NextInv, PTL DEF Spec

-----------------------------------------------------------------------------
(***************************************************************************)
(* The migrator undoes no write of another client.                         *)
(*                                                                         *)
(* Every write gives a key a higher resourceVersion.  So a copy with the   *)
(* resourceVersion r of key k, from whatever list or GET, either is older  *)
(* than the stored object, and then its PUT conflicts, or has its contents.*)
(***************************************************************************)
Fresh(r, v, k) == r <= rv[k] /\ (r = rv[k] => v = val[k])
SnapshotFresh(s) == \A k \in Keys : Fresh(s.rv[k], s.val[k], k)
TokenFresh(t) == t.snap = Latest \/ SnapshotFresh(t.snap)

CopiesFresh == \A w \in Workers : wpc[w] = "put" => Fresh(wcopy[w].rv, wcopy[w].val, wkey[w])

VersionInv ==
  /\ TypeOK
  /\ TokenFresh(saved) /\ TokenFresh(tok) /\ CopiesFresh
  /\ SnapshotFresh(page) /\ SnapshotFresh(NoSnapshot)

\* Contents change only together with the resourceVersion, which only grows.
LEMMA VersionsGrow ==
  ASSUME TypeOK, [Next]_vars
  PROVE  \A k \in Keys : rv'[k] >= rv[k] /\ (rv'[k] = rv[k] => val'[k] = val[k])
<1> DEFINE P == \A k \in Keys : rv'[k] >= rv[k] /\ (rv'[k] = rv[k] => val'[k] = val[k])
<1>1. ASSUME NEW j \in Keys, NEW v, Store(j, v) PROVE P
  BY <1>1 DEF Store, TypeOK
<1>2. ASSUME UNCHANGED <<rv, val>> PROVE P
  BY <1>2 DEF TypeOK
<1>3. CASE RunStep
  BY <1>2, <1>3 DEF RunStep, load, list, listFails, migrateListReturns, save, storeVars
<1>4. ASSUME NEW w \in Workers, workerStep(w) PROVE P
  <2>1. UNCHANGED <<rv, val>> \/ (wkey[w] \in Keys /\ Store(wkey[w], wcopy[w].val))
    BY <1>4 DEF workerStep, take, get, put, callFails, storeVars, TypeOK
  <2> QED
    BY <1>1, <1>2, <2>1
<1>5. CASE Environment
  BY <1>1, <1>2, <1>5
  DEF Environment, clientWrite, clientDelete, deleteMigration, restart, storeVars
<1>6. CASE UNCHANGED vars
  BY <1>2, <1>6 DEF vars, storeVars
<1> QED
  BY <1>3, <1>4, <1>5, <1>6 DEF Next, Returned

\* The invariant about copies holds initially ...
LEMMA InitVersionInv == Init => VersionInv
<1> SUFFICES ASSUME Init PROVE VersionInv
  OBVIOUS
<1>1. TypeOK
  BY InitType
<1>2. SnapshotFresh(page) /\ page = NoSnapshot
  BY <1>1 DEF Init, SnapshotFresh, Fresh, NoSnapshot
<1>3. CopiesFresh
  BY DEF Init, CopiesFresh
<1> QED
  BY <1>1, <1>2, <1>3 DEF Init, VersionInv, TokenFresh, EmptyToken

\* ... and every step keeps it.
LEMMA NextVersionInv == VersionInv /\ [Next]_vars => VersionInv'
<1> SUFFICES ASSUME VersionInv, [Next]_vars PROVE VersionInv'
  OBVIOUS
<1>1. TypeOK /\ TypeOK'
  BY NextType DEF VersionInv
\* What is fresh stays fresh.
<1>2. ASSUME NEW r \in Nat, NEW v, NEW k \in Keys, Fresh(r, v, k)
      PROVE  r <= rv'[k] /\ (r = rv'[k] => v = val'[k])
  <2>1. rv[k] \in Nat /\ rv'[k] \in Nat
    BY <1>1 DEF TypeOK
  <2> QED
    BY <1>1, <1>2, <2>1, VersionsGrow DEF Fresh
<1>3. ASSUME NEW s \in Snapshot, SnapshotFresh(s)
      PROVE  \A k \in Keys : s.rv[k] <= rv'[k] /\ (s.rv[k] = rv'[k] => s.val[k] = val'[k])
  BY <1>2, <1>3 DEF SnapshotFresh, Snapshot
<1>4. SnapshotFresh(Current)
  BY <1>1 DEF SnapshotFresh, Fresh, Current, TypeOK
\* Where the snapshots, the tokens and the copies of the next state come from.
<1>5. ASSUME page' = page \/ page' = Current \/ page' = NoSnapshot
             \/ (tok.snap # Latest /\ page' = tok.snap)
      PROVE  SnapshotFresh(page)'
  <2>1. page' \in Snapshot /\ SnapshotFresh(page')
    BY <1>1, <1>4, <1>5 DEF VersionInv, TokenFresh, TypeOK
  <2> QED
    BY <1>3, <2>1 DEF SnapshotFresh, Fresh
<1>6. ASSUME tok'.snap \in {Latest, tok.snap, saved.snap, page}
      PROVE  TokenFresh(tok)'
  <2>1. tok'.snap # Latest => tok'.snap \in Snapshot /\ SnapshotFresh(tok'.snap)
    BY <1>1, <1>6 DEF VersionInv, TokenFresh, TypeOK, Token
  <2> QED
    BY <1>3, <2>1 DEF TokenFresh, SnapshotFresh, Fresh
<1>7. ASSUME saved' = saved \/ saved' = tok
      PROVE  TokenFresh(saved)'
  <2>1. saved'.snap # Latest => saved'.snap \in Snapshot /\ SnapshotFresh(saved'.snap)
    BY <1>1, <1>7 DEF VersionInv, TokenFresh, TypeOK, Token
  <2> QED
    BY <1>3, <2>1 DEF TokenFresh, SnapshotFresh, Fresh
<1>8. ASSUME \A w \in Workers :
               wpc'[w] = "put" =>
                 \/ wpc[w] = "put" /\ wkey'[w] = wkey[w] /\ wcopy'[w] = wcopy[w]
                 \/ wcopy'[w] = CopyOf(page, wkey'[w])
                 \/ wcopy'[w] = CopyOf(Current, wkey'[w])
      PROVE  CopiesFresh'
  <2> SUFFICES ASSUME NEW w \in Workers, wpc'[w] = "put"
               PROVE  Fresh(wcopy[w].rv, wcopy[w].val, wkey[w])'
    BY DEF CopiesFresh
  <2>1. wkey'[w] \in Keys /\ wcopy'[w] \in Copy
    BY <1>1 DEF TypeOK
  <2>2. Fresh(wcopy'[w].rv, wcopy'[w].val, wkey'[w])
    <3>1. ASSUME NEW s, SnapshotFresh(s), wcopy'[w] = CopyOf(s, wkey'[w])
          PROVE  Fresh(wcopy'[w].rv, wcopy'[w].val, wkey'[w])
      BY <2>1, <3>1 DEF SnapshotFresh, CopyOf
    <3>2. ASSUME wpc[w] = "put", wkey'[w] = wkey[w], wcopy'[w] = wcopy[w]
          PROVE  Fresh(wcopy'[w].rv, wcopy'[w].val, wkey'[w])
      BY <3>2 DEF VersionInv, CopiesFresh
    <3> QED
      BY <1>4, <1>8, <3>1, <3>2 DEF VersionInv
  <2> QED
    BY <1>2, <2>1, <2>2 DEF Fresh, Copy
<1>9. SnapshotFresh(NoSnapshot)'
  <2>1. NoSnapshot' = NoSnapshot
    BY DEF NoSnapshot
  <2> QED
    BY <1>3, <2>1, NoSnapshotType DEF VersionInv, SnapshotFresh, Fresh
<1>10. CASE load
  <2>1. tok' \in {tok, saved} /\ UNCHANGED <<saved, page, wpc, wkey, wcopy>>
    BY <1>10 DEF load, svmVars, pageVars, workerVars
  <2> QED
    BY <1>1, <1>5, <1>6, <1>7, <1>8, <1>9, <2>1 DEF VersionInv
<1>11. CASE list
  <2>1. /\ UNCHANGED <<tok, saved, wpc, wkey, wcopy>>
        /\ page' = IF tok.snap = Latest THEN Current ELSE tok.snap
    BY <1>11 DEF list, svmVars, workerVars
  <2> QED
    BY <1>1, <1>5, <1>6, <1>7, <1>8, <1>9, <2>1 DEF VersionInv
<1>12. CASE (\E e \in Error : listFails(e)) \/ migrateListReturns \/ save
  <2>1. /\ UNCHANGED <<page, wpc, wkey, wcopy>>
        /\ saved' = saved \/ saved' = tok
        /\ \/ tok' \in {tok, [tok EXCEPT !.snap = Latest]}
           \/ tok' = [pos |-> last, snap |-> page]
    BY <1>12 DEF listFails, migrateListReturns, save, svmVars, pageVars, workerVars
  <2>2. tok'.snap \in {Latest, tok.snap, page}
    BY <1>1, <2>1 DEF TypeOK, Token
  <2> QED
    BY <1>1, <1>5, <1>6, <1>7, <1>8, <1>9, <2>1, <2>2 DEF VersionInv
<1>13. ASSUME NEW w \in Workers, workerStep(w) PROVE VersionInv'
  <2>1. /\ UNCHANGED <<saved, tok, page>>
        /\ \A x \in Workers \ {w} :
             wpc'[x] = wpc[x] /\ wkey'[x] = wkey[x] /\ wcopy'[x] = wcopy[x]
    BY <1>1, <1>13
    DEF workerStep, take, get, put, callFails, ItemDone, Retry, TypeOK, svmVars, pageVars
  <2>2. wpc'[w] = "put" => wcopy'[w] \in {CopyOf(page, wkey'[w]), CopyOf(Current, wkey'[w])}
    BY <1>1, <1>13
    DEF workerStep, take, get, put, callFails, ItemDone, Retry, TypeOK
  <2> QED
    BY <1>1, <1>5, <1>6, <1>7, <1>8, <1>9, <2>1, <2>2 DEF VersionInv
<1>14. CASE restart
  <2>1. /\ saved' = saved /\ tok' = EmptyToken /\ page' = NoSnapshot
        /\ \A w \in Workers : wpc'[w] # "put"
    BY <1>14 DEF restart, svmVars
  <2> QED
    BY <1>1, <1>5, <1>6, <1>7, <1>8, <1>9, <2>1 DEF VersionInv, EmptyToken
<1>15. CASE \/ \E k \in Keys : clientWrite(k) \/ clientDelete(k)
            \/ deleteMigration \/ UNCHANGED vars
  <2>1. UNCHANGED <<saved, tok, page, wpc, wkey, wcopy>>
    BY <1>15
    DEF clientWrite, clientDelete, deleteMigration, vars, svmVars, pageVars, workerVars
  <2> QED
    BY <1>1, <1>5, <1>6, <1>7, <1>8, <1>9, <2>1 DEF VersionInv
<1> QED
  BY <1>10, <1>11, <1>12, <1>13, <1>14, <1>15 DEF Next, RunStep, Environment, Returned

\* The contents of an object change only when another client writes it.
LEMMA OnlyClientsChangeContents ==
  ASSUME VersionInv, [Next]_vars, NEW k \in Keys, val'[k] # val[k]
  PROVE  clientWrite(k)
<1>1. TypeOK
  BY DEF VersionInv
<1>2. CASE RunStep \/ UNCHANGED vars \/ deleteMigration \/ restart
  BY <1>2
  DEF RunStep, load, list, listFails, migrateListReturns, save, vars, storeVars,
      deleteMigration, restart
<1>3. ASSUME NEW w \in Workers, workerStep(w) PROVE FALSE
  <2>1. \/ UNCHANGED val
        \/ /\ wpc[w] = "put" /\ wcopy[w].rv = rv[wkey[w]]
           /\ val' = [val EXCEPT ![wkey[w]] = wcopy[w].val]
    BY <1>3 DEF workerStep, take, get, put, callFails, Store, storeVars
  <2>2. wpc[w] = "put" /\ wcopy[w].rv = rv[wkey[w]] => wcopy[w].val = val[wkey[w]]
    BY DEF VersionInv, CopiesFresh, Fresh
  <2> QED
    BY <1>1, <2>1, <2>2 DEF TypeOK
<1>4. ASSUME NEW j \in Keys, clientWrite(j) PROVE clientWrite(k)
  BY <1>1, <1>4 DEF clientWrite, Store, TypeOK
<1>5. ASSUME NEW j \in Keys, clientDelete(j) PROVE FALSE
  BY <1>5 DEF clientDelete
<1> QED
  BY <1>2, <1>3, <1>4, <1>5 DEF Next, Environment, Returned

\* Writing every object back never undoes the write of another client.
THEOREM NothingUndone == Spec => NoLostUpdate
<1>1. VersionInv /\ [Next]_vars => [\A k \in Keys : val'[k] # val[k] => clientWrite(k)]_vars
  BY OnlyClientsChangeContents
<1> QED
  BY <1>1, InitVersionInv, NextVersionInv, PTL DEF Spec, NoLostUpdate

-----------------------------------------------------------------------------
(***************************************************************************)
(* One call of Run implements StorageMigration.                            *)
(*                                                                         *)
(* The refinement needs both invariants above.  It also needs of TypeOK    *)
(* that no worker is at work unless migrateList waits for it: a write of a *)
(* worker that outlived Run would be nobody's.                             *)
(***************************************************************************)
RInv == IInv /\ VersionInv

\* RInv holds initially, in an initial state of StorageMigration ...
LEMMA InitRefinement == Init => RInv /\ M!Init
BY InitInv, InitVersionInv DEF Init, RInv, M!Init

\* ... and every step keeps it.
LEMMA NextRefinement == RInv /\ [Next]_vars => RInv'
BY NextInv, NextVersionInv DEF RInv, IInv

\* A PUT that the API server takes has the object encoded and changes nothing else.
LEMMA PutEncodes ==
  ASSUME RInv, NEW w \in Workers, wpc[w] = "put", wkey[w] \in present,
         wcopy[w].rv = rv[wkey[w]], Store(wkey[w], wcopy[w].val), UNCHANGED err
  PROVE  M!Encode(wkey[w])
<1>1. TypeOK /\ err = "none"
  BY DEF RInv, IInv, TypeOK
<1>2. wcopy[w].val = val[wkey[w]]
  BY DEF RInv, VersionInv, CopiesFresh, Fresh
<1>3. val' = val /\ present' = present
  BY <1>1, <1>2 DEF Store, TypeOK
<1> QED
  BY <1>1, <1>3 DEF Store, M!Encode

\* Every step of the migrator or its environment is a step of StorageMigration or
\* does not show.
LEMMA StepKeepsPromise == RInv /\ [Next]_vars => [M!Next]_(M!vars)
<1> SUFFICES ASSUME RInv, [Next]_vars PROVE [M!Next]_(M!vars)
  OBVIOUS
<1>0. TypeOK /\ (pc = "returned" <=> err # "none")
  BY DEF RInv, IInv, TypeOK
<1>1. ASSUME UNCHANGED storeVars, UNCHANGED err PROVE UNCHANGED M!vars
  BY <1>1 DEF storeVars, M!vars
<1>2. ASSUME UNCHANGED storeVars, pc # "returned", Return("error") PROVE M!Next
  BY <1>0, <1>2 DEF storeVars, Return, M!Next, M!Return
<1>3. CASE load
  BY <1>1, <1>2, <1>3 DEF load
<1>4. CASE list \/ save
  BY <1>1, <1>4 DEF list, save
<1>5. ASSUME NEW e \in Error, listFails(e) PROVE [M!Next]_(M!vars)
  BY <1>1, <1>2, <1>5 DEF listFails
<1>6. CASE migrateListReturns
  <2>1. CASE ~errs /\ ~more /\ Return("nil")
    <3>1. err' = "nil" /\ UNCHANGED storeVars
      BY <1>6, <2>1 DEF migrateListReturns, Return
    <3>2. IInv'
      BY NextInv DEF RInv
    <3>3. old = {} /\ err = "none"
      BY <1>0, <1>6, <3>1, <3>2 DEF migrateListReturns, IInv, NilMeansDone, storeVars
    <3> QED
      BY <3>1, <3>3 DEF storeVars, M!Next, M!Return
  <2> QED
    BY <1>1, <1>2, <1>6, <2>1 DEF migrateListReturns
<1>7. ASSUME NEW w \in Workers, workerStep(w) PROVE [M!Next]_(M!vars)
  <2>1. UNCHANGED err /\ (wpc[w] # "idle" => wkey[w] \in Keys)
    BY <1>0, <1>7 DEF workerStep, take, get, put, callFails, TypeOK
  <2>2. \/ UNCHANGED storeVars
        \/ /\ wpc[w] = "put" /\ wkey[w] \in present /\ wcopy[w].rv = rv[wkey[w]]
           /\ Store(wkey[w], wcopy[w].val)
    BY <1>7 DEF workerStep, take, get, put, callFails
  <2> QED
    BY <1>1, <2>1, <2>2, PutEncodes DEF M!Next
<1>8. ASSUME NEW k \in Keys, clientWrite(k) PROVE M!Next
  BY <1>8 DEF clientWrite, Store, M!Next, M!Write
<1>9. ASSUME NEW k \in Keys, clientDelete(k) PROVE M!Next
  BY <1>9 DEF clientDelete, M!Next, M!Delete
<1>10. CASE deleteMigration \/ UNCHANGED vars
  BY <1>1, <1>10 DEF deleteMigration, vars
<1>11. CASE restart
  BY <1>11 DEF restart, storeVars, M!Next, M!RunAgain
<1> QED
  BY <1>3, <1>4, <1>5, <1>6, <1>7, <1>8, <1>9, <1>10, <1>11
  DEF Next, RunStep, Environment, Returned

\* Run, with any number of objects, any page size and any set of workers, keeps the
\* promise its caller relies on.
THEOREM ImplementsStorageMigration == Spec => KeepsPromise
BY InitRefinement, NextRefinement, StepKeepsPromise, PTL DEF Spec, KeepsPromise, M!Spec
=============================================================================
