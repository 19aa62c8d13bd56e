------------------------- MODULE KubeMigratorProofs -------------------------
(***************************************************************************)
(* Proofs about KubeMigrator, for any number of migrations, replicas (where*)
(* nothing else is said), attempts, pages and faults.                      *)
(*                                                                         *)
(* The refinement of MigrationLifecycle rests on what is known of the      *)
(* object while a replica is between two of its calls (Phase): only the    *)
(* replica itself sets one of the three known conditions, so the object    *)
(* that a retry finds is in the state in which the replica left it.  With a*)
(* second replica that is wrong, and so is the refinement.                 *)
(***************************************************************************)
EXTENDS KubeMigrator, TLAPS

Updating(r) == pc[r] \in {"put", "refresh"}
Holding(r)  == pc[r] \in {"put", "refresh", "run"}
Held(r)     == svm[name[r]]

\* updateStatus has an attempt left whenever it makes one.
TriesLeft == \A r \in Migrators : Updating(r) => tries[r] > 0
TypeInv == TypeOK /\ TriesLeft

\* The outcome that updateStatus is to write is that of a Run.
OwnOutcome == \A r \in Migrators : Updating(r) /\ cond[r] = "Succeeded" => name[r] \in ran

\* The object a replica holds is an earlier one, or has the conditions of the current.
HeldCurrent ==
  \A r \in Migrators : Holding(r) =>
    /\ m[r].rv <= Held(r).rv
    /\ Held(r).live /\ m[r].rv = Held(r).rv => m[r].conds = Held(r).conds

\* The known conditions of an object.
KnownConds(o) == o.conds \cap Known

\* What a replica knows of its migration if there is no other replica.
Phase ==
  \A r \in Migrators : Held(r).live =>
    /\ Updating(r) /\ cond[r] = "Running" => KnownConds(Held(r)) \in {{}, {"Running"}}
    /\ pc[r] = "run" => KnownConds(Held(r)) = {"Running"}
    /\ Updating(r) /\ cond[r] # "Running" => KnownConds(Held(r)) \in {{"Running"}, {cond[r]}}

\* The object a replica holds has existed, so it is not created again.
HeldExisted == \A r \in Migrators : Holding(r) => Held(r).rv > 0

-----------------------------------------------------------------------------
(***************************************************************************)
(* Type correctness.                                                       *)
(***************************************************************************)
\* TypeInv holds initially ...
LEMMA InitType == Init => TypeInv
BY StepsAssumption, MaxPagesAssumption, EnvBudgetAssumption
DEF Init, TypeInv, TypeOK, TriesLeft, Updating, NoObject, NoCounts, Object, Known, Index

\* A budget that is charged, or left alone, stays in range.
LEMMA Budget ==
  ASSUME TypeOK, Charge \/ UNCHANGED budget
  PROVE  budget' \in 0..EnvBudget
BY EnvBudgetAssumption DEF TypeOK, Charge

\* What the index says of an object.
LEMMA IndexType == \A o : migrationStatusIndexFunc(o) \in Index
BY DEF migrationStatusIndexFunc, Index

\* The writes of the API server keep the type of the objects.
LEMMA WriteType ==
  ASSUME TypeOK, NEW n \in Names,
         \/ Create(n) \/ Delete(n)
         \/ \E k \in 0..MaxPages : Update(n, k)
         \/ \E conds \in SUBSET Condition : UpdateStatus(n, conds)
  PROVE  svm' \in [Names -> Object]
<1> USE DEF TypeOK
<1>1. svm[n] \in Object
  OBVIOUS
<1>2. ASSUME NEW token \in 0..MaxPages, NEW conds \in SUBSET Condition, Write(n, token, conds)
      PROVE  svm' \in [Names -> Object]
  <2>1. [live |-> TRUE, rv |-> svm[n].rv + 1, token |-> token, conds |-> conds] \in Object
    BY <1>1 DEF Object
  <2> QED
    BY <1>2, <2>1 DEF Write
<1>3. CASE Delete(n)
  <2>1. [live |-> FALSE, rv |-> svm[n].rv, token |-> 0, conds |-> {}] \in Object
    BY <1>1, MaxPagesAssumption DEF Object
  <2> QED
    BY <1>3, <2>1 DEF Delete
<1> QED
  BY <1>1, <1>2, <1>3, MaxPagesAssumption DEF Create, Update, UpdateStatus, Object

PcType == pc \in [Migrators -> {"idle", "get", "put", "refresh", "run"}]

\* A call of updateStatus has all its attempts.
LEMMA StartUpdateType ==
  ASSUME TypeOK, TriesLeft, NEW r \in Migrators, NEW c \in Known, StartUpdate(r, c)
  PROVE  PcType' /\ cond' \in [Migrators -> Known] /\ tries' \in [Migrators -> 0..Steps]
         /\ TriesLeft'
BY StepsAssumption DEF TypeOK, TriesLeft, Updating, StartUpdate, Goto, PcType

\* Another step that leaves updateStatus, or makes no new attempt.
LEMMA GotoType ==
  ASSUME TypeOK, TriesLeft, NEW r \in Migrators,
         NEW where \in {"idle", "get", "put", "refresh", "run"}, Goto(r, where),
         tries' \in [Migrators -> 0..Steps],
         \A q \in Migrators \ {r} : tries'[q] = tries[q],
         where \in {"put", "refresh"} => tries'[r] > 0
  PROVE  PcType' /\ TriesLeft'
BY DEF TypeOK, TriesLeft, Updating, Goto, PcType

\* A migration is counted.
LEMMA ObserveType ==
  ASSUME TypeOK, NEW r \in Migrators, Observe(r)
  PROVE  migrations' \in [Migrators -> [Names -> Nat]]
<1>1. migrations \in [Migrators -> [Names -> Nat]] /\ name[r] \in Names
  BY DEF TypeOK
<1> DEFINE count == [migrations[r] EXCEPT ![name[r]] = migrations[r][name[r]] + 1]
<1>2. migrations[r] \in [Names -> Nat] /\ migrations[r][name[r]] + 1 \in Nat
  BY <1>1
<1>3. count \in [Names -> Nat]
  BY <1>2
<1>4. migrations' = [migrations EXCEPT ![r] = count]
  BY DEF Observe
<1> QED
  BY <1>1, <1>3, <1>4

\* Every step keeps TypeInv.
LEMMA NextType == TypeInv /\ [Next]_vars => TypeInv'
<1> SUFFICES ASSUME TypeInv, [Next]_vars PROVE TypeInv'
  OBVIOUS
<1> USE StepsAssumption
<1>0. TypeOK /\ TriesLeft
  BY DEF TypeInv
<1>1. ASSUME NEW r \in Migrators, NEW n \in Names, process(r, n) PROVE TypeInv'
  BY <1>0, <1>1 DEF process, Goto, TypeInv, TypeOK, TriesLeft, Updating
<1>2. ASSUME NEW r \in Migrators, processOne(r) PROVE TypeInv'
  <2>1. Get(name[r]) \in Object
    BY <1>0 DEF TypeOK, Get
  <2>2. budget' \in 0..EnvBudget
    BY <1>0, <1>2, Budget DEF processOne
  <2> QED
    <3>1. PcType' /\ cond' \in [Migrators -> Known] /\ tries' \in [Migrators -> 0..Steps]
          /\ TriesLeft'
      <4>1. CASE StartUpdate(r, "Running")
        BY <1>0, <4>1, StartUpdateType DEF Known
      <4>2. CASE Goto(r, "idle") /\ UNCHANGED <<cond, tries>>
        BY <1>0, <4>2, GotoType DEF TypeOK
      <4> QED
        BY <1>2, <4>1, <4>2 DEF processOne
    <3>2. m' \in [Migrators -> Object]
      BY <1>0, <1>2, <2>1 DEF processOne, TypeOK
    <3> QED
      BY <1>0, <1>2, <2>2, <3>1, <3>2 DEF processOne, TypeInv, TypeOK, PcType
<1>3. ASSUME NEW r \in Migrators, save(r) PROVE TypeInv'
  <2>1. svm' \in [Names -> Object]
    <3>1. name[r] \in Names /\ svm[name[r]] \in Object
      BY <1>0 DEF TypeOK
    <3>2. svm[name[r]].token + 1 \in 0..MaxPages
      BY <1>3, <3>1, MaxPagesAssumption DEF save, Get, Object
    <3> QED
      BY <1>0, <1>3, <3>1, <3>2, WriteType DEF save, Get
  <2> QED
    BY <1>0, <1>3, <2>1 DEF save, replicaVars, TypeInv, TypeOK, TriesLeft, Updating
<1>4. ASSUME NEW r \in Migrators, runReturns(r) PROVE TypeInv'
  <2>1. budget' \in 0..EnvBudget
    BY <1>0, <1>4, Budget DEF runReturns
  <2> QED
    <3>1. PcType' /\ cond' \in [Migrators -> Known] /\ tries' \in [Migrators -> 0..Steps]
          /\ TriesLeft'
      BY <1>0, <1>4, StartUpdateType DEF runReturns, Known
    <3>2. ran' \in SUBSET Names
      BY <1>0, <1>4 DEF runReturns, TypeOK
    <3> QED
      BY <1>0, <1>4, <2>1, <3>1, <3>2 DEF runReturns, TypeInv, TypeOK, PcType
<1>5. ASSUME NEW r \in Migrators, putStatus(r) PROVE TypeInv'
  <2>1. newConditions(m[r], cond[r]) \in SUBSET Condition
    BY <1>0 DEF newConditions, TypeOK, Object, Condition, Known
  <2>2. svm' \in [Names -> Object]
    BY <1>0, <1>5, <2>1, WriteType DEF putStatus, TypeOK
  <2>3. budget' \in 0..EnvBudget
    BY <1>0, <1>5, Budget DEF putStatus
  <2>4. migrations' \in [Migrators -> [Names -> Nat]]
    <3>1. migrations' = migrations \/ Observe(r)
      BY <1>5 DEF putStatus, UpdateDone
    <3> QED
      BY <1>0, <3>1, ObserveType DEF TypeOK
  <2>5. PcType' /\ TriesLeft'
    <3>1. tries' = tries /\ tries[r] > 0 /\ \E where \in {"run", "idle", "refresh"} : Goto(r, where)
      BY <1>0, <1>5 DEF putStatus, UpdateDone, Observe, TriesLeft, Updating
    <3> QED
      BY <1>0, <3>1, GotoType DEF TypeOK
  <2> QED
    BY <1>0, <1>5, <2>2, <2>3, <2>4, <2>5 DEF putStatus, TypeInv, TypeOK, PcType
<1>6. ASSUME NEW r \in Migrators, refresh(r) PROVE TypeInv'
  <2>1. m' \in [Migrators -> Object]
    BY <1>0, <1>6 DEF refresh, Get, TypeOK
  <2>2. budget' \in 0..EnvBudget
    BY <1>0, <1>6, Budget DEF refresh
  <2>3. tries[r] \in 1..Steps
    BY <1>0, <1>6 DEF refresh, TypeOK, TriesLeft, Updating
  <2>4. tries' \in [Migrators -> 0..Steps]
    BY <1>0, <1>6, <2>3 DEF refresh, TypeOK
  <2>5. migrations' \in [Migrators -> [Names -> Nat]]
    <3>1. migrations' = migrations \/ Observe(r)
      BY <1>6 DEF refresh, GiveUp
    <3> QED
      BY <1>0, <3>1, ObserveType DEF TypeOK
  <2>6. PcType' /\ TriesLeft'
    <3>1. Goto(r, "idle") \/ (Goto(r, "put") /\ tries[r] > 1)
      BY <1>6 DEF refresh, GiveUp, Observe
    <3>2. tries'[r] = tries[r] - 1 /\ \A q \in Migrators \ {r} : tries'[q] = tries[q]
      BY <1>0, <1>6 DEF refresh, TypeOK
    <3>3. tries[r] > 1 => tries'[r] > 0
      BY <2>3, <3>2
    <3> QED
      BY <1>0, <2>4, <3>1, <3>2, <3>3, GotoType
  <2> QED
    BY <1>0, <1>6, <2>1, <2>2, <2>4, <2>5, <2>6 DEF refresh, TypeInv, TypeOK, PcType
<1>7. ASSUME NEW r \in Migrators, NEW n \in Names, deliver(r, n) PROVE TypeInv'
  <2>1. List[n] \in Index
    BY IndexType DEF List
  <2> QED
    BY <1>0, <1>7, <2>1 DEF deliver, TypeInv, TypeOK, TriesLeft, Updating
<1>8. ASSUME NEW r \in Migrators, restart(r) PROVE TypeInv'
  <2>1. List \in [Names -> Index]
    BY IndexType DEF List
  <2>2. budget' \in 0..EnvBudget
    BY <1>0, <1>8, Budget DEF restart
  <2> QED
    BY <1>0, <1>8, <2>1, <2>2
    DEF restart, Goto, NoCounts, TypeInv, TypeOK, TriesLeft, Updating
<1>9. ASSUME NEW n \in Names, createMigration(n) \/ deleteMigration(n) \/ addCondition(n)
      PROVE  TypeInv'
  <2>1. svm[n].conds \cup {"Other"} \in SUBSET Condition
    BY <1>0 DEF TypeOK, Object, Condition
  <2>2. svm' \in [Names -> Object]
    BY <1>0, <1>9, <2>1, WriteType DEF createMigration, deleteMigration, addCondition
  <2>3. budget' \in 0..EnvBudget
    BY <1>0, <1>9, Budget DEF createMigration, deleteMigration, addCondition
  <2> QED
    BY <1>0, <1>9, <2>2, <2>3 DEF createMigration, deleteMigration, addCondition, replicaVars,
      TypeInv, TypeOK, TriesLeft, Updating
<1>10. CASE UNCHANGED vars
  BY <1>0, <1>10 DEF vars, replicaVars, TypeInv, TypeOK, TriesLeft, Updating
<1> QED
  BY <1>1, <1>2, <1>3, <1>4, <1>5, <1>6, <1>7, <1>8, <1>9, <1>10 DEF Next, MigratorStep, Quiet

\* The variables keep their types: updateStatus makes no more attempts than it may.
THEOREM TypeCorrect == Spec => []TypeOK
<1>1. TypeInv => TypeOK
  BY DEF TypeInv
<1> QED
  BY <1>1, InitType, NextType, PTL DEF Spec

-----------------------------------------------------------------------------
(***************************************************************************)
(* What the writes do to the objects.                                      *)
(***************************************************************************)
\* A write sets the fields of its object and leaves the others alone.
LEMMA Written ==
  ASSUME TypeOK, NEW n \in Names, NEW token, NEW conds, Write(n, token, conds)
  PROVE  /\ svm'[n].live /\ svm'[n].rv = svm[n].rv + 1
         /\ svm'[n].token = token /\ svm'[n].conds = conds
         /\ \A k \in Names \ {n} : svm'[k] = svm[k]
BY DEF TypeOK, Write

\* A deletion clears its object and leaves the others alone.
LEMMA Deleted ==
  ASSUME TypeOK, NEW n \in Names, Delete(n)
  PROVE  /\ ~svm'[n].live /\ svm'[n].rv = svm[n].rv /\ svm'[n].conds = {}
         /\ \A k \in Names \ {n} : svm'[k] = svm[k]
BY DEF TypeOK, Delete

\* The conditions updateStatus writes: its own and the unknown ones.
LEMMA NewConditions ==
  ASSUME TypeOK, NEW r \in Migrators
  PROVE  LET new == newConditions(m[r], cond[r])
         IN  new \cap Known = {cond[r]} /\ ("Other" \in m[r].conds => "Other" \in new)
BY DEF TypeOK, newConditions, Known

\* The four kinds of steps, by what they write: the conditions of a replica, those
\* of another client, something else, or nothing.
Put(r) == /\ pc[r] = "put"
          /\ Accepts(name[r], m[r])
          /\ UpdateStatus(name[r], newConditions(m[r], cond[r]))
LEMMA Writes ==
  ASSUME TypeOK, [Next]_vars
  PROVE  \/ \E r \in Migrators : Put(r) /\ putStatus(r)
         \/ \E n \in Names : addCondition(n)
         \/ \E r \in Migrators : save(r)
         \/ \E n \in Names : createMigration(n) \/ deleteMigration(n)
         \/ UNCHANGED svm
BY DEF Next, MigratorStep, process, processOne, runReturns, putStatus, refresh, deliver, restart,
   Quiet, vars, Put

\* resourceVersions only grow, and stay the same only with the object.
LEMMA Versions ==
  ASSUME TypeOK, [Next]_vars, NEW n \in Names
  PROVE  /\ svm[n].rv <= svm'[n].rv
         /\ svm'[n].live /\ svm'[n].rv = svm[n].rv => svm'[n] = svm[n]
<1>0. svm[n].rv \in Nat /\ \A r \in Migrators : name[r] \in Names
  BY DEF TypeOK, Object
<1>1. ASSUME NEW r \in Migrators, Put(r) \/ save(r) PROVE svm'[n] = svm[n] \/ svm'[n].rv = svm[n].rv + 1
  BY <1>0, <1>1, Written DEF Put, save, Update, UpdateStatus
<1>2. ASSUME NEW k \in Names, addCondition(k) \/ createMigration(k)
      PROVE  svm'[n] = svm[n] \/ svm'[n].rv = svm[n].rv + 1
  BY <1>2, Written DEF addCondition, createMigration, UpdateStatus, Create
<1>3. ASSUME NEW k \in Names, deleteMigration(k)
      PROVE  svm'[n] = svm[n] \/ (svm'[n].rv = svm[n].rv /\ ~svm'[n].live)
  BY <1>3, Deleted DEF deleteMigration
<1> QED
  BY <1>0, <1>1, <1>2, <1>3, Writes

\* A replica goes on with the object it holds, or holds one it has just read.
Keeps(r) == Holding(r) /\ m'[r] = m[r] /\ name'[r] = name[r]
Reads(r) == name'[r] = name[r] /\ m'[r] = svm[name[r]] /\ svm' = svm
LEMMA HeldSteps ==
  ASSUME TypeOK, [Next]_vars, NEW r \in Migrators, Holding(r)'
  PROVE  Keeps(r) \/ Reads(r)
<1> USE DEF TypeOK, Keeps, Reads, Holding
<1>1. ASSUME NEW q \in Migrators, NEW n \in Names, process(q, n) PROVE Keeps(r)
  BY <1>1 DEF process, Goto
<1>2. ASSUME NEW q \in Migrators, processOne(q) PROVE Keeps(r) \/ Reads(r)
  BY <1>2 DEF processOne, StartUpdate, Goto, Get
<1>3. ASSUME NEW q \in Migrators, save(q) \/ runReturns(q) \/ restart(q) PROVE Keeps(r)
  BY <1>3 DEF save, runReturns, restart, StartUpdate, Goto, replicaVars
<1>4. ASSUME NEW q \in Migrators, putStatus(q) PROVE Keeps(r)
  BY <1>4 DEF putStatus, UpdateDone, Observe, Goto
<1>5. ASSUME NEW q \in Migrators, refresh(q) PROVE Keeps(r) \/ Reads(r)
  BY <1>5 DEF refresh, GiveUp, Observe, Goto, Get
<1>6. ASSUME NEW q \in Migrators, NEW n \in Names, deliver(q, n) PROVE Keeps(r)
  BY <1>6 DEF deliver
<1>7. ASSUME NEW n \in Names, createMigration(n) \/ deleteMigration(n) \/ addCondition(n)
      PROVE  Keeps(r)
  BY <1>7 DEF createMigration, deleteMigration, addCondition, replicaVars
<1>8. CASE UNCHANGED vars
  BY <1>8 DEF vars, replicaVars
<1> QED
  BY <1>1, <1>2, <1>3, <1>4, <1>5, <1>6, <1>7, <1>8 DEF Next, MigratorStep, Quiet

\* So what a replica holds is out of date or current.
LEMMA NextHeld == TypeInv /\ HeldCurrent /\ [Next]_vars => HeldCurrent'
<1> SUFFICES ASSUME TypeInv, HeldCurrent, [Next]_vars, NEW r \in Migrators, Holding(r)'
             PROVE  /\ m'[r].rv <= Held(r)'.rv
                    /\ Held(r)'.live /\ m'[r].rv = Held(r)'.rv => m'[r].conds = Held(r)'.conds
  BY DEF HeldCurrent
<1>1. TypeOK /\ TypeOK'
  BY NextType DEF TypeInv
<1>2. /\ name[r] \in Names /\ svm[name[r]].rv \in Nat /\ m[r].rv \in Nat
      /\ svm'[name[r]].rv \in Nat
  BY <1>1 DEF TypeOK, Object
<1>3. CASE Keeps(r)
  BY <1>1, <1>2, <1>3, Versions DEF Keeps, HeldCurrent, Held
<1>4. CASE Reads(r)
  BY <1>2, <1>4 DEF Reads, Held
<1> QED
  BY <1>1, <1>3, <1>4, HeldSteps

\* The outcome to be written stays that of a Run.
LEMMA NextOwn == TypeOK /\ OwnOutcome /\ [Next]_vars => OwnOutcome'
<1> SUFFICES ASSUME TypeOK, OwnOutcome, [Next]_vars PROVE OwnOutcome'
  OBVIOUS
<1> USE DEF TypeOK, OwnOutcome, Updating
<1>1. ASSUME NEW q \in Migrators, NEW n \in Names, process(q, n) PROVE OwnOutcome'
  BY <1>1 DEF process, Goto
<1>2. ASSUME NEW q \in Migrators, processOne(q) PROVE OwnOutcome'
  BY <1>2 DEF processOne, StartUpdate, Goto
<1>3. ASSUME NEW q \in Migrators, save(q) \/ restart(q) PROVE OwnOutcome'
  BY <1>3 DEF save, restart, Goto, replicaVars
<1>4. ASSUME NEW q \in Migrators, runReturns(q) PROVE OwnOutcome'
  BY <1>4 DEF runReturns, StartUpdate, Goto
<1>5. ASSUME NEW q \in Migrators, putStatus(q) PROVE OwnOutcome'
  BY <1>5 DEF putStatus, UpdateDone, Observe, Goto
<1>6. ASSUME NEW q \in Migrators, refresh(q) PROVE OwnOutcome'
  BY <1>6 DEF refresh, GiveUp, Observe, Goto
<1>7. ASSUME NEW q \in Migrators, NEW n \in Names, deliver(q, n) PROVE OwnOutcome'
  BY <1>7 DEF deliver
<1>8. ASSUME NEW n \in Names, createMigration(n) \/ deleteMigration(n) \/ addCondition(n)
      PROVE  OwnOutcome'
  BY <1>8 DEF createMigration, deleteMigration, addCondition, replicaVars
<1>9. CASE UNCHANGED vars
  BY <1>9 DEF vars, replicaVars
<1> QED
  BY <1>1, <1>2, <1>3, <1>4, <1>5, <1>6, <1>7, <1>8, <1>9 DEF Next, MigratorStep, Quiet

-----------------------------------------------------------------------------
(***************************************************************************)
(* The theorems for any number of replicas.                                *)
(***************************************************************************)
\* An object that exists has a resourceVersion.
LiveVersion == \A n \in Names : svm[n].live => svm[n].rv > 0

IInv == TypeInv /\ OwnOutcome /\ HeldCurrent /\ LiveVersion /\ OutcomeIsOwn

\* The inductive invariant holds initially ...
LEMMA InitInv == Init => IInv
<1> SUFFICES ASSUME Init PROVE IInv
  OBVIOUS
<1>1. OwnOutcome /\ HeldCurrent
  BY DEF Init, OwnOutcome, HeldCurrent, Updating, Holding
<1>2. OutcomeIsOwn /\ LiveVersion
  BY DEF Init, OutcomeIsOwn, LiveVersion, HasCondition, NoObject
<1> QED
  BY <1>1, <1>2, InitType DEF IInv

\* ... and every step keeps it.
LEMMA NextInv == IInv /\ [Next]_vars => IInv'
<1> SUFFICES ASSUME IInv, [Next]_vars PROVE IInv'
  OBVIOUS
<1>1. TypeInv' /\ OwnOutcome' /\ HeldCurrent'
  BY NextType, NextOwn, NextHeld DEF IInv, TypeInv
<1>2. TypeOK /\ \A r \in Migrators : name[r] \in Names
  BY DEF IInv, TypeInv, TypeOK
<1>3. ran \subseteq ran'
  BY DEF Next, MigratorStep, process, processOne, save, runReturns, putStatus, refresh, deliver,
     restart, createMigration, deleteMigration, addCondition, Quiet, vars
<1>4. ASSUME NEW n \in Names, HasCondition(svm[n], "Succeeded")' PROVE n \in ran
  <2>1. ASSUME NEW r \in Migrators, Put(r) PROVE n \in ran
    <3>1. CASE n = name[r]
      <4>1. cond[r] = "Succeeded"
        BY <1>2, <1>4, <2>1, <3>1, Written, NewConditions DEF Put, UpdateStatus, HasCondition, Known
      <4> QED
        BY <2>1, <3>1, <4>1 DEF Put, IInv, OwnOutcome, Updating
    <3>2. CASE n # name[r]
      BY <1>2, <1>4, <2>1, <3>2, Written DEF Put, UpdateStatus, HasCondition, IInv, OutcomeIsOwn
    <3> QED
      BY <3>1, <3>2
  <2>2. ASSUME NEW k \in Names, addCondition(k) \/ createMigration(k) \/ deleteMigration(k)
        PROVE  n \in ran
    BY <1>2, <1>4, <2>2, Written, Deleted DEF addCondition, createMigration, deleteMigration,
       UpdateStatus, Create, HasCondition, IInv, OutcomeIsOwn
  <2>3. ASSUME NEW r \in Migrators, save(r) PROVE n \in ran
    BY <1>2, <1>4, <2>3, Written DEF save, Update, HasCondition, IInv, OutcomeIsOwn
  <2>4. CASE UNCHANGED svm
    BY <1>4, <2>4 DEF HasCondition, IInv, OutcomeIsOwn
  <2> QED
    BY <1>2, <2>1, <2>2, <2>3, <2>4, Writes
<1>5. OutcomeIsOwn'
  BY <1>3, <1>4 DEF OutcomeIsOwn
<1>6. ASSUME NEW n \in Names, svm'[n].live PROVE svm'[n].rv > 0
  <2>1. svm[n].rv \in Nat /\ svm'[n].rv \in Nat
    BY <1>1, <1>2 DEF TypeInv, TypeOK, Object
  <2>2. svm[n].rv <= svm'[n].rv /\ (svm'[n].rv = svm[n].rv => svm'[n] = svm[n])
    BY <1>2, <1>6, Versions
  <2> QED
    BY <1>6, <2>1, <2>2 DEF IInv, LiveVersion
<1> QED
  BY <1>1, <1>5, <1>6 DEF IInv, LiveVersion

\* For any number of replicas, a migration is marked Succeeded only if a Run of it
\* returned nil.
THEOREM OutcomesAreOwn == Spec => []OutcomeIsOwn
<1>1. IInv => OutcomeIsOwn
  BY DEF IInv
<1> QED
  BY <1>1, InitInv, NextInv, PTL DEF Spec

\* One step takes back neither saved progress nor a foreign condition.
LEMMA StepTakesNothingBack ==
  ASSUME IInv, [Next]_vars, NEW n \in Names, svm[n].live, svm'[n].live
  PROVE  /\ svm'[n].token >= svm[n].token
         /\ HasCondition(svm[n], "Other") => HasCondition(svm'[n], "Other")
<1>1. TypeOK /\ svm[n].token \in Nat /\ svm[n].rv \in Nat /\ \A r \in Migrators : name[r] \in Names
  BY MaxPagesAssumption DEF IInv, TypeInv, TypeOK, Object
<1> USE DEF HasCondition
<1>2. ASSUME NEW r \in Migrators, Put(r), n = name[r]
      PROVE  svm'[n].token = svm[n].token /\ ("Other" \in svm[n].conds => "Other" \in svm'[n].conds)
  <2>1. m[r].conds = svm[n].conds
    BY <1>2 DEF Put, Accepts, IInv, HeldCurrent, Held, Holding
  <2> QED
    BY <1>1, <1>2, <2>1, Written, NewConditions DEF Put, UpdateStatus
<1>3. ASSUME NEW r \in Migrators, save(r), n = name[r]
      PROVE  svm'[n].token = svm[n].token + 1 /\ svm'[n].conds = svm[n].conds
  BY <1>1, <1>3, Written DEF save, Get, Update
<1>4. ASSUME NEW k \in Names, addCondition(k), n = k
      PROVE  svm'[n].token = svm[n].token /\ "Other" \in svm'[n].conds
  BY <1>1, <1>4, Written DEF addCondition, UpdateStatus
<1>5. CASE svm'[n] = svm[n]
  BY <1>1, <1>5
<1>6. ASSUME NEW k \in Names, createMigration(k) \/ deleteMigration(k) PROVE svm'[n] = svm[n]
  <2>1. svm[n].rv > 0
    BY DEF IInv, LiveVersion
  <2> QED
    BY <1>1, <1>6, <2>1, Written, Deleted DEF createMigration, deleteMigration, Create
<1>7. ASSUME NEW r \in Migrators, Put(r) \/ save(r), n # name[r] PROVE svm'[n] = svm[n]
  BY <1>1, <1>7, Written DEF Put, save, Update, UpdateStatus
<1>8. ASSUME NEW k \in Names, addCondition(k), n # k PROVE svm'[n] = svm[n]
  BY <1>1, <1>8, Written DEF addCondition, UpdateStatus
<1> QED
  BY <1>1, <1>2, <1>3, <1>4, <1>5, <1>6, <1>7, <1>8, Writes

\* For any number of replicas, updateStatus undoes nothing that was written since
\* it read the object.
THEOREM NothingIsTakenBack == Spec => NothingTakenBack
<1>1. IInv /\ [Next]_vars =>
        [\A n \in Names :
           svm[n].live /\ svm'[n].live =>
             /\ svm'[n].token >= svm[n].token
             /\ HasCondition(svm[n], "Other") => HasCondition(svm'[n], "Other")]_vars
  BY StepTakesNothingBack
<1> QED
  BY <1>1, InitInv, NextInv, PTL DEF Spec, NothingTakenBack

-----------------------------------------------------------------------------
(***************************************************************************)
(* One replica implements MigrationLifecycle.                              *)
(***************************************************************************)
LInv == IInv /\ HeldExisted /\ Phase

\* LInv holds initially.
LEMMA InitL == Init => LInv
BY InitInv DEF LInv, Init, HeldExisted, Phase, Held, Holding, Updating, NoObject

\* An object that a replica holds is never one that is still to be created.
LEMMA NextExisted == IInv /\ HeldExisted /\ [Next]_vars => HeldExisted'
<1> SUFFICES ASSUME IInv, HeldExisted, [Next]_vars, NEW r \in Migrators, Holding(r)'
             PROVE  Held(r)'.rv > 0
  BY DEF HeldExisted
<1>1. TypeOK /\ TypeOK'
  BY NextType DEF IInv, TypeInv
<1>2. /\ name[r] \in Names /\ svm[name[r]].rv \in Nat /\ svm'[name[r]].rv \in Nat
      /\ svm[name[r]].rv <= svm'[name[r]].rv
  BY <1>1, Versions DEF TypeOK, Object
<1>3. CASE Holding(r)
  <2>1. name'[r] = name[r]
    BY <1>1, HeldSteps DEF Keeps, Reads
  <2> QED
    BY <1>2, <1>3, <2>1 DEF HeldExisted, Held
<1>4. CASE ~Holding(r)
  <2>1. Reads(r)
    BY <1>1, <1>4, HeldSteps DEF Keeps
  <2>2. processOne(r) /\ svm[name[r]].live
    BY <1>1, <1>4, <2>1 DEF Holding, Next, MigratorStep, process, processOne, save, runReturns,
       putStatus, refresh, deliver, restart, createMigration, deleteMigration, addCondition,
       Quiet, vars, replicaVars, StartUpdate, UpdateDone, GiveUp, Observe, Goto, Get, TypeOK
  <2> QED
    BY <1>2, <2>1, <2>2 DEF Reads, Held, IInv, LiveVersion
<1> QED
  BY <1>3, <1>4

\* There is one replica.
Single == \A q, r \in Migrators : q = r

\* If there is no other replica, a step keeps what a replica knows of its object.
LEMMA NextPhase ==
  ASSUME Single, LInv, [Next]_vars
  PROVE  Phase'
<1> SUFFICES ASSUME NEW r \in Migrators, Held(r)'.live
             PROVE  /\ Updating(r)' /\ cond'[r] = "Running" => KnownConds(Held(r)') \in {{}, {"Running"}}
                    /\ pc'[r] = "run" => KnownConds(Held(r)') = {"Running"}
                    /\ Updating(r)' /\ cond'[r] # "Running" => KnownConds(Held(r)') \in {{"Running"}, {cond'[r]}}
  BY DEF Phase
<1>0. /\ TypeOK /\ name[r] \in Names /\ \A q \in Migrators : q = r
      /\ svm[name[r]] \in Object /\ cond[r] \in Known
  BY DEF Single, LInv, IInv, TypeInv, TypeOK
<1> USE DEF Updating
<1>1. ASSUME NEW q \in Migrators, NEW n \in Names, process(q, n)
      PROVE  pc'[r] = "get"
  BY <1>0, <1>1 DEF process, Goto, TypeOK
<1>2. CASE processOne(r)
  <2>1. CASE /\ svm[name[r]].live /\ ~HasCompleted(svm[name[r]])
             /\ cond'[r] = "Running" /\ pc'[r] = "put" /\ Held(r)' = svm[name[r]]
    BY <1>0, <2>1 DEF HasCompleted, HasCondition, KnownConds, Known
  <2>2. CASE pc'[r] = "idle"
    BY <2>2
  <2> QED
    BY <1>0, <1>2, <2>1, <2>2 DEF processOne, StartUpdate, Goto, Get, Held, TypeOK
<1>3. CASE save(r)
  <2>1. Held(r).live /\ KnownConds(Held(r)') = KnownConds(Held(r))
    BY <1>0, <1>3, Written DEF save, Get, Update, Held, KnownConds, replicaVars
  <2> QED
    BY <1>0, <1>3, <2>1 DEF save, replicaVars, LInv, Phase
<1>4. CASE runReturns(r)
  <2>1. pc[r] = "run" /\ pc'[r] = "put" /\ cond'[r] # "Running" /\ Held(r)' = Held(r)
    BY <1>0, <1>4 DEF runReturns, StartUpdate, Goto, Held, TypeOK
  <2> QED
    BY <1>0, <2>1 DEF LInv, Phase
<1>5. CASE putStatus(r)
  <2>1. CASE Put(r)
    <3>1. KnownConds(Held(r)') = {cond[r]} /\ cond'[r] = cond[r]
      BY <1>0, <1>5, <2>1, Written, NewConditions DEF putStatus, Put, UpdateStatus, Held, KnownConds
    <3>2. pc'[r] = "run" => cond[r] = "Running"
      BY <1>0, <1>5 DEF putStatus, UpdateDone, Observe, Goto, TypeOK
    <3> QED
      BY <3>1, <3>2
  <2>2. CASE ~Put(r)
    <3>1. pc'[r] = "refresh" /\ pc[r] = "put" /\ cond'[r] = cond[r] /\ Held(r)' = Held(r)
      BY <1>0, <1>5, <2>2 DEF putStatus, Put, Goto, Held, TypeOK
    <3> QED
      BY <1>0, <3>1 DEF LInv, Phase
  <2> QED
    BY <2>1, <2>2
<1>6. CASE refresh(r)
  <2>1. pc'[r] \in {"put", "idle"} /\ pc[r] = "refresh" /\ cond'[r] = cond[r] /\ Held(r)' = Held(r)
    BY <1>0, <1>6 DEF refresh, GiveUp, Observe, Goto, Held, TypeOK
  <2> QED
    BY <1>0, <2>1 DEF LInv, Phase
<1>7. ASSUME NEW n \in Names, deliver(r, n) PROVE Held(r)' = Held(r) /\ UNCHANGED <<pc, cond>>
  BY <1>7 DEF deliver, Held
<1>8. CASE restart(r)
  BY <1>0, <1>8 DEF restart, Goto, TypeOK
<1>9. ASSUME NEW n \in Names, createMigration(n)
      PROVE  ~Holding(r) \/ Held(r)' = Held(r)
  BY <1>0, <1>9, Written DEF createMigration, Create, replicaVars, LInv, HeldExisted, Held
<1>10. ASSUME NEW n \in Names, deleteMigration(n) \/ addCondition(n)
       PROVE  Held(r).live /\ KnownConds(Held(r)') = KnownConds(Held(r))
  BY <1>0, <1>10, Written, Deleted DEF deleteMigration, addCondition, UpdateStatus, replicaVars, Held,
     KnownConds, Known
<1>11. ASSUME NEW n \in Names, createMigration(n) \/ deleteMigration(n) \/ addCondition(n)
       PROVE  UNCHANGED <<pc, cond>>
  BY <1>11 DEF createMigration, deleteMigration, addCondition, replicaVars
<1>12. CASE UNCHANGED vars
  BY <1>12 DEF vars, replicaVars, LInv, Phase, Held
<1>13. ASSUME UNCHANGED <<pc, cond>>,
              (Held(r).live /\ KnownConds(Held(r)') = KnownConds(Held(r))) \/ ~Holding(r)
       PROVE  /\ Updating(r)' /\ cond'[r] = "Running" => KnownConds(Held(r)') \in {{}, {"Running"}}
              /\ pc'[r] = "run" => KnownConds(Held(r)') = {"Running"}
              /\ Updating(r)' /\ cond'[r] # "Running" => KnownConds(Held(r)') \in {{"Running"}, {cond'[r]}}
  BY <1>0, <1>13 DEF LInv, Phase, Holding
<1> QED
  BY <1>0, <1>1, <1>2, <1>3, <1>4, <1>5, <1>6, <1>7, <1>8, <1>9, <1>10, <1>11, <1>12, <1>13
  DEF Next, MigratorStep, Quiet

\* Every step keeps LInv, if there is no other replica.
LEMMA NextL == Single /\ LInv /\ [Next]_vars => LInv'
BY NextInv, NextExisted, NextPhase DEF LInv

\* The status of an object depends on its known conditions only.
LEMMA StatusValue ==
  ASSUME NEW o \in Object
  PROVE  /\ ~o.live => StatusOf(o) = "None"
         /\ o.live => StatusOf(o) \in L!Status
         /\ o.live /\ KnownConds(o) = {} => StatusOf(o) = "Pending"
         /\ \A c \in Known : o.live /\ KnownConds(o) = {c} => StatusOf(o) = c
         /\ \A p \in Object : p.live = o.live /\ KnownConds(p) = KnownConds(o) => StatusOf(p) = StatusOf(o)
<1> USE DEF StatusOf, HasCondition, KnownConds, Known
<1>1. ~o.live => StatusOf(o) = "None"
  OBVIOUS
<1>2. ASSUME o.live PROVE StatusOf(o) \in {"Pending", "Running", "Succeeded", "Failed"}
  BY <1>2
<1>3. L!Status = {"Pending", "Running", "Succeeded", "Failed"}
  BY DEF L!Status, L!Completed
<1>4. ASSUME o.live, KnownConds(o) = {} PROVE StatusOf(o) = "Pending"
  BY <1>4
<1>5. ASSUME NEW c \in Known, o.live, KnownConds(o) = {c} PROVE StatusOf(o) = c
  BY <1>5
<1>6. ASSUME NEW p \in Object, p.live = o.live, KnownConds(p) = KnownConds(o)
      PROVE  StatusOf(p) = StatusOf(o)
  <2>1. \A c \in Known : c \in p.conds <=> c \in o.conds
    BY <1>6
  <2> QED
    BY <1>6, <2>1
<1> QED
  BY <1>1, <1>2, <1>3, <1>4, <1>5, <1>6

Status == [n \in Names |-> StatusOf(svm[n])]

\* A step that changes one object changes the status of no other.
LEMMA OneObject ==
  ASSUME NEW n \in Names, \A k \in Names \ {n} : svm'[k] = svm[k]
  PROVE  Status' = [Status EXCEPT ![n] = StatusOf(svm'[n])]
BY DEF Status

\* Every step of the one replica, or of another client, is a step of the life of a
\* migration or does not show.
LEMMA StepImplements ==
  ASSUME Single, LInv, [Next]_vars
  PROVE  [L!Next]_Status
<1>1. TypeOK /\ TypeOK' /\ \A r \in Migrators : name[r] \in Names
  BY NextType DEF LInv, IInv, TypeInv, TypeOK
<1>2. \A n \in Names : svm[n] \in Object /\ svm'[n] \in Object
  BY <1>1 DEF TypeOK
<1>3. ASSUME NEW n \in Names, svm'[n].live = svm[n].live, KnownConds(svm'[n]) = KnownConds(svm[n]),
             \A k \in Names \ {n} : svm'[k] = svm[k]
      PROVE  Status' = Status
  BY <1>2, <1>3, StatusValue DEF Status
<1>4. ASSUME NEW r \in Migrators, Put(r) PROVE [L!Next]_Status
  <2> DEFINE n == name[r]
  <2>1. /\ svm[n].live /\ svm'[n].live /\ KnownConds(svm'[n]) = {cond[r]} /\ cond[r] \in Known
        /\ \A k \in Names \ {n} : svm'[k] = svm[k]
    BY <1>1, <1>4, Written, NewConditions DEF Put, Accepts, UpdateStatus, KnownConds, TypeOK
  <2>2. n \in Names /\ StatusOf(svm'[n]) = cond[r] /\ Status' = [Status EXCEPT ![n] = cond[r]]
    BY <1>1, <1>2, <2>1, StatusValue, OneObject
  <2>3. CASE cond[r] = "Running"
    <3>1. Status[n] = "Pending" \/ Status[n] = "Running"
      BY <1>2, <1>4, <2>1, <2>2, <2>3, StatusValue DEF Put, LInv, Phase, Updating, Held, Status, Known
    <3> QED
      BY <2>2, <2>3, <3>1 DEF L!Next, L!Start, L!Move, Status
  <2>4. CASE cond[r] # "Running"
    <3>1. Status[n] = "Running" \/ Status[n] = cond[r]
      BY <1>2, <1>4, <2>1, <2>2, <2>4, StatusValue DEF Put, LInv, Phase, Updating, Held, Status, Known
    <3>2. cond[r] \in L!Completed
      BY <2>1, <2>4 DEF Known, L!Completed
    <3> QED
      BY <2>2, <3>1, <3>2 DEF L!Next, L!End, L!Move, Status
  <2> QED
    BY <2>3, <2>4
<1>5. ASSUME NEW n \in Names, addCondition(n) PROVE Status' = Status
  <2>1. /\ svm[n].live /\ svm'[n].live /\ KnownConds(svm'[n]) = KnownConds(svm[n])
        /\ \A k \in Names \ {n} : svm'[k] = svm[k]
    BY <1>1, <1>5, Written DEF addCondition, UpdateStatus, KnownConds, Known
  <2> QED
    BY <1>2, <1>3, <2>1 DEF Object
<1>6. ASSUME NEW r \in Migrators, save(r) PROVE Status' = Status
  <2>1. /\ svm[name[r]].live /\ svm'[name[r]].live
        /\ KnownConds(svm'[name[r]]) = KnownConds(svm[name[r]])
        /\ \A k \in Names \ {name[r]} : svm'[k] = svm[k]
    BY <1>1, <1>6, Written DEF save, Get, Update, KnownConds
  <2> QED
    BY <1>1, <1>2, <1>3, <2>1 DEF Object
<1>7. ASSUME NEW n \in Names, createMigration(n) PROVE L!Next
  <2>1. ~svm[n].live
    BY <1>2, <1>7 DEF createMigration, Create, LInv, IInv, LiveVersion
  <2>2. svm'[n].live /\ KnownConds(svm'[n]) = {} /\ \A k \in Names \ {n} : svm'[k] = svm[k]
    BY <1>1, <1>7, Written DEF createMigration, Create, KnownConds
  <2>3. Status[n] = "None" /\ Status' = [Status EXCEPT ![n] = "Pending"]
    BY <1>2, <2>1, <2>2, StatusValue, OneObject DEF Status
  <2> QED
    BY <2>3 DEF L!Next, L!Create, L!Move, Status
<1>8. ASSUME NEW n \in Names, deleteMigration(n) PROVE L!Next
  <2>1. svm[n].live /\ ~svm'[n].live /\ \A k \in Names \ {n} : svm'[k] = svm[k]
    BY <1>1, <1>8, Deleted DEF deleteMigration, Delete
  <2>2. Status[n] \in L!Status /\ Status' = [Status EXCEPT ![n] = "None"]
    BY <1>2, <2>1, StatusValue, OneObject DEF Status
  <2> QED
    BY <2>2 DEF L!Next, L!Delete, L!Move, Status
<1>9. CASE UNCHANGED svm
  BY <1>9 DEF Status
<1> QED
  BY <1>1, <1>4, <1>5, <1>6, <1>7, <1>8, <1>9, Writes

\* One replica, with any number of migrations, attempts, pages and faults, implements
\* the life of a migration that the trigger relies on.
THEOREM ImplementsLifecycle ==
  ASSUME Single
  PROVE  Spec => Lifecycle
<1>1. Init => L!Init
  <2>1. StatusOf(NoObject) = "None"
    BY DEF StatusOf, NoObject
  <2> QED
    BY <2>1 DEF Init, L!Init
<1>2. LInv /\ [Next]_vars => [L!Next]_Status
  BY StepImplements
<1>3. LInv /\ [Next]_vars => LInv'
  BY NextL
<1> QED
  BY <1>1, <1>2, <1>3, InitL, PTL DEF Spec, Lifecycle, L!Spec, Status
=============================================================================
