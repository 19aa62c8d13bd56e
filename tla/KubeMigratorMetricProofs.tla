---------------------- MODULE KubeMigratorMetricProofs ----------------------
(***************************************************************************)
(* Proofs about the metric of KubeMigrator, and about completed migrations,*)
(* for one replica and any number of migrations, attempts, pages and       *)
(* faults.                                                                 *)
(*                                                                         *)
(* A migration is counted again only after updateStatus gave up on its     *)
(* outcome.  That takes Steps failed attempts, of which all but the first  *)
(* are the work of an event of their own: the call failed, the GET before  *)
(* it failed, or the object changed since that GET.  Spent counts those    *)
(* events while updateStatus is at work, so that nobody has to remember    *)
(* them afterwards.                                                        *)
(***************************************************************************)
EXTENDS KubeMigratorProofs, Integers

Charged == EnvBudget - budget
Cost(c) == c * (Steps - 1)

\* The migration can still be picked, and so be counted.
Open(n) == svm[n].live /\ ~HasCompleted(svm[n])

\* updateStatus is called with an outcome.
Writing(r) == Updating(r) /\ cond[r] # "Running"

\* At least so many events have hit this call of updateStatus.  The first attempt
\* costs none; a later one that holds an old object has had its event already.
Spent(r) ==
  IF pc[r] = "refresh" \/ (tries[r] < Steps /\ m[r].rv # Held(r).rv) THEN Steps - tries[r]
  ELSE IF tries[r] < Steps THEN Steps - tries[r] - 1 ELSE 0

\* All counts but the last are paid for; all of them, if another may follow; and
\* with them the attempts of the current call.
CountPaid(r, n) ==
  /\ migrations[r][n] > 0 => svm[n].rv > 0 /\ Cost(migrations[r][n] - 1) <= Charged
  /\ Open(n) \/ (Holding(r) /\ name[r] = n) => Cost(migrations[r][n]) <= Charged
CallPaid(r) ==
  Writing(r) /\ Open(name[r]) => Cost(migrations[r][name[r]]) + Spent(r) <= Charged
Paid == \A r \in Migrators : CallPaid(r) /\ \A n \in Names : CountPaid(r, n)

MInv == LInv /\ Paid

-----------------------------------------------------------------------------
(***************************************************************************)
(* What a step does to the quantities of the invariant.                    *)
(***************************************************************************)
\* What a count costs.
LEMMA Costs ==
  /\ Cost(0) = 0
  /\ \A c \in Nat : Cost(c) \in Nat /\ Cost(c + 1) = Cost(c) + (Steps - 1)
<1>1. Cost(0) = 0
  BY StepsAssumption DEF Cost
<1>2. ASSUME NEW c \in Nat PROVE Cost(c) \in Nat /\ Cost(c + 1) = Cost(c) + (Steps - 1)
  <2>1. Steps - 1 \in Nat
    BY StepsAssumption
  <2> QED
    BY <2>1 DEF Cost
<1> QED
  BY <1>1, <1>2

\* Events are never forgotten.
LEMMA ChargedGrows ==
  ASSUME TypeOK, [Next]_vars
  PROVE  /\ Charged \in Nat /\ Charged' \in Nat /\ Charged <= Charged'
         /\ Charge => Charged' = Charged + 1
<1>1. budget \in Nat /\ budget <= EnvBudget /\ EnvBudget \in Nat
  BY EnvBudgetAssumption DEF TypeOK
<1>2. Charge \/ budget' = budget
  BY DEF Next, MigratorStep, process, processOne, save, runReturns, putStatus, refresh, deliver,
     restart, createMigration, deleteMigration, addCondition, Quiet, vars
<1> QED
  BY <1>1, <1>2 DEF Charged, Charge

\* A migration that is not counted in a step, and not opened by it, stays paid for.
LEMMA CountKept ==
  ASSUME TypeOK, TypeOK', [Next]_vars, NEW r \in Migrators, NEW n \in Names, CountPaid(r, n),
         migrations'[r][n] = migrations[r][n],
         Open(n)' => Open(n) \/ (Holding(r) /\ name[r] = n),
         Holding(r)' /\ name'[r] = n => Open(n) \/ (Holding(r) /\ name[r] = n)
  PROVE  CountPaid(r, n)'
<1>1. /\ migrations[r][n] \in Nat /\ svm[n].rv \in Nat /\ svm'[n].rv \in Nat
      /\ svm[n].rv <= svm'[n].rv
  BY Versions DEF TypeOK, Object
<1>2. Charged \in Nat /\ Charged' \in Nat /\ Charged <= Charged'
  BY ChargedGrows
<1>3. /\ Cost(migrations[r][n]) \in Nat
      /\ migrations[r][n] > 0 => Cost(migrations[r][n] - 1) \in Nat
  BY <1>1, Costs
<1> HIDE DEF Cost, Charged, Open, Holding
<1>4. migrations'[r][n] > 0 => svm'[n].rv > 0 /\ Cost(migrations'[r][n] - 1) <= Charged'
  BY <1>1, <1>2, <1>3 DEF CountPaid
<1>5. Open(n)' \/ (Holding(r)' /\ name'[r] = n) => Cost(migrations'[r][n]) <= Charged'
  BY <1>1, <1>2, <1>3 DEF CountPaid
<1> QED
  BY <1>4, <1>5 DEF CountPaid

\* The range of what a call has spent.
LEMMA SpentRange ==
  ASSUME TypeOK, NEW r \in Migrators
  PROVE  /\ Spent(r) \in Int /\ Spent(r) <= Steps - tries[r]
         /\ tries[r] < Steps => Spent(r) >= Steps - tries[r] - 1
         /\ tries[r] = Steps => Spent(r) = 0
BY StepsAssumption DEF TypeOK, Spent

\* If there is no other replica, a migration is opened by its creation alone.
LEMMA OpenSteps ==
  ASSUME Single, LInv, [Next]_vars, NEW n \in Names, Open(n)'
  PROVE  Open(n) \/ createMigration(n)
<1>1. TypeOK /\ \A r \in Migrators : name[r] \in Names
  BY DEF LInv, IInv, TypeInv, TypeOK
<1> USE DEF Open, HasCompleted, HasCondition
<1>2. ASSUME NEW r \in Migrators, Put(r), n = name[r] PROVE Open(n)
  <2>1. svm[n].live /\ KnownConds(svm'[n]) = {cond[r]} /\ cond[r] \in Known
    BY <1>1, <1>2, Written, NewConditions DEF Put, Accepts, UpdateStatus, KnownConds, TypeOK
  <2>2. cond[r] = "Running"
    BY <2>1 DEF KnownConds, Known
  <2> QED
    BY <1>2, <2>1, <2>2 DEF Put, LInv, Phase, Updating, Held, KnownConds, Known
<1>3. ASSUME NEW r \in Migrators, Put(r) \/ save(r), n # name[r] PROVE svm'[n] = svm[n]
  BY <1>1, <1>3, Written DEF Put, save, Update, UpdateStatus
<1>4. ASSUME NEW r \in Migrators, save(r), n = name[r] PROVE Open(n)
  BY <1>1, <1>4, Written DEF save, Get, Update
<1>5. ASSUME NEW k \in Names, addCondition(k) PROVE Open(n)
  BY <1>1, <1>5, Written DEF addCondition, UpdateStatus
<1>6. ASSUME NEW k \in Names, createMigration(k) \/ deleteMigration(k), k # n PROVE svm'[n] = svm[n]
  BY <1>1, <1>6, Written, Deleted DEF createMigration, deleteMigration, Create
<1>7. ASSUME deleteMigration(n) PROVE FALSE
  BY <1>1, <1>7, Deleted DEF deleteMigration
<1> QED
  BY <1>1, <1>2, <1>3, <1>4, <1>5, <1>6, <1>7, Writes

\* processOne takes only a migration that is open.
LEMMA PickOpen ==
  ASSUME TypeOK, [Next]_vars, NEW r \in Migrators, Holding(r)'
  PROVE  name'[r] = name[r] /\ (Holding(r) \/ Open(name[r]))
<1>1. name'[r] = name[r]
  BY HeldSteps DEF Keeps, Reads
<1>2. ASSUME ~Holding(r) PROVE processOne(r)
  BY <1>2 DEF Holding, Next, MigratorStep, process, processOne, save, runReturns,
     putStatus, refresh, deliver, restart, createMigration, deleteMigration, addCondition,
     Quiet, vars, replicaVars, StartUpdate, UpdateDone, GiveUp, Observe, Goto, Get, TypeOK
<1>3. processOne(r) => Open(name[r])
  BY DEF processOne, Holding, Goto, Get, Open, TypeOK
<1> QED
  BY <1>1, <1>2, <1>3

-----------------------------------------------------------------------------
(***************************************************************************)
(* Every step keeps Paid, if there is no other replica.                    *)
(***************************************************************************)
\* What a step does to the counts of a replica: nothing, a restart, or one more for
\* the migration whose outcome it has written, or has failed to write so often.
Counted(r) ==
  /\ Observe(r) /\ Writing(r) /\ cond'[r] = cond[r]
  /\ \/ Put(r)
     \/ pc[r] = "refresh" /\ tries[r] <= 1 /\ svm' = svm
LEMMA CountSteps ==
  ASSUME Single, TypeOK, [Next]_vars, NEW r \in Migrators
  PROVE  migrations' = migrations \/ restart(r) \/ Counted(r)
<1>1. ASSUME putStatus(r), migrations' # migrations PROVE Counted(r)
  BY <1>1 DEF putStatus, UpdateDone, Counted, Put, Writing, Updating
<1>2. ASSUME refresh(r), migrations' # migrations PROVE Counted(r)
  BY <1>2 DEF refresh, GiveUp, Counted, Writing, Updating, TypeOK
<1> QED
  BY <1>1, <1>2 DEF Single, Next, MigratorStep, process, processOne, save, runReturns, deliver,
     createMigration, deleteMigration, addCondition, Quiet, vars, replicaVars

\* The counts stay paid for.
LEMMA NextCounts ==
  ASSUME Single, LInv, Paid, [Next]_vars, NEW r \in Migrators, NEW n \in Names
  PROVE  CountPaid(r, n)'
<1>1. TypeOK /\ TypeOK' /\ CountPaid(r, n) /\ CallPaid(r) /\ name[r] \in Names
  BY NextType DEF LInv, IInv, TypeInv, Paid, TypeOK
<1>2. /\ migrations[r][n] \in Nat /\ Charged \in Nat /\ Charged' \in Nat /\ Charged <= Charged'
      /\ svm[n].rv \in Nat /\ svm'[n].rv \in Nat /\ svm[n].rv <= svm'[n].rv
  BY <1>1, ChargedGrows, Versions DEF TypeOK, Object
<1>3. Holding(r)' /\ name'[r] = n => Open(n) \/ (Holding(r) /\ name[r] = n)
  BY <1>1, PickOpen
<1>4. CASE migrations'[r][n] = migrations[r][n] /\ ~createMigration(n)
  <2>1. Open(n)' => Open(n)
    BY <1>4, OpenSteps
  <2> QED
    BY <1>1, <1>3, <1>4, <2>1, CountKept
<1>5. ASSUME migrations'[r][n] = 0 PROVE CountPaid(r, n)'
  BY <1>2, <1>5, Costs DEF CountPaid
<1>6. ASSUME createMigration(n) PROVE migrations'[r][n] = 0
  BY <1>1, <1>2, <1>6 DEF createMigration, Create, replicaVars, CountPaid
<1>7. ASSUME restart(r) PROVE migrations'[r][n] = 0
  BY <1>1, <1>7 DEF restart, NoCounts, TypeOK
<1>8. CASE Counted(r) /\ n = name[r]
  <2>1. /\ migrations'[r][n] = migrations[r][n] + 1 /\ ~Holding(r)' /\ Holding(r)
    BY <1>1, <1>8 DEF Counted, Observe, Goto, TypeOK, Holding, Writing, Updating
  <2>2. /\ Cost(migrations[r][n]) \in Nat
        /\ Cost(migrations'[r][n]) = Cost(migrations[r][n]) + (Steps - 1)
        /\ migrations'[r][n] - 1 = migrations[r][n]
    BY <1>2, <2>1, Costs
  <2>3. Cost(migrations[r][n]) <= Charged
    BY <1>1, <1>8, <2>1 DEF CountPaid
  <2>4. svm[n].rv > 0
    BY <1>8, <2>1 DEF LInv, HeldExisted, Held
  <2>5. ASSUME Open(n)' PROVE Cost(migrations[r][n]) + (Steps - 1) <= Charged
    <3>1. ~Put(r)
      <4> SUFFICES ASSUME Put(r) PROVE FALSE
        OBVIOUS
      <4>1. KnownConds(svm'[n]) = {cond[r]} /\ cond[r] \in Known \ {"Running"}
        BY <1>1, <1>8, Written, NewConditions
        DEF Put, UpdateStatus, KnownConds, TypeOK, Counted, Writing
      <4> QED
        BY <2>5, <4>1 DEF Open, HasCompleted, HasCondition, KnownConds, Known
    <3>2. pc[r] = "refresh" /\ tries[r] <= 1 /\ Open(n) /\ Writing(r)
      BY <1>8, <2>5, <3>1 DEF Counted, Open
    <3>3. tries[r] = 1
      BY <1>1, <3>2 DEF LInv, IInv, TypeInv, TriesLeft, TypeOK, Updating
    <3>4. Spent(r) = Steps - 1
      BY <3>2, <3>3 DEF Spent
    <3> QED
      BY <1>1, <1>8, <3>2, <3>4 DEF CallPaid
  <2>6. Cost(migrations'[r][n] - 1) <= Charged' /\ svm'[n].rv > 0
    BY <1>2, <2>2, <2>3, <2>4
  <2>7. Open(n)' => Cost(migrations'[r][n]) <= Charged'
    BY <1>2, <2>2, <2>5, StepsAssumption
  <2> QED
    BY <2>1, <2>6, <2>7 DEF CountPaid
<1>9. ASSUME Counted(r), n # name[r]
      PROVE  migrations'[r][n] = migrations[r][n] /\ ~createMigration(n)
  <2>1. migrations'[r][n] = migrations[r][n] /\ migrations' # migrations
    BY <1>1, <1>9 DEF Counted, Observe, TypeOK
  <2> QED
    BY <2>1 DEF createMigration, replicaVars
<1> QED
  BY <1>1, <1>4, <1>5, <1>6, <1>7, <1>8, <1>9, CountSteps

\* Every attempt after the first costs an event.
LEMMA NextCall ==
  ASSUME Single, LInv, Paid, [Next]_vars, NEW r \in Migrators
  PROVE  CallPaid(r)'
<1> SUFFICES ASSUME Writing(r)', Open(name[r])'
             PROVE  Cost(migrations'[r][name'[r]]) + Spent(r)' <= Charged'
  BY DEF CallPaid
<1> DEFINE n == name[r]
           Ok == Cost(migrations'[r][name'[r]]) + Spent(r)' <= Charged'
<1>1. TypeOK /\ TypeOK' /\ CountPaid(r, n) /\ CallPaid(r) /\ n \in Names /\ tries[r] \in 0..Steps
  BY NextType DEF LInv, IInv, TypeInv, Paid, TypeOK
<1>2. /\ migrations[r][n] \in Nat /\ Charged \in Nat /\ Charged' \in Nat /\ Charged <= Charged'
      /\ Charge => Charged' = Charged + 1
      /\ Cost(migrations[r][n]) \in Nat
  BY <1>1, ChargedGrows, Costs DEF TypeOK
<1>3. name'[r] = n /\ (Holding(r) \/ Open(n))
  BY <1>1, PickOpen DEF Writing, Updating, Holding
<1>4. Open(n) \/ createMigration(n)
  BY <1>1, <1>3, OpenSteps DEF Open
<1>5. /\ Spent(r) \in Int /\ Spent(r)' \in Int
      /\ Spent(r) <= Steps - tries[r] /\ Spent(r)' <= Steps - tries'[r]
      /\ tries[r] < Steps => Spent(r) >= Steps - tries[r] - 1
      /\ tries[r] = Steps => Spent(r) = 0
      /\ tries'[r] = Steps => Spent(r)' = 0
  <2>1. Spent(r)' \in Int /\ Spent(r)' <= Steps - tries'[r] /\ (tries'[r] = Steps => Spent(r)' = 0)
    BY <1>1, StepsAssumption DEF TypeOK, Spent
  <2> QED
    BY <1>1, <2>1, SpentRange
<1>6. ASSUME migrations'[r][n] = migrations[r][n], Writing(r), Open(n),
             \/ Spent(r)' <= Spent(r)
             \/ Charge /\ Spent(r)' <= Spent(r) + 1
      PROVE  Ok
  <2>1. Cost(migrations[r][n]) + Spent(r) <= Charged
    BY <1>1, <1>6 DEF CallPaid
  <2> HIDE DEF Spent, Cost, Charged, Charge
  <2> QED
    BY <1>2, <1>3, <1>5, <1>6, <2>1
<1>7. CASE runReturns(r)
  <2>1. tries'[r] = Steps /\ migrations' = migrations /\ Holding(r)
    BY <1>1, <1>7 DEF runReturns, StartUpdate, TypeOK, Holding
  <2>2. Cost(migrations[r][n]) <= Charged
    BY <1>1, <2>1 DEF CountPaid
  <2> QED
    BY <1>2, <1>3, <1>5, <2>1, <2>2
<1>8. CASE putStatus(r)
  <2>1. pc[r] = "put" /\ cond'[r] = cond[r] /\ tries' = tries /\ m' = m /\ name' = name
    BY <1>8 DEF putStatus
  <2>2. Writing(r)
    BY <2>1 DEF Writing, Updating
  <2>3. ~Put(r)
    <3> SUFFICES ASSUME Put(r) PROVE FALSE
      OBVIOUS
    <3>1. KnownConds(svm'[n]) = {cond[r]} /\ cond[r] \in Known \ {"Running"}
      BY <1>1, <2>2, Written, NewConditions DEF Put, UpdateStatus, KnownConds, TypeOK, Writing
    <3> QED
      BY <1>3, <3>1 DEF Open, HasCompleted, HasCondition, KnownConds, Known
  <2>4. svm' = svm /\ migrations' = migrations /\ pc'[r] = "refresh"
    BY <1>1, <1>8, <2>1, <2>3 DEF putStatus, Put, Goto, TypeOK
  <2>5. Open(n)
    BY <1>3, <2>4 DEF Open
  <2>6. Charge \/ ~Accepts(n, m[r])
    BY <1>8, <2>3 DEF putStatus, Put
  <2>7. Spent(r)' = Steps - tries[r]
    BY <2>1, <2>4 DEF Spent
  <2>8. ASSUME ~Accepts(n, m[r]) PROVE Spent(r)' <= Spent(r)
    <3>1. m[r].rv # Held(r).rv
      BY <2>5, <2>8 DEF Accepts, Open, Held
    <3> QED
      BY <1>1, <2>7, <3>1, StepsAssumption DEF Spent
  <2>9. Spent(r)' <= Spent(r) + 1
    BY <1>1, <1>5, <2>7, StepsAssumption
  <2> QED
    BY <1>6, <2>2, <2>4, <2>5, <2>6, <2>8, <2>9
<1>9. CASE refresh(r)
  <2>1. pc[r] = "refresh" /\ cond'[r] = cond[r] /\ svm' = svm /\ tries'[r] = tries[r] - 1
    BY <1>1, <1>9 DEF refresh, TypeOK
  <2>2. pc'[r] = "put" /\ tries[r] > 1 /\ migrations' = migrations
    BY <1>1, <1>9 DEF refresh, GiveUp, Observe, Goto, Writing, Updating, TypeOK
  <2>3. Writing(r) /\ Open(n) /\ Spent(r) = Steps - tries[r]
    BY <1>3, <2>1 DEF Writing, Updating, Open, Spent
  <2>4. Charge \/ m'[r] = svm[n]
    BY <1>1, <1>9, <2>3 DEF refresh, Get, Open, TypeOK
  <2>5. ASSUME m'[r] = svm[n] PROVE Spent(r)' <= Spent(r)
    <3>1. Spent(r)' = IF tries[r] - 1 < Steps THEN Steps - (tries[r] - 1) - 1 ELSE 0
      BY <1>3, <2>1, <2>2, <2>5 DEF Spent, Held
    <3> QED
      BY <1>1, <2>3, <3>1, StepsAssumption
  <2>6. Spent(r)' <= Spent(r) + 1
    BY <1>1, <1>5, <2>1, <2>3, StepsAssumption
  <2> QED
    BY <1>6, <2>2, <2>3, <2>4, <2>5, <2>6
<1>10. ASSUME UNCHANGED replicaVars PROVE Ok
  <2>1. Writing(r) /\ Holding(r)
    BY <1>10 DEF replicaVars, Writing, Updating, Holding
  <2>2. CASE Charge
    <3>1. Open(n) \/ createMigration(n)
      BY <1>4
    <3>2. Open(n)
      BY <2>1, <3>1 DEF createMigration, Create, LInv, HeldExisted, Held
    <3>3. Spent(r)' <= Spent(r) + 1
      BY <1>1, <1>5, <1>10, StepsAssumption DEF replicaVars
    <3> QED
      BY <1>6, <1>10, <2>1, <2>2, <3>2, <3>3 DEF replicaVars
  <2>3. CASE svm'[n] = svm[n]
    <3>1. Spent(r)' = Spent(r) /\ Open(n)
      BY <1>3, <1>10, <2>3 DEF replicaVars, Spent, Held, Open, HasCompleted, HasCondition
    <3> QED
      BY <1>5, <1>6, <1>10, <2>1, <3>1 DEF replicaVars
  <2>4. CASE \E k \in Names : createMigration(k)
    <3>1. PICK k \in Names : createMigration(k)
      BY <2>4
    <3>2. k # n
      BY <2>1, <3>1 DEF createMigration, Create, LInv, HeldExisted, Held
    <3> QED
      BY <1>1, <2>3, <3>1, <3>2, Written DEF createMigration, Create
  <2>5. CASE \E q \in Migrators : save(q)
    BY <2>1, <2>5 DEF Single, save, Writing, Updating
  <2>6. ASSUME NEW q \in Migrators, putStatus(q) PROVE FALSE
    BY <1>1, <1>10, <2>6 DEF putStatus, UpdateDone, Observe, Goto, replicaVars, TypeOK
  <2> QED
    BY <1>1, <2>2, <2>3, <2>4, <2>5, <2>6, Writes DEF deleteMigration, addCondition
<1>11. ASSUME NEW k \in Names, process(r, k) PROVE FALSE
  BY <1>1, <1>11 DEF process, Goto, Writing, Updating, TypeOK
<1>12. CASE processOne(r)
  BY <1>1, <1>12 DEF processOne, StartUpdate, Goto, Writing, Updating, TypeOK
<1>13. CASE restart(r)
  BY <1>1, <1>13 DEF restart, Goto, Writing, Updating, TypeOK
<1>14. ASSUME NEW k \in Names, deliver(r, k) PROVE Ok
  <2>1. Writing(r) /\ Spent(r)' = Spent(r) /\ Open(n) /\ migrations' = migrations
    BY <1>3, <1>14 DEF deliver, Writing, Updating, Spent, Held, Open
  <2> QED
    BY <1>5, <1>6, <2>1
<1> QED
  BY <1>7, <1>8, <1>9, <1>10, <1>11, <1>12, <1>13, <1>14 DEF Single, Next, MigratorStep, save,
     createMigration, deleteMigration, addCondition, Quiet, vars

\* Every step keeps MInv, if there is no other replica.
LEMMA NextM == Single /\ MInv /\ [Next]_vars => MInv'
BY NextL, NextCall, NextCounts DEF MInv, Paid

\* MInv holds initially.
LEMMA InitM == Init => MInv
<1> SUFFICES ASSUME Init PROVE MInv
  OBVIOUS
<1>1. LInv
  BY InitL
<1>2. ASSUME NEW r \in Migrators, NEW n \in Names PROVE CountPaid(r, n) /\ CallPaid(r)
  <2>1. migrations[r][n] = 0 /\ ~Writing(r) /\ Charged = 0
    BY EnvBudgetAssumption DEF Init, NoCounts, Writing, Updating, Charged
  <2> QED
    BY <2>1, Costs DEF CountPaid, CallPaid
<1>3. \A r \in Migrators : CallPaid(r)
  BY DEF Init, CallPaid, Writing, Updating
<1> QED
  BY <1>1, <1>2, <1>3 DEF MInv, Paid

\* One replica counts a migration again only if updateStatus has failed to write its
\* outcome before: each count but the last has cost Steps - 1 failed calls or foreign
\* writes, for any number of migrations, attempts and faults.
THEOREM CountsArePaidFor ==
  ASSUME Single
  PROVE  Spec => []CountedOnce
<1>1. MInv => CountedOnce
  BY DEF MInv, Paid, CountPaid, CountedOnce, Cost, Charged
<1>2. MInv /\ [Next]_vars => MInv'
  BY NextM
<1> QED
  BY <1>1, <1>2, InitM, PTL DEF Spec

\* In particular it counts no migration twice, for as long as no call fails and nobody
\* else deletes, changes or restarts anything; the code has Steps = 6.
THEOREM NoFaultNoSecondCount ==
  ASSUME Single, Steps > 1
  PROVE  Spec => [](budget = EnvBudget => \A r \in Migrators, n \in Names : migrations[r][n] <= 1)
<1>1. ASSUME TypeOK, CountedOnce, budget = EnvBudget, NEW r \in Migrators, NEW n \in Names
      PROVE  migrations[r][n] <= 1
  <2> SUFFICES ASSUME migrations[r][n] > 1 PROVE FALSE
    BY <1>1 DEF TypeOK
  <2>1. migrations[r][n] \in Nat /\ EnvBudget - budget = 0
    BY <1>1, EnvBudgetAssumption DEF TypeOK
  <2>2. (migrations[r][n] - 1) * (Steps - 1) <= 0
    BY <1>1, <2>1 DEF CountedOnce
  <2>3. \A i, j \in Int : i > 0 /\ j > 0 => i * j > 0
    OBVIOUS
  <2>4. migrations[r][n] - 1 \in Int /\ Steps - 1 \in Int /\ migrations[r][n] - 1 > 0 /\ Steps - 1 > 0
    BY <2>1, StepsAssumption
  <2>5. (migrations[r][n] - 1) * (Steps - 1) > 0
    BY <2>3, <2>4
  <2> DEFINE x == (migrations[r][n] - 1) * (Steps - 1)
  <2>6. x \in Int /\ x <= 0 /\ x > 0
    BY <2>2, <2>4, <2>5
  <2> QED
    BY <2>6
<1>2. TypeOK /\ CountedOnce => (budget = EnvBudget => \A r \in Migrators, n \in Names : migrations[r][n] <= 1)
  BY <1>1
<1> QED
  BY <1>2, TypeCorrect, CountsArePaidFor, PTL

-----------------------------------------------------------------------------
(***************************************************************************)
(* A completed migration.                                                  *)
(***************************************************************************)
\* An object that does not exist has no conditions.
GoneEmpty == \A n \in Names : ~svm[n].live => svm[n].conds = {}
LEMMA NextGone == TypeOK /\ GoneEmpty /\ [Next]_vars => GoneEmpty'
<1> SUFFICES ASSUME TypeOK, GoneEmpty, [Next]_vars, NEW n \in Names
             PROVE  ~svm'[n].live => svm'[n].conds = {}
  BY DEF GoneEmpty
<1>0. \A r \in Migrators : name[r] \in Names
  BY DEF TypeOK
<1>1. ASSUME NEW r \in Migrators, Put(r) \/ save(r) PROVE svm'[n] = svm[n] \/ svm'[n].live
  BY <1>0, <1>1, Written DEF Put, save, Update, UpdateStatus
<1>2. ASSUME NEW k \in Names, addCondition(k) \/ createMigration(k)
      PROVE  svm'[n] = svm[n] \/ svm'[n].live
  BY <1>2, Written DEF addCondition, createMigration, UpdateStatus, Create
<1>3. ASSUME NEW k \in Names, deleteMigration(k) PROVE svm'[n] = svm[n] \/ svm'[n].conds = {}
  BY <1>3, Deleted DEF deleteMigration
<1> QED
  BY <1>1, <1>2, <1>3, Writes DEF GoneEmpty

\* A step leaves the known conditions of a completed migration alone.
LEMMA CompletedKept ==
  ASSUME Single, LInv, GoneEmpty, [Next]_vars, NEW n \in Names, HasCompleted(svm[n]), svm'[n].live
  PROVE  KnownConds(svm'[n]) = KnownConds(svm[n])
<1>1. TypeOK /\ \A r \in Migrators : name[r] \in Names
  BY DEF LInv, IInv, TypeInv, TypeOK
<1> USE DEF HasCompleted, HasCondition
<1>2. ASSUME NEW r \in Migrators, Put(r), n = name[r]
      PROVE  KnownConds(svm'[n]) = KnownConds(svm[n])
  <2>1. svm[n].live /\ KnownConds(svm'[n]) = {cond[r]}
    BY <1>1, <1>2, Written, NewConditions DEF Put, Accepts, UpdateStatus, KnownConds
  <2> QED
    BY <1>2, <2>1 DEF Put, LInv, Phase, Updating, Held, KnownConds, Known
<1>3. ASSUME NEW r \in Migrators, Put(r) \/ save(r), n # name[r] PROVE svm'[n] = svm[n]
  BY <1>1, <1>3, Written DEF Put, save, Update, UpdateStatus
<1>4. ASSUME NEW r \in Migrators, save(r), n = name[r] PROVE svm'[n].conds = svm[n].conds
  BY <1>1, <1>4, Written DEF save, Get, Update
<1>5. ASSUME NEW k \in Names, addCondition(k) PROVE KnownConds(svm'[n]) = KnownConds(svm[n])
  BY <1>1, <1>5, Written DEF addCondition, UpdateStatus, KnownConds, Known
<1>6. ASSUME NEW k \in Names, createMigration(k) \/ deleteMigration(k), k # n PROVE svm'[n] = svm[n]
  BY <1>1, <1>6, Written, Deleted DEF createMigration, deleteMigration, Create
<1>7. ASSUME createMigration(n) \/ deleteMigration(n) PROVE FALSE
  <2>1. svm[n].live
    BY DEF GoneEmpty
  <2> QED
    BY <1>1, <1>7, <2>1, Deleted DEF createMigration, deleteMigration, Create, LInv, IInv, LiveVersion
<1> QED
  BY <1>1, <1>2, <1>3, <1>4, <1>5, <1>6, <1>7, Writes DEF KnownConds

\* With one replica processOne does what its comment says: a migration that has
\* completed is not run again, and its outcome stays.
THEOREM CompletedStaysSo ==
  ASSUME Single
  PROVE  Spec => CompletedIsFinal
<1>1. LInv /\ GoneEmpty /\ [Next]_vars =>
        [\A n \in Names : HasCompleted(svm[n]) /\ svm'[n].live =>
           svm'[n].conds \cap Known = svm[n].conds \cap Known]_vars
  BY CompletedKept DEF KnownConds
<1>2. LInv /\ GoneEmpty /\ [Next]_vars => LInv' /\ GoneEmpty'
  BY NextL, NextGone DEF LInv, IInv, TypeInv
<1>3. Init => GoneEmpty
  BY DEF Init, GoneEmpty, NoObject
<1> QED
  BY <1>1, <1>2, <1>3, InitL, PTL DEF Spec, CompletedIsFinal
=============================================================================
