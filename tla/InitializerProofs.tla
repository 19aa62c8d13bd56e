------------------------- MODULE InitializerProofs --------------------------
(***************************************************************************)
(* Proofs about Initializer, for any number of resources, any backoff      *)
(* limit and any number of events.                                         *)
(***************************************************************************)
EXTENDS Initializer, TLAPS

\* Only an attempt that failed leaves the Job with more failures than its limit.
WithinLimit == pc # "failed" => failures <= BackoffLimit
TypeInv == TypeOK /\ WithinLimit

\* What the loop over the resources has done, if nobody deletes a migration.
Created == found \ todo

\* From the creation of the CRD on, migrations are those the attempt created.
Fresh ==
  /\ pc = "find" => migrations = NoMigrations
  /\ pc \in {"create", "done"} =>
       \A r \in Resources :
         /\ migrations[r] <= 1
         /\ migrations[r] = 1 => r \in Created
         /\ migrations[r] = 0 => r \notin Created \ gone
  /\ pc = "done" => todo = {}

\* The attempts that may fail yet without another event: the one at work, whose
\* next call is refused, and the next one, which meets the CRD on its way out.
Debt ==
  CASE pc = "deleteCRD"          -> IF crd = "live" THEN 0 ELSE 1
    [] pc \in {"getCRD", "failed"} -> IF crd = "terminating" THEN 1 ELSE 0
    [] pc = "pollCRD"            -> IF crd = "live" THEN 1 ELSE 0
    [] pc = "createCRD"          -> IF crd = "absent" THEN 0 ELSE IF crd = "live" THEN 1 ELSE 2
    [] pc \in {"find", "create"} -> IF crd = "terminating" THEN 2
                                    ELSE IF crd = "live" /\ served THEN 0 ELSE 1
    [] pc = "done"               -> 0
Paid == failures + Debt <= 2 * Events

IInv == TypeInv /\ Fresh /\ Paid

-----------------------------------------------------------------------------
\* The inductive invariant holds initially ...
LEMMA InitInv == Init => IInv
<1> SUFFICES ASSUME Init PROVE IInv
  OBVIOUS
<1> USE BackoffLimitAssumption, EnvBudgetAssumption
<1>1. TypeInv
  BY DEF Init, TypeInv, TypeOK, WithinLimit, NoMigrations
<1>2. Fresh
  BY DEF Init, Fresh
<1>3. Paid
  BY DEF Init, Paid, Debt, Events
<1> QED
  BY <1>1, <1>2, <1>3 DEF IInv

\* A migration is created, or deleted, when the CRD is there.
LEMMA MigrationsType ==
  ASSUME TypeOK, NEW r \in Resources
  PROVE  /\ migrations[r] \in Nat
         /\ [migrations EXCEPT ![r] = @ + 1] \in [Resources -> Nat]
         /\ migrations[r] > 0 => [migrations EXCEPT ![r] = @ - 1] \in [Resources -> Nat]
BY DEF TypeOK

\* Every step keeps the types, and the number of failures within the limit.
LEMMA NextType == TypeInv /\ [Next]_vars => TypeInv'
<1> SUFFICES ASSUME TypeInv, [Next]_vars PROVE TypeInv'
  OBVIOUS
<1> USE BackoffLimitAssumption, EnvBudgetAssumption DEF TypeInv, TypeOK, WithinLimit, apiVars
<1>1. CASE getCRD \/ pollCRD
  BY <1>1 DEF getCRD, pollCRD, Goto, Fail, Refused, Disturbed, Charge
<1>2. CASE deleteCRD
  BY <1>2 DEF deleteCRD, DeleteCRD, Goto, Fail, Refused, Disturbed, Charge
<1>3. CASE createCRD
  <2>1. served' \in BOOLEAN
    BY <1>3, Zenon DEF createCRD, CreateCRD, Refused, Disturbed
  <2>2. crd' \in {"absent", "live", "terminating"} /\ (crd' = "absent" => crd = "absent")
    BY <1>3 DEF createCRD, CreateCRD, Refused, Disturbed
  <2>3. migrations' = migrations /\ gone' \in SUBSET Resources
    BY <1>3 DEF createCRD, CreateCRD, Refused, Disturbed
  <2>4. /\ pc' \in {"find", "failed"} /\ failures' \in 0..(BackoffLimit + 1) /\ budget' \in 0..EnvBudget
        /\ WithinLimit'
    <3>1. pc = "createCRD" /\ (Goto("find") \/ Fail) /\ (Charge \/ UNCHANGED budget)
      BY <1>3, Zenon DEF createCRD, Refused, Disturbed
    <3> QED
      BY <3>1 DEF Goto, Fail, Charge
  <2> QED
    BY <1>3, <2>1, <2>2, <2>3, <2>4 DEF createCRD, NoMigrations
<1>4. CASE FindMigratableResources
  <2>1. /\ pc' \in {"create", "failed"} /\ failures' \in 0..(BackoffLimit + 1) /\ budget' \in 0..EnvBudget
        /\ WithinLimit'
    BY <1>4 DEF FindMigratableResources, Goto, Fail, Disturbed, Charge
  <2> QED
    BY <1>4, <2>1 DEF FindMigratableResources, Disturbed, NoMigrations
<1>5. ASSUME NEW r \in Resources, createMigration(r) PROVE TypeInv'
  <2>1. migrations' \in [Resources -> Nat] /\ crd' = crd /\ (crd = "absent" => migrations' = migrations)
    BY <1>5, MigrationsType DEF createMigration, CreateMigration, Refused, Disturbed
  <2> QED
    BY <1>5, <2>1 DEF createMigration, CreateMigration, Goto, Fail, Refused, Disturbed, Charge
<1>6. CASE return \/ startPod \/ crash
  BY <1>6 DEF return, startPod, crash, Goto, Fail, Charge
<1>7. CASE finishDeletion \/ serve \/ applyManifests \/ userDeleteCRD
  <2>1. served' \in BOOLEAN
    BY <1>7, Zenon DEF finishDeletion, serve, applyManifests, userDeleteCRD
  <2>2. migrations' \in [Resources -> Nat] /\ (crd' = "absent" => migrations' = NoMigrations)
    BY <1>7 DEF finishDeletion, serve, applyManifests, userDeleteCRD, NoMigrations
  <2> QED
    BY <1>7, <2>1, <2>2 DEF finishDeletion, serve, applyManifests, userDeleteCRD, Charge, NoMigrations
<1>8. ASSUME NEW r \in Resources, deleteMigration(r) PROVE TypeInv'
  <2>1. migrations' \in [Resources -> Nat]
    BY <1>8, MigrationsType DEF deleteMigration
  <2> QED
    BY <1>8, <2>1 DEF deleteMigration, Charge
<1>9. CASE UNCHANGED vars
  BY <1>9 DEF vars
<1> QED
  BY <1>1, <1>2, <1>3, <1>4, <1>5, <1>6, <1>7, <1>8, <1>9 DEF Next, InitializeStep, JobEnded

\* An attempt that creates the CRD finds no migration, and counts its own.
LEMMA NextFresh == TypeInv /\ Fresh /\ [Next]_vars => Fresh'
<1> SUFFICES ASSUME TypeInv, Fresh, [Next]_vars PROVE Fresh'
  OBVIOUS
<1>0. TypeOK /\ \A r \in Resources : migrations[r] \in Nat
  BY DEF TypeInv, TypeOK
<1> USE DEF Fresh, Created, apiVars
<1>1. CASE getCRD \/ pollCRD \/ deleteCRD
  BY <1>1 DEF getCRD, pollCRD, deleteCRD, Goto, Fail, Refused, Disturbed
<1>2. CASE createCRD
  BY <1>0, <1>2 DEF createCRD, CreateCRD, Goto, Fail, Refused, Disturbed, TypeOK
<1>3. CASE FindMigratableResources
  BY <1>0, <1>3 DEF FindMigratableResources, Goto, Fail, Disturbed, NoMigrations
<1>4. ASSUME NEW r \in Resources, createMigration(r) PROVE Fresh'
  <2>1. CASE pc' = "failed"
    BY <2>1
  <2>2. CASE CreateMigration(r) /\ todo' = todo \ {r} /\ Goto("create")
    <3>1. migrations[r] = 0 /\ r \in found
      BY <1>0, <1>4 DEF createMigration, TypeOK
    <3>2. migrations'[r] = 1 /\ \A k \in Resources \ {r} : migrations'[k] = migrations[k]
      BY <1>0, <2>2, <3>1 DEF CreateMigration, TypeOK
    <3> QED
      BY <1>0, <1>4, <2>2, <3>1, <3>2 DEF createMigration, CreateMigration, Goto
  <2> QED
    BY <1>4, <2>1, <2>2 DEF createMigration, Fail, Refused, Disturbed
<1>5. CASE return \/ startPod \/ crash
  BY <1>5 DEF return, startPod, crash, Goto, Fail
<1>6. CASE finishDeletion \/ serve \/ applyManifests \/ userDeleteCRD
  BY <1>0, <1>6 DEF finishDeletion, serve, applyManifests, userDeleteCRD, NoMigrations
<1>7. ASSUME NEW r \in Resources, deleteMigration(r) PROVE Fresh'
  <2>1. migrations'[r] = migrations[r] - 1 /\ \A k \in Resources \ {r} : migrations'[k] = migrations[k]
    BY <1>0, <1>7 DEF deleteMigration, TypeOK
  <2> QED
    BY <1>0, <1>7, <2>1 DEF deleteMigration, NoMigrations
<1>8. CASE UNCHANGED vars
  BY <1>8 DEF vars
<1> QED
  BY <1>1, <1>2, <1>3, <1>4, <1>5, <1>6, <1>7, <1>8 DEF Next, InitializeStep, JobEnded

\* Two failures are paid for by each event.
LEMMA NextPaid == TypeInv /\ Paid /\ [Next]_vars => Paid'
<1> SUFFICES ASSUME TypeInv, Paid, [Next]_vars PROVE Paid'
  OBVIOUS
<1>0. /\ budget \in Nat /\ failures \in Nat /\ EnvBudget \in Nat
      /\ crd \in {"absent", "live", "terminating"} /\ served \in BOOLEAN
      /\ pc \in {"getCRD", "deleteCRD", "pollCRD", "createCRD", "find", "create", "done", "failed"}
  BY BackoffLimitAssumption, EnvBudgetAssumption DEF TypeInv, TypeOK
<1> USE DEF Paid, Debt, Events, apiVars
<1>1. CASE getCRD
  BY <1>0, <1>1 DEF getCRD, Goto, Fail, Disturbed, Charge
<1>2. CASE pollCRD
  BY <1>0, <1>2 DEF pollCRD, Goto, Fail, Refused, Disturbed, Charge
<1>3. CASE deleteCRD
  BY <1>0, <1>3 DEF deleteCRD, DeleteCRD, Goto, Fail, Refused, Disturbed, Charge
<1>4. CASE createCRD
  BY <1>0, <1>4 DEF createCRD, CreateCRD, Goto, Fail, Refused, Disturbed, Charge
<1>5. CASE FindMigratableResources
  BY <1>0, <1>5 DEF FindMigratableResources, Goto, Fail, Disturbed, Charge
<1>6. ASSUME NEW r \in Resources, createMigration(r) PROVE Paid'
  BY <1>0, <1>6 DEF createMigration, CreateMigration, Goto, Fail, Refused, Disturbed, Charge
<1>7. CASE return \/ startPod
  BY <1>0, <1>7 DEF return, startPod, Goto
<1>8. CASE crash
  BY <1>0, <1>8 DEF crash, Fail, Charge
<1>9. CASE finishDeletion \/ serve
  BY <1>0, <1>9 DEF finishDeletion, serve
<1>10. CASE applyManifests \/ userDeleteCRD
  BY <1>0, <1>10 DEF applyManifests, userDeleteCRD, Charge
<1>11. ASSUME NEW r \in Resources, deleteMigration(r) PROVE Paid'
  BY <1>0, <1>11 DEF deleteMigration, Charge
<1>12. CASE UNCHANGED vars
  BY <1>12 DEF vars
<1> QED
  BY <1>1, <1>2, <1>3, <1>4, <1>5, <1>6, <1>7, <1>8, <1>9, <1>10, <1>11, <1>12
  DEF Next, InitializeStep, JobEnded

\* Every step keeps the inductive invariant.
LEMMA NextInv == IInv /\ [Next]_vars => IInv'
BY NextType, NextFresh, NextPaid DEF IInv

-----------------------------------------------------------------------------
\* The variables keep their types; there are no migrations without the CRD, and the
\* Job starts no pod beyond its limit.
THEOREM TypeCorrect == Spec => []TypeOK
<1>1. IInv => TypeOK
  BY DEF IInv, TypeInv
<1> QED
  BY <1>1, InitInv, NextInv, PTL DEF Spec

\* For any number of resources and events, an initializer that succeeds leaves exactly
\* one migration for each resource it found.
THEOREM MigrationsAreCreatedOnce == Spec => []OneMigrationEach
<1>1. IInv => OneMigrationEach
  BY DEF IInv, Fresh, Created, OneMigrationEach
<1> QED
  BY <1>1, InitInv, NextInv, PTL DEF Spec

\* For any number of events, each fails at most two attempts of the Job.
THEOREM FailuresAreBounded == Spec => []FailuresBounded
<1>1. IInv => FailuresBounded
  <2>1. IInv => failures \in Nat /\ budget \in Nat /\ Debt \in Nat
    BY BackoffLimitAssumption, EnvBudgetAssumption DEF IInv, TypeInv, TypeOK, Debt
  <2> QED
    BY <2>1, EnvBudgetAssumption DEF IInv, Paid, Events, FailuresBounded
<1> QED
  BY <1>1, InitInv, NextInv, PTL DEF Spec
=============================================================================
