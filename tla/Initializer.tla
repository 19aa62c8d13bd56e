---------------------------- MODULE Initializer -----------------------------
(***************************************************************************)
(* The initializer (pkg/initializer/initializer.go) and the Job that runs  *)
(* it again when it fails.  Initialize creates the CustomResourceDefinition*)
(* of StorageVersionMigrations anew, looks for migratable resources        *)
(* (MigratableResources) and creates a migration for each.                 *)
(*                                                                         *)
(* Any call may fail, with or without effect, and any error ends the       *)
(* attempt.  Deleting the CRD deletes every migration object.              *)
(*                                                                         *)
(* Everything unusual the environment does is charged to one budget.       *)
(*                                                                         *)
(* A definition X_Bug is X with a bug in it.  No behaviour uses it: it is  *)
(* there to show which property notices the bug.                           *)
(***************************************************************************)
EXTENDS Naturals

CONSTANTS
  Resources,     \* the migratable resources of the cluster
  BackoffLimit,  \* of the Job: 4 in the manifest
  EnvBudget      \* bound on the unusual events of the environment

ASSUME BackoffLimitAssumption == BackoffLimit \in Nat
ASSUME EnvBudgetAssumption == EnvBudget \in Nat

VARIABLES
  \* the API server
  crd,         \* the CRD: "absent", "live" or "terminating"
  served,      \* its resource is served
  migrations,  \* the number of migration objects of each resource
  \* one run of the initializer
  pc,          \* its next call, or "done", "failed"
  found,       \* what FindMigratableResources returned
  todo,        \* the resources of found that the loop has not reached
  \* the Job
  failures,    \* the attempts that failed
  \* ghost
  gone,        \* the resources whose migration somebody else deleted since the CRD was created
  budget

apiVars == <<crd, served, migrations, gone>>
vars == <<apiVars, pc, found, todo, failures, budget>>

NoMigrations == [r \in Resources |-> 0]

\* The types of the variables; there are no migrations without the CRD, and the Job makes
\* no more attempts than its backoffLimit allows.
TypeOK ==
  /\ crd \in {"absent", "live", "terminating"}
  /\ served \in BOOLEAN
  /\ migrations \in [Resources -> Nat]
  /\ pc \in {"getCRD", "deleteCRD", "pollCRD", "createCRD", "find", "create", "done", "failed"}
  /\ found \in SUBSET Resources /\ todo \in SUBSET found
  /\ failures \in 0..(BackoffLimit + 1)
  /\ gone \in SUBSET Resources
  /\ budget \in 0..EnvBudget
  /\ crd = "absent" => migrations = NoMigrations

\* The manifests may have installed the CRD, and migrations may be left over.
Init ==
  /\ crd \in {"absent", "live"} /\ served = (crd = "live")
  /\ migrations \in [Resources -> IF crd = "live" THEN {0, 1} ELSE {0}]
  /\ pc = "getCRD" /\ found = {} /\ todo = {}
  /\ failures = 0 /\ gone = {} /\ budget = EnvBudget

-----------------------------------------------------------------------------
(***************************************************************************)
(* Initialize.                                                             *)
(***************************************************************************)
Charge == budget > 0 /\ budget' = budget - 1

Goto(where) == pc' = where /\ UNCHANGED failures
Fail == pc' = "failed" /\ failures' = failures + 1

\* The call cannot succeed in this state; or it is disturbed, which may hide that
\* it took effect.
Refused == Fail /\ UNCHANGED <<apiVars, budget>>
Disturbed(effect) == Charge /\ Fail /\ (effect \/ UNCHANGED apiVars)

getCRD ==
  /\ pc = "getCRD"
  /\ \/ crd = "absent" /\ Goto("createCRD") /\ UNCHANGED <<apiVars, budget>>
     \/ crd # "absent" /\ Goto("deleteCRD") /\ UNCHANGED <<apiVars, budget>>
     \/ Disturbed(FALSE)
  /\ UNCHANGED <<found, todo>>

DeleteCRD == crd # "absent" /\ crd' = "terminating" /\ UNCHANGED <<served, migrations, gone>>
deleteCRD_NoWait ==
  /\ pc = "deleteCRD"
  /\ \/ DeleteCRD /\ Goto("createCRD") /\ UNCHANGED budget
     \/ crd = "absent" /\ Refused
     \/ Disturbed(DeleteCRD)
  /\ UNCHANGED <<found, todo>>
deleteCRD ==
  /\ pc = "deleteCRD"
  /\ \/ DeleteCRD /\ Goto("pollCRD") /\ UNCHANGED budget
     \/ crd = "absent" /\ Refused
     \/ Disturbed(DeleteCRD)
  /\ UNCHANGED <<found, todo>>

\* wait.PollImmediate ends when the CRD is gone.  An error of the GET ends it
\* too, and so does the timeout: if somebody created the CRD again, and also,
\* which is unusual, if it is still terminating.
pollCRD ==
  /\ pc = "pollCRD"
  /\ \/ crd = "absent" /\ Goto("createCRD") /\ UNCHANGED <<apiVars, budget>>
     \/ crd = "live" /\ Refused
     \/ Disturbed(FALSE)
  /\ UNCHANGED <<found, todo>>

CreateCRD(isServed) == crd = "absent" /\ crd' = "live" /\ served' = isServed /\ gone' = {} /\ UNCHANGED migrations

\* It may take a while until the API server serves the new resource.  The code does not
\* wait for that: three calls of the discovery come before the first migration is
\* created, and that they are too short for it is taken to be unusual.
createCRD ==
  /\ pc = "createCRD"
  /\ \/ CreateCRD(TRUE) /\ Goto("find") /\ UNCHANGED budget
     \/ CreateCRD(FALSE) /\ Goto("find") /\ Charge
     \/ crd # "absent" /\ Refused
     \/ Disturbed(CreateCRD(TRUE))
  /\ UNCHANGED <<found, todo>>

FindMigratableResources ==
  /\ pc = "find"
  /\ \/ /\ found' \in SUBSET Resources /\ todo' = found'
        /\ Goto("create") /\ UNCHANGED <<apiVars, budget>>
     \/ Disturbed(FALSE) /\ UNCHANGED <<found, todo>>

CreateMigration(r) ==
  /\ crd = "live" /\ served
  /\ migrations' = [migrations EXCEPT ![r] = @ + 1]
  /\ UNCHANGED <<crd, served, gone>>
createMigration_SkipsErrors(r) ==
  /\ pc = "create" /\ r \in todo
  /\ \/ CreateMigration(r) /\ UNCHANGED budget
     \/ ~(crd = "live" /\ served) /\ UNCHANGED <<apiVars, budget>>
     \/ Charge /\ UNCHANGED apiVars
  /\ todo' = todo \ {r} /\ Goto("create")
  /\ UNCHANGED found

\* One round of the loop over the resources; their order is that of a map.
createMigration(r) ==
  /\ pc = "create" /\ r \in todo
  /\ \/ CreateMigration(r) /\ todo' = todo \ {r} /\ Goto("create") /\ UNCHANGED budget
     \/ ~(crd = "live" /\ served) /\ Refused /\ UNCHANGED todo
     \/ Disturbed(CreateMigration(r)) /\ UNCHANGED todo
  /\ UNCHANGED found

\* Initialize returns nil.
return ==
  /\ pc = "create" /\ todo = {}
  /\ Goto("done")
  /\ UNCHANGED <<apiVars, found, todo, budget>>

InitializeStep ==
  \/ getCRD \/ deleteCRD \/ pollCRD \/ createCRD \/ FindMigratableResources
  \/ (\E r \in Resources : createMigration(r)) \/ return

-----------------------------------------------------------------------------
(***************************************************************************)
(* The Job, the API server and other clients.                              *)
(***************************************************************************)
startPod_NoLimit ==
  /\ pc = "failed"
  /\ Goto("getCRD") /\ found' = {} /\ todo' = {}
  /\ UNCHANGED <<apiVars, budget>>

\* The Job controller starts the initializer again, within the backoffLimit of the
\* manifest.
startPod ==
  /\ pc = "failed" /\ failures <= BackoffLimit
  /\ Goto("getCRD") /\ found' = {} /\ todo' = {}
  /\ UNCHANGED <<apiVars, budget>>

\* The pod is evicted or its node goes down.
crash ==
  /\ pc \notin {"done", "failed"}
  /\ Charge
  /\ Fail
  /\ UNCHANGED <<apiVars, found, todo>>

\* The API server deletes all migrations and then the CRD.
finishDeletion ==
  /\ crd = "terminating"
  /\ crd' = "absent" /\ served' = FALSE /\ migrations' = NoMigrations /\ gone' = Resources
  /\ UNCHANGED <<pc, found, todo, failures, budget>>

serve ==
  /\ crd = "live" /\ ~served
  /\ served' = TRUE
  /\ UNCHANGED <<crd, migrations, gone, pc, found, todo, failures, budget>>

\* The manifests are applied again, or a user deletes the CRD.
applyManifests ==
  /\ crd = "absent" /\ crd' = "live" /\ served' = TRUE
  /\ Charge
  /\ UNCHANGED <<migrations, gone, pc, found, todo, failures>>
userDeleteCRD ==
  /\ crd = "live" /\ crd' = "terminating"
  /\ Charge
  /\ UNCHANGED <<served, migrations, gone, pc, found, todo, failures>>

\* The trigger or a user deletes a migration.
deleteMigration(r) ==
  /\ crd = "live" /\ migrations[r] > 0
  /\ Charge
  /\ migrations' = [migrations EXCEPT ![r] = @ - 1]
  /\ gone' = gone \cup {r}
  /\ UNCHANGED <<crd, served, pc, found, todo, failures>>

JobEnded == (pc = "done" \/ failures > BackoffLimit) /\ UNCHANGED vars

Next ==
  \/ InitializeStep \/ startPod \/ crash \/ finishDeletion \/ serve
  \/ applyManifests \/ userDeleteCRD \/ (\E r \in Resources : deleteMigration(r)) \/ JobEnded

\* The initializer runs, the Job controller and the API server do their part.
Fairness ==
  WF_vars(InitializeStep) /\ WF_vars(startPod) /\ WF_vars(finishDeletion) /\ WF_vars(serve)

Spec == Init /\ [][Next]_vars /\ Fairness

-----------------------------------------------------------------------------
(***************************************************************************)
(* Properties.                                                             *)
(***************************************************************************)
\* When Initialize returns nil there is exactly one migration for each resource
\* it found, unless somebody else deleted it, and none for another resource: the
\* migrations of earlier attempts, of lost answers and of an earlier installation
\* are gone, and none is missing.
OneMigrationEach ==
  pc = "done" =>
    \A r \in Resources :
      /\ migrations[r] = 1 => r \in found
      /\ migrations[r] <= 1
      /\ migrations[r] = 0 => r \notin found \ gone

Events == EnvBudget - budget

\* An event of the environment fails at most two attempts: the attempt after a
\* deletion that was not awaited may see the CRD go between its GET and its
\* DELETE.
FailuresBounded == failures <= 2 * Events

\* So the Job completes unless there are more than BackoffLimit / 2 of them.
JobCompletes == <>(pc = "done" \/ Events > BackoffLimit \div 2)
=============================================================================
