---------------------------- MODULE KubeMigrator ----------------------------
(***************************************************************************)
(* The kube migrator controller (pkg/controller): it picks a migration     *)
(* from the cache of its informer, marks it Running, calls the core        *)
(* migrator and records the outcome.                                       *)
(*                                                                         *)
(* Every API call is a step of its own: the object may change, or be       *)
(* deleted, between any two of them.                                       *)
(*                                                                         *)
(* Abstractions.                                                           *)
(*  - conds is the set of the types of the conditions whose status is      *)
(*    True.  "Other" is a condition of somebody else.                      *)
(*  - token counts the pages whose continue token has been saved.          *)
(*  - rv is the resourceVersion, 0 if the object was never created.        *)
(*    generateName never makes a name again that an object had.            *)
(*  - core.Run is what CoreMigrator shows of it: it saves its progress by  *)
(*    name, ignoring errors, and returns.                                  *)
(*  - Everything unusual the environment does is charged to one budget.    *)
(*                                                                         *)
(* A definition X_Bug is X with a bug in it.  No behaviour uses it: it is  *)
(* there to show which property notices the bug.                           *)
(***************************************************************************)
EXTENDS Naturals, FiniteSets

CONSTANTS
  Names,        \* names of migration objects
  Migrators,    \* the replicas of the migrator that are running
  Steps,        \* attempts of updateStatus: 6 in the code
  MaxPages,     \* bound on the pages of a resource
  EnvBudget     \* bound on the unusual events of the environment

ASSUME StepsAssumption == Steps \in Nat \ {0}
ASSUME MaxPagesAssumption == MaxPages \in Nat
ASSUME EnvBudgetAssumption == EnvBudget \in Nat

Known     == {"Running", "Succeeded", "Failed"}
Condition == Known \cup {"Other"}
Object    == [live : BOOLEAN, rv : Nat, token : 0..MaxPages, conds : SUBSET Condition]
Index     == {"None", "Pending", "Running", "Completed"}

VARIABLES
  svm,     \* the StorageVersionMigration objects in the API server
  \* per replica
  cache,   \* the informer's index: the status of each object as last seen
  pc,      \* its next API call: "get" (processOne), "put" or "refresh" (updateStatus), "run", or "idle"
  name,    \* the name of the migration it processes
  m,       \* the object it holds
  cond,    \* the condition updateStatus is called with
  tries,   \* the attempts updateStatus has left
  migrations,  \* the metric of that name: completed migrations counted, per object
  \* environment
  ran,     \* ghost: the migrations for which core.Run returned nil
  budget

replicaVars == <<cache, pc, name, m, cond, tries, migrations>>
vars == <<svm, replicaVars, ran, budget>>

NoCounts == [n \in Names |-> 0]
NoObject == [live |-> FALSE, rv |-> 0, token |-> 0, conds |-> {}]

\* The types of the variables; updateStatus makes at most Steps attempts.
TypeOK ==
  /\ svm \in [Names -> Object]
  /\ cache \in [Migrators -> [Names -> Index]]
  /\ pc \in [Migrators -> {"idle", "get", "put", "refresh", "run"}]
  /\ name \in [Migrators -> Names]
  /\ m \in [Migrators -> Object]
  /\ cond \in [Migrators -> Known]
  /\ tries \in [Migrators -> 0..Steps]
  /\ migrations \in [Migrators -> [Names -> Nat]]
  /\ ran \in SUBSET Names
  /\ budget \in 0..EnvBudget

Init ==
  /\ svm = [n \in Names |-> NoObject]
  /\ cache = [r \in Migrators |-> [n \in Names |-> "None"]]
  /\ pc = [r \in Migrators |-> "idle"]
  /\ \E n \in Names : name = [r \in Migrators |-> n]
  /\ m = [r \in Migrators |-> NoObject]
  /\ cond = [r \in Migrators |-> "Running"]
  /\ tries = [r \in Migrators |-> 0]
  /\ migrations = [r \in Migrators |-> NoCounts]
  /\ ran = {}
  /\ budget = EnvBudget

-----------------------------------------------------------------------------
(***************************************************************************)
(* The objects and the typed client.                                       *)
(***************************************************************************)
Charge == budget > 0 /\ budget' = budget - 1

HasCondition(o, c) == c \in o.conds
HasCompleted(o) == HasCondition(o, "Succeeded") \/ HasCondition(o, "Failed")

migrationStatusIndexFunc(o) ==
  IF ~o.live THEN "None"
  ELSE IF HasCompleted(o) THEN "Completed"
  ELSE IF HasCondition(o, "Running") THEN "Running" ELSE "Pending"

\* GET and LIST; an object that is not live is answered with NotFound.
Get(n) == svm[n]
List == [n \in Names |-> migrationStatusIndexFunc(svm[n])]

\* Every write gives the object a new resourceVersion.
Write(n, token, conds) ==
  svm' = [svm EXCEPT ![n] = [live |-> TRUE, rv |-> @.rv + 1, token |-> token, conds |-> conds]]

\* POST and DELETE
Create(n) == svm[n].rv = 0 /\ Write(n, 0, {})
Delete(n) ==
  /\ svm[n].live
  /\ svm' = [svm EXCEPT ![n] = [live |-> FALSE, rv |-> @.rv, token |-> 0, conds |-> {}]]

\* A PUT is taken only if it carries the current resourceVersion.
Accepts_AnyVersion(n, o) == svm[n].live
Accepts(n, o) == svm[n].live /\ o.rv = svm[n].rv

\* The PUT of an object leaves its status alone, the PUT of its status
\* subresource leaves the rest alone.
Update(n, token) == Write(n, token, svm[n].conds)
UpdateStatus(n, conds) == Write(n, svm[n].token, conds)

-----------------------------------------------------------------------------
(***************************************************************************)
(* A replica: process and processOne.                                      *)
(***************************************************************************)
Goto(r, where) == pc' = [pc EXCEPT ![r] = where]

CanPick_OnlyPending(r, n) == cache[r][n] = "Pending"

\* The first object in the index of Running migrations, which has no order, or
\* else of Pending ones.
CanPick(r, n) ==
  \/ cache[r][n] = "Running"
  \/ cache[r][n] = "Pending" /\ \A k \in Names : cache[r][k] # "Running"

process(r, n) ==
  /\ pc[r] = "idle"
  /\ CanPick(r, n)
  /\ name' = [name EXCEPT ![r] = n]
  /\ Goto(r, "get")
  /\ UNCHANGED <<svm, cache, m, cond, tries, migrations, ran, budget>>

\* updateStatus is called with condition c.
StartUpdate(r, c) ==
  /\ Goto(r, "put")
  /\ cond' = [cond EXCEPT ![r] = c]
  /\ tries' = [tries EXCEPT ![r] = Steps]

processOne_TrustsCache(r) ==
  /\ pc[r] = "get"
  /\ LET o == Get(name[r])
     IN \/ o.live /\ m' = [m EXCEPT ![r] = o] /\ StartUpdate(r, "Running")
        \/ ~o.live /\ Goto(r, "idle") /\ UNCHANGED <<m, cond, tries>>
  /\ UNCHANGED <<svm, cache, name, migrations, ran, budget>>

\* processOne reads the object afresh; it returns at once if the GET fails, the
\* object is gone or the migration has completed.
processOne(r) ==
  /\ pc[r] = "get"
  /\ LET o == Get(name[r])
     IN \/ /\ o.live /\ ~HasCompleted(o)
           /\ m' = [m EXCEPT ![r] = o]
           /\ StartUpdate(r, "Running")
           /\ UNCHANGED budget
        \/ ~(o.live /\ ~HasCompleted(o)) /\ Goto(r, "idle") /\ UNCHANGED <<m, cond, tries, budget>>
        \/ Charge /\ Goto(r, "idle") /\ UNCHANGED <<m, cond, tries>>
  /\ UNCHANGED <<svm, cache, name, migrations, ran>>

\* core.Run saves its progress in whatever object has the name now.
save(r) ==
  /\ pc[r] = "run"
  /\ LET o == Get(name[r])
     IN o.live /\ o.token < MaxPages /\ Update(name[r], o.token + 1)
  /\ UNCHANGED <<replicaVars, ran, budget>>

runReturns_ErrorShadowed(r) ==
  /\ pc[r] = "run"
  /\ StartUpdate(r, "Succeeded")
  /\ \/ ran' = ran \cup {name[r]} /\ UNCHANGED budget
     \/ Charge /\ UNCHANGED ran
  /\ UNCHANGED <<svm, cache, name, m, migrations>>

\* core.Run returns nil or an error.
runReturns(r) ==
  /\ pc[r] = "run"
  /\ \/ /\ StartUpdate(r, "Succeeded")
        /\ ran' = ran \cup {name[r]}
        /\ UNCHANGED budget
     \/ StartUpdate(r, "Failed") /\ Charge /\ UNCHANGED ran
  /\ UNCHANGED <<svm, cache, name, m, migrations>>

-----------------------------------------------------------------------------
(***************************************************************************)
(* updateStatus.  The object that a successful PUT returns is dropped, so  *)
(* m is out of date from then on.                                          *)
(***************************************************************************)
newConditions(o, c) == (o.conds \ Known) \cup {c}

\* ObserveSucceededMigration or ObserveFailedMigration, and processOne returns.
Observe(r) ==
  /\ migrations' = [migrations EXCEPT ![r][name[r]] = @ + 1]
  /\ Goto(r, "idle")

\* updateStatus returns nil or, after the last attempt, an error.  The error is
\* only logged when it is about the outcome.
UpdateDone(r) ==
  \/ cond[r] = "Running" /\ Goto(r, "run") /\ UNCHANGED migrations
  \/ cond[r] # "Running" /\ Observe(r)
GiveUp(r) ==
  \/ cond[r] = "Running" /\ Goto(r, "idle") /\ UNCHANGED migrations
  \/ cond[r] # "Running" /\ Observe(r)

\* The PUT is taken; or refused, because the object has changed or is gone; or
\* the call fails, possibly after it took effect.
putStatus(r) ==
  /\ pc[r] = "put"
  /\ LET taken == Accepts(name[r], m[r])
         write == UpdateStatus(name[r], newConditions(m[r], cond[r]))
     IN \/ taken /\ write /\ UpdateDone(r) /\ UNCHANGED budget
        \/ ~taken /\ Goto(r, "refresh") /\ UNCHANGED <<svm, migrations, budget>>
        \/ /\ Charge
           /\ Goto(r, "refresh")
           /\ (taken /\ write) \/ UNCHANGED svm
           /\ UNCHANGED migrations
  /\ UNCHANGED <<cache, name, m, cond, tries, ran>>

refresh_Unbounded(r) ==
  /\ pc[r] = "refresh"
  /\ \/ m' = [m EXCEPT ![r] = IF Get(name[r]).live THEN Get(name[r]) ELSE @] /\ UNCHANGED budget
     \/ Charge /\ UNCHANGED m
  /\ tries' = [tries EXCEPT ![r] = @ - 1]
  /\ Goto(r, "put")
  /\ UNCHANGED <<svm, cache, name, cond, migrations, ran>>
refresh_Shadowed(r) ==
  /\ pc[r] = "refresh"
  /\ UNCHANGED <<m, budget>>
  /\ tries' = [tries EXCEPT ![r] = @ - 1]
  /\ IF tries[r] > 1 THEN Goto(r, "put") /\ UNCHANGED migrations ELSE GiveUp(r)
  /\ UNCHANGED <<svm, cache, name, cond, ran>>

\* m is read again, if it can be.
refresh(r) ==
  /\ pc[r] = "refresh"
  /\ \/ m' = [m EXCEPT ![r] = IF Get(name[r]).live THEN Get(name[r]) ELSE @] /\ UNCHANGED budget
     \/ Charge /\ UNCHANGED m
  /\ tries' = [tries EXCEPT ![r] = @ - 1]
  /\ IF tries[r] > 1 THEN Goto(r, "put") /\ UNCHANGED migrations ELSE GiveUp(r)
  /\ UNCHANGED <<svm, cache, name, cond, ran>>

MigratorStep(r) ==
  \/ \E n \in Names : process(r, n)
  \/ processOne(r) \/ save(r) \/ runReturns(r) \/ putStatus(r) \/ refresh(r)

-----------------------------------------------------------------------------
(***************************************************************************)
(* The informer, restarts and the other clients.                           *)
(***************************************************************************)
\* The watch of the informer reports the object n.
deliver(r, n) ==
  /\ cache[r][n] # List[n]
  /\ cache' = [cache EXCEPT ![r][n] = List[n]]
  /\ UNCHANGED <<svm, pc, name, m, cond, tries, migrations, ran, budget>>

\* The process stops and starts again: Run waits for the informer to list all
\* migrations, the metrics start from zero.
restart(r) ==
  /\ Charge
  /\ cache' = [cache EXCEPT ![r] = List]
  /\ Goto(r, "idle")
  /\ migrations' = [migrations EXCEPT ![r] = NoCounts]
  /\ UNCHANGED <<svm, name, m, cond, tries, ran>>

\* The trigger, the initializer or a user creates a migration.
createMigration(n) ==
  /\ Create(n)
  /\ UNCHANGED <<replicaVars, ran, budget>>

\* The trigger or a user deletes it.
deleteMigration(n) ==
  /\ Charge
  /\ Delete(n)
  /\ UNCHANGED <<replicaVars, ran>>

\* Another client adds a condition that the migrator does not know.
addCondition(n) ==
  /\ svm[n].live /\ ~HasCondition(svm[n], "Other")
  /\ Charge
  /\ UpdateStatus(n, svm[n].conds \cup {"Other"})
  /\ UNCHANGED <<replicaVars, ran>>

\* process finds nothing to do in any replica, and nothing else happens.
Quiet ==
  /\ \A r \in Migrators : pc[r] = "idle" /\ \A n \in Names : ~CanPick(r, n)
  /\ UNCHANGED vars

Next ==
  \/ \E r \in Migrators : MigratorStep(r) \/ restart(r) \/ \E n \in Names : deliver(r, n)
  \/ \E n \in Names : createMigration(n) \/ deleteMigration(n) \/ addCondition(n)
  \/ Quiet

\* The replicas run and the informers deliver; nothing makes the others act.
Fairness ==
  \A r \in Migrators : WF_vars(MigratorStep(r)) /\ \A n \in Names : WF_vars(deliver(r, n))

Spec == Init /\ [][Next]_vars /\ Fairness

-----------------------------------------------------------------------------
(***************************************************************************)
(* Properties.                                                             *)
(***************************************************************************)
\* The status that everybody else reads off an object.
StatusOf(o) ==
  IF ~o.live THEN "None"
  ELSE IF HasCondition(o, "Succeeded") THEN "Succeeded"
  ELSE IF HasCondition(o, "Failed") THEN "Failed"
  ELSE IF HasCondition(o, "Running") THEN "Running" ELSE "Pending"

L == INSTANCE MigrationLifecycle WITH status <- [n \in Names |-> StatusOf(svm[n])]

\* One replica implements the life of a migration: started once, completed once
\* and left alone then, although process picks it from a stale cache and
\* updateStatus writes whatever object it finds after an error.
Lifecycle == L!Spec

\* A migration is Succeeded only if a Run of it returned nil, although the error
\* of Run, of the PUT and of the GET after it go by the same name.
OutcomeIsOwn == \A n \in Names : HasCondition(svm[n], "Succeeded") => n \in ran

\* updateStatus sends an object that is as old as the whole Run.  Still it takes
\* back nothing that was written meanwhile: no saved progress, and no condition
\* of somebody else ("keeps unknown conditions").
NothingTakenBack ==
  [][\A n \in Names :
       svm[n].live /\ svm'[n].live =>
         /\ svm'[n].token >= svm[n].token
         /\ HasCondition(svm[n], "Other") => HasCondition(svm'[n], "Other")]_vars

\* Every migration is completed, or deleted, once the environment settles.
MigrationsComplete ==
  \A n \in Names : svm[n].live ~> (~svm[n].live \/ HasCompleted(svm[n]))

\* processOne reads the object "to make sure [...] the object is not completed":
\* a completed migration is not run again.
CompletedIsFinal ==
  [][\A n \in Names : HasCompleted(svm[n]) /\ svm'[n].live => svm'[n].conds \cap Known = svm[n].conds \cap Known]_vars

\* The help text of the metric: "The number of completed migration".  A migration
\* is counted again only if its outcome could not be written although updateStatus
\* tried, which takes a failed call for each attempt but the first: that one meets
\* an old object in any case.
CountedOnce ==
  \A r \in Migrators, n \in Names :
    migrations[r][n] > 0 => (migrations[r][n] - 1) * (Steps - 1) <= EnvBudget - budget
=============================================================================
