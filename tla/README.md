# TLA+ specification of kube-storage-version-migrator

When a Kubernetes API server starts to encode a resource in a new storage
version, the objects already in etcd stay in the old one until somebody writes
them. This project does the writing (the *migrator*) and decides when it has to
be done (the *trigger*). A cluster administrator reads one field,
`StorageState.status.persistedStorageVersionHashes`, to learn whether an old
version can be dropped; if the field misses a version that objects are still
encoded in, those objects become unreadable after the upgrade. Most of what is
specified here serves to say precisely when that field can be believed.

Paths below are relative to `src/`.

## 1. The system

| Component | State it keeps | Operations | Talks to |
|---|---|---|---|
| core migrator (`pkg/migrator/core.go`, `progress.go`) | the continue token, the page at hand, worker goroutines; persistent: `spec.continueToken` | `Run`, `migrateList`, `worker`, `migrateOneItem`, `try`, `progress.load`/`save` | API server (LIST, GET, PUT of the resource; GET, UPDATE of the migration object) |
| error classes (`pkg/migrator/errors.go`) | none | `interpret`, `canRetry` | called by the core migrator |
| kube migrator controller (`pkg/controller`) | an informer cache indexed by status; persistent: `status.conditions` | `Run`, `process`, `processOne`, `updateStatus` | calls the core migrator, one migration at a time |
| migration trigger (`pkg/trigger`) | an informer cache indexed by resource, a work queue, the heartbeat time; persistent: `StorageState` objects | discovery routine (`processDiscovery`, `processDiscoveryResource`, `cleanMigrations`, `launchMigration`, `updateStorageState`), migration management routine (`processQueue`, `processMigration`, `markStorageStateSucceeded`) | API server (discovery, `StorageState`s, creates and deletes migrations); sees the migrator only through the migration objects |
| trigger work queue (client-go `workqueue` as `pkg/trigger/controller.go` uses it) | queue, dirty and processing sets, delayed items, an unbuffered channel | `enqueueResource`, `dequeue`, the loop of `Run` | informer handlers, `Run` |
| initializer (`pkg/initializer`) | none of its own; the CRD and a migration per built-in resource | `Initialize`, `initializeCRD`, `FindMigratableResources` | API server; run by a Job, which repeats it when it fails |
| shared informer factory (`pkg/clients/informer/factory.go`, generated) | the informers, those started, a WaitGroup | `InformerFor`, `Start`, `WaitForCacheSync`, `Shutdown` | whoever embeds it, from several goroutines |
| API types (`pkg/apis`), the other generated clients (`pkg/clients`), metrics, commands (`cmd`) | the typed clients and the counter `migrations` are part of `KubeMigrator` and `MigrationTrigger` | | |

Trigger, migrator and initializer lock nothing: trigger, migrator, users and API server meet only in the
objects of the API server, with optimistic concurrency (`resourceVersion`) on
each of them. What makes this hard:

* **Failure between steps.** A discovery of one resource is up to six API calls
  (GET and DELETE the state, DELETE migrations, CREATE one, CREATE the state,
  UPDATE its status). Any of them can fail, take effect and be answered with an
  error, or be the last one before a crash, and most errors are only logged.
* **Stale reads.** The informer cache lags; the discovery document is older than
  the update that records it; a page of objects is older than the PUTs of its
  items.
* **Restarts.** The migrator resumes from a saved token and from the Running
  condition; the trigger starts over; the Job repeats the initializer.
* **Overlap.** The deployments have one replica, but a rolling update runs two for
  a while, and each of the controllers relies on being alone.
* **Retries without bound.** The core migrator retries nearly every error, with
  no limit.
* **Timing.** A storage state that was not updated for two periods is thrown
  away; discoveries and queue items are served by one loop.

What makes each component correct:

* core migrator: it writes every object before it reports success, it never
  undoes another client's write, its saved token is never ahead of its work, and
  it returns;
* trigger: the persisted hashes cover what is in etcd, and are eventually refined
  to the current version;
* work queue: no event is lost, every event reaches `processQueue`; an item that failed
  is retried;
* kube migrator: a migration is started once, completed once and left alone then;
  its outcome is that of a `Run`; nothing that others wrote into the object is
  undone; every migration completes;
* initializer: a run that was interrupted can be repeated, leaves one migration per
  resource, and the Job survives a bounded number of faults; the built-in resources
  that can be migrated through several versions are found, and no foreign ones;
* informer factory: concurrent callers start an informer once and leave none
  running after `Shutdown`.

`PROJECT.json` lists the hazards one by one, each at its line.

## 2. Modules

| Module | Content |
|---|---|
| `MigrationLifecycle` | abstract: the life of a migration object as others see it |
| `StorageMigration` | abstract: what a call of `migrator.Run` does to the objects of a resource |
| `MigratorErrors` | the error classes and `canRetry` |
| `CoreMigrator` | the core migrator, its API server, its clients; implements `StorageMigration` |
| `KubeMigrator` | the kube migrator: `process`, `processOne`, `updateStatus`; implements `MigrationLifecycle` |
| `MigrationTrigger` | the trigger for one resource, with informer, users, a second replica; the migrator is `MigrationLifecycle` |
| `MC_MigrationTrigger` | symmetry for TLC |
| `TriggerQueue` | the work queue and the loop of `Run` |
| `MigratableResources` | `discover.go`: three calls and a computation |
| `MC_MigratableResources` | the discovery documents for TLC |
| `Initializer` | `initializer.go` and its Job |
| `InformerFactory` | the shared informer factory |
| `XProofs` | theorems about X: `CoreMigrator`, `MigrationTrigger`, `TriggerQueue`, `KubeMigrator`, `MigratableResources`, `Initializer`, `InformerFactory` |
| `KubeMigratorMetricProofs` | theorems about the metric of `KubeMigrator` and about completed migrations |

How they fit together. `CoreMigrator` implements `StorageMigration` (`KeepsPromise`):
whatever pages, tokens, workers and retries there are, `Run` has objects encoded anew
while it runs and not afterwards, does nothing else to them, and returns nil only if
no old object is left. `KubeMigrator` calls it (`runReturns`, with `save` for
the writes of its progress) and shows that a migration object is Succeeded only
after such a `Run` (`OutcomeIsOwn`) and goes through Pending, Running and one
outcome (`Lifecycle`). `MigrationTrigger` instantiates `MigrationLifecycle` for the
steps of the migrator and for the creation and deletion of migrations, and adds
only what a success means for the data. `Initializer` uses of `MigratableResources`
that it returns some set of resources or an error.

Definitions keep the names of the Go functions. A definition `X_Bug` is `X` with
a bug; nothing uses it. It records which property notices that bug.

### 2.1 CoreMigrator

The main goroutine is at one of its API calls (`pc` = `load`, `list`, `migrate`,
`save`) or has returned; a worker is `idle`, about to GET or about to PUT. Each
API call is an action, since the store may change between any two of them:

| Action | Code |
|---|---|
| `load` | `progress.load`; any error ends `Run` |
| `list`, `listFails` | the LIST; NotFound, retriable, expired token (with or without a new one), other errors |
| `take` | the `workc` channel |
| `get`, `put`, `callFails` | `try` and the retry loop of `migrateOneItem`: conflict leads to a GET, every other retriable error to a PUT of the copy from the page or, when the GET failed, to another GET |
| `migrateListReturns` | `errc` is closed; error, last page, next page |
| `save` | `progress.save`; its error is only logged |
| `restart` | `Run` is called again: a crash, or `updateStatus` failed |

Objects are keys in etcd's order. `old` is the set of keys whose bytes are older
than the migration object: that is all a migration has to change, whatever
versions there are. `rv` and `val` are an object's resourceVersion and contents.
A continue token is a position and the snapshot it reads from; the token the API
server hands out with "resource expired" reads the latest state.

What is external (the API server): a PUT is taken iff its resourceVersion is
current; a list page is a prefix of the remaining keys of the snapshot, and its
token is empty iff the page is the last one. A PUT that fails may have taken
effect.

### 2.2 MigrationTrigger

`ss` is the `StorageState` of the resource: whether it exists, its current hash,
the set of persisted hashes, its age in discovery periods. `status` and `since`
are the migration objects: their condition, and (a ghost) the versions the API
server has used since they were created. `data` is what the field is about: the
versions that persisted instances are encoded in. `cache` and `queue` are the
informer's cache and the work queue, `doc` is the hash in the discovery document
being processed.

A discovery is a sequence of actions, one per API call: `processDiscovery`,
`processDiscoveryResource` (the GET and the decision), `deleteState`,
`listMigrations`, `cleanMigrations(n)`, `launchMigration`, `updateStorageState`.
`processQueue(n)` and `markStorageStateSucceeded` are the other routine. They
interleave with `deliver` and `touch` (informer events), `periodEnds` (time),
`restart`, the migrator (`startMigration`, `endMigration`), users and
`changeVersion`.

The migrator appears by its promises. `startMigration` and `endMigration` are the
actions `Start` and `End` of `MigrationLifecycle`, which `KubeMigrator` implements;
and when migration `n` becomes Succeeded, every instance is encoded in one of the
versions of `since[n]`, which is the action `Return("nil")` of `StorageMigration`, and
`SucceededMeansMigrated` of `CoreMigrator`.

`otherDiscovers` and `otherMarks` are a second replica of the trigger during a
rolling update: a whole discovery, or the processing of a whole item, between two
steps of the first replica.

A GET followed by an UPDATE with its resourceVersion is one step. Persisted
hashes are a set: the list is compared with a one-element list only, and a list
with the same element twice and nothing else does not arise. A resource without a
storageVersionHash is skipped by `processDiscoveryResource`; for the resource of
the model that is the same as a discovery that lacks it (`processDiscoveryFails`).

Four constants say what the environment is spared. `trigger_safety` and the theorem
assume all four; with any one of them given up TLC finds `PersistedSound`
violated:

| Constant | Assumption | Without it |
|---|---|---|
| `DeletesReliable` | the DELETE of a migration in `cleanMigrations` succeeds, and no user deletes one just then | run `trigger_delete` |
| `ChangesObserved` | a discovery records each storage version before the next change | v1, v2, v1 between two discoveries: v2 is never listed, although `types.go:160` says that a new version is appended |
| `CacheTimely` | the informer is up to date when a discovery begins; the comment in `cleanMigrations` relies on this ("The delay of the cache shouldn't matter in practice") | a migration missing from the cache survives the clean-up, with the effect of `trigger_delete` |
| `~Overlap` | no second trigger runs | one replica finds a migration Succeeded, the other records a new hash, the first refines the list to it: the order 2-b-c-d-3 that the comment at `controller.go:145` excludes for one process |

`trigger_liveness` assumes none of them, but `Converges` is about the list alone: it
ends up with the current version and no other. It says nothing about the data. A list
that became wrong for one of these reasons can stay wrong: after the failed DELETE of
`trigger_delete`, say, the list has the current version only, so later discoveries find
the resource migrated and launch nothing, until the version changes again or the state
is thrown away as stale.

A storage state whose first status update failed is left with an empty status, and
a migration that succeeds then marks it with the empty hash; the next discovery
repairs it.

### 2.3 TriggerQueue

`Add` and `dequeue` are the client-go queue's `Add` and `Get` (external, read in
`vendor/`). The goroutine of `dequeue` holds one item (`work`) and `Run` another one
(`item`): `receive` is the `case w := <-work` of `Run`, `process` the end of
`processQueue`. `Done` does not occur: `defer mt.queue.Done(w)` stands in an endless
loop. Hence an item that failed does not come back, against what `AddRateLimited` is
for (run `trigger_retry`), and `MigrationTrigger` drops the item of a `processQueue`
that failed.

### 2.4 KubeMigrator and MigrationLifecycle

`svm` holds the migration objects: whether they exist, their `resourceVersion`, the
number of pages whose token was saved, and the types of the conditions that are
True ("Other" stands for a condition the migrator does not know). Each replica has
an informer index (`cache`), the object it holds (`m`), and is at one of its calls:

| Action | Code |
|---|---|
| `process` | picks a Running migration from the index, or else a Pending one |
| `processOne` | the GET, and the check that the migration exists and has not completed |
| `putStatus`, `refresh` | `updateStatus`: PUT of the status with the object at hand; after an error a GET, whose error is dropped; the last attempt gives up |
| `save`, `runReturns` | `core.Run`: progress, nil or an error |
| `deliver`, `restart` | the watch; a new process |
| `createMigration`, `deleteMigration`, `addCondition` | the trigger, the initializer, users, other controllers |

A call that fails may have taken effect. After a successful PUT the returned object
is dropped, so the first PUT of the outcome always meets a conflict and the second
one succeeds. `generateName` lets no name return.

A PUT that is still on its way when its process stops is not an action of its own;
what it can do, namely to write a status after another process has taken over, is
what the second replica of `kube_replicas` does.

### 2.5 MigratableResources and Initializer

`MigratableResources` has one action per call (`findCustomGroups`,
`findAggregatedGroups`, `FindMigratableResources`); groups are added and removed between
them (`addGroup`, `removeGroup`), each together with its APIService. The list that the code keeps per resource is the set of the positions in
the document that it stands for (`groupVersions`), and its first element the least of
them (`First`). `FindsMigratable` compares what the code makes of its three answers with
what the API server itself serves. What it shows of the race: a group that is added
between the call that looks for such groups and the discovery call is taken for a
built-in one, so its resources may be migrated as well; no built-in resource that can
be migrated through two versions is missed. The latter rests on `KindsAssumption`: no
group is both built-in and custom or aggregated. A user who adds a
CustomResourceDefinition to a built-in group, or has one served by an aggregated
server, makes the code ignore the whole group.

The doc comment of `FindMigratableResources` and the code disagree about a resource that
is served in two versions but supports list and update in only one of them. The comment
(`discover.go:61`) says "2. exclude all the resource that is only available from one
groupVersions" and then "3. exclude the resource that does not support "list" and
"update"", which keeps it. The code looks at the verbs of each version before it counts
the versions (`discover.go:108`), so the resource counts as available from one and is
not migrated. The model does what the code does; `FindsMigratable` takes no side and
leaves the outcome of such a resource open.

`Initializer` has one action per call of `initializeCRD` and `Initialize`, the Job
(`startPod`, `crash`, `BackoffLimit`), the API server (`finishDeletion`, which
removes all migrations with the CRD, and `serve`), and users (`applyManifests`,
`userDeleteCRD`, `deleteMigration`). `gone` records whose migration somebody else
has deleted since. A new CRD that the API server does not serve yet when the first
migration is created counts as an event, too. The code does not wait for it; only the
three calls of the discovery lie in between. On an API server that always takes longer
every attempt fails, and `FailuresBounded` and `JobCompletes` say nothing about it.

### 2.6 InformerFactory

The methods of the factory hold its lock from beginning to end, so each is one
step; `Shutdown` and `WaitForCacheSync` then wait outside of it, which are further
steps. `run` counts the goroutines per informer, `wg` is the WaitGroup, `closed` the
stop channels that are closed. The commands of this repository build their informers
directly; the factory is what `pkg/clients` offers to others.

## 3. Runs

Every budget (`EnvBudget`) counts the unusual events of the environment: faults,
client writes, changes, user actions, restarts. They may come at any moment in
any order; within the budget everything is explored.

| Run | Bounds | Result |
|---|---|---|
| `core_migrator` | 5 keys, pages of 2, 1 worker (the code's `defaultConcurrency`), budget 3 | `KeepsPromise`, `SucceededMeansMigrated`, `SavedTokenSound`, `NoLostUpdate`, `RunReturns` hold |
| `core_deletion` | 2 keys, budget 1 | `DeletionEndsRun` fails |
| `trigger_safety` | 2 versions, 3 migration objects, budget 3, all assumptions | `PersistedSound` holds |
| `trigger_liveness` | the same, budget 2, no assumption, two replicas | `Converges` holds |
| `trigger_delete` | budget 2 | `PersistedSound` fails when a DELETE fails |
| `trigger_queue` | 4 events, 2 of which may fail | `QueueSound`, `NothingLost`, `EventsReachRun` hold |
| `trigger_retry` | 2 events, 1 may fail | `FailedItemsAreRetried` fails |
| `kube_migrator` | 2 migrations, 1 replica, 3 attempts, 1 page to save, budget 3 | `Lifecycle`, `OutcomeIsOwn`, `NothingTakenBack`, `CountedOnce`, `MigrationsComplete` hold |
| `kube_replicas` | 1 migration, 2 replicas, no fault | `CompletedIsFinal` fails |
| `migratable_resources` | 5 group versions (2 built-in groups, 1 custom, 1 aggregated, 1 name that cannot be parsed), 5 lists each | `FindsMigratable` holds |
| `initializer` | 2 resources, `BackoffLimit` 4 (the manifest's), budget 6 | `OneMigrationEach`, `FailuresBounded`, `JobCompletes` hold |
| `informer_factory` | 2 informers, 2 goroutines, 2 channels | `RunsOnce`, `NothingRunsAfterShutdown`, `SyncReported`, `ShutdownTerminates` hold |

Why the bounds are enough. Three pages give a first, a middle and a last one, so
that a token is used, expires and is saved before and after a restart; with two
objects in a page one can fail while the other is still to be written; three events
allow a conflict, an expired token and a restart in the same run. With two versions a change and its reversal are possible; three
migrations are one to be cleaned, one of a user and one to be launched.
`updateStatus` makes six attempts in the code and three in the run: the first one
for the outcome always conflicts, the second one may, and with three faults the last
one fails too, so all its ways out are taken; `CountedOnce` is stated in terms of
`Steps`. Saved progress needs one page to be lost. Five events are more than the
limit of the Job, two each is what `JobCompletes` claims it bears. The proofs of
section 4 have none of these bounds.

### Fairness

* `CoreMigrator`: weak fairness of the main goroutine and of each worker. They
  block on nothing but API calls, which end, and on channels, which are served.
  The environment has no fairness, and its budget is finite: `RunReturns` says
  that `Run` returns after the last fault. It does *not* say so under a lasting
  error: `canRetry` has no bound (hazard at `core.go:211`).
* `MigrationTrigger`: weak fairness of the trigger's loop, of the ticker and of
  the informer. Strong fairness of the migrator,
  for this reason: a migration that ends while a discovery is due or under way
  is seen as finished but not yet recorded, and that discovery relaunches it.
  Nothing in the code excludes that this happens every time, so each time is
  charged to the budget, and strong fairness says that otherwise the migration
  ends at some moment between two discoveries. A discovery takes seconds and they
  are ten minutes apart, and a migration that is Pending or Running is left alone
  by a discovery, so this is an assumption about time and not about the order of
  steps. Without it `Converges` fails by that relaunch cycle.
* `TriggerQueue`: weak fairness of both goroutines and the delaying queue.
* `KubeMigrator`: weak fairness of each replica, whose API calls end, and of each
  delivery of its informer's watch. `MigrationsComplete` holds because the faults
  are finite; `core.Run` is taken to return, which is `RunReturns`.
* `Initializer`: weak fairness of the process, of the Job controller and of the API
  server's finalizer and discovery. `JobCompletes` says what they achieve if there
  are at most `BackoffLimit / 2` events; the fairness says nothing about the
  30 seconds of the poll, whose timeout is an event.
* `InformerFactory`: weak fairness of the goroutines. Nobody has to close a channel:
  `ShutdownTerminates` is about the case that all are closed.

### Findings

1. `core_deletion`. `kubemigrator.go:116` relies on `Run` to return an error once
   its migration object is gone; `core.go:138` only logs it. `Run` works through
   the rest of the resource, and no other migration is processed meanwhile.
2. `trigger_delete`. An error of `relaunchMigration` is only logged
   (`discovery_handler.go:211`), and the new hash is recorded. The old migration
   is still there; when it is processed as Succeeded, the list shrinks to the
   new hash although nothing was migrated to it.
3. `trigger_retry`. The deferred `Done` keeps a failed item from being retried.
   `Converges` shows that the next discoveries make up for it.
4. `kube_replicas`. `processOne` reads the object to be sure that it has not
   completed (`kubemigrator.go:99`), but the GET in the retry loop of `updateStatus`
   does not check that. If another replica completes the migration between the two,
   the retry sets it back to Running and runs it again. With one replica this does
   not happen (`Lifecycle`, proved).

## 4. Proofs

Checked by TLAPS for every value of the constants that satisfies their `ASSUME`s.

`CoreMigratorProofs`:

* `TypeCorrect`: `TypeOK`, with the awaited workers.
* `NothingSkipped`: `SucceededMeansMigrated`; `RestartSkipsNothing`:
  `SavedTokenSound`. Neither is inductive: they follow from `IInv`, which follows
  the work along the key order. Every unwritten key is past the saved token
  (`SavedCovers`) and past the token in memory (`TokenCovers`); while a page is
  at work, each unwritten key up to its last key is still in the chunk, in the
  hands of a worker, or an error has been recorded (`PageCovers`); if the page is
  the last one there is none beyond it (`PageComplete`); a snapshot older than the
  store contains every key that is still unwritten (`OldPresent`), because
  unwritten keys existed when the migration was created. `PageIsPrefix` is the
  lemma about `Page`: it leaves out only keys above its own.
* `NothingUndone`: `NoLostUpdate`, from `VersionInv`: a copy, of the page or of a
  GET, that has the object's resourceVersion has its contents.
* `ImplementsStorageMigration`: `KeepsPromise`, the refinement of `StorageMigration`.
  The mapping keeps the objects and their contents and takes `err` for the result.
  It needs both invariants (`IInv` for a nil, `VersionInv` for a PUT), and of `TypeOK`
  that a worker is at work only while `migrateList` waits for it, so that every PUT
  falls between the call of `Run` and its return.

`MigrationTriggerProofs`:

* `TypeCorrect`: `TypeOK`; a state with a current hash never has an empty list.
* `PersistedIsSound`: under `DeletesReliable`, `ChangesObserved`, `CacheTimely` and
  `~Overlap`, `PersistedSound`. `IInv` says which versions a migration can
  span. Once a hash is recorded, no migration spans a version older than it
  (`LiveKnown`), because at each step of a discovery the migrations that do are
  those still to be deleted (`Cleaning`). Hence the migration that
  `markStorageStateSucceeded` acts on covers the data with versions known to the
  state (`MarkSound`). The serial order of the two routines is what makes
  `MarkSound` hold from the GET of the migration to the update, as the comment in
  `Run` (controller.go:145) explains.

`KubeMigratorProofs`:

* `TypeCorrect`, `OutcomesAreOwn` (`OutcomeIsOwn`) and `NothingIsTakenBack`
  (`NothingTakenBack`), for any number of replicas. `IInv` adds that an outcome about
  to be written is that of a `Run` (`OwnOutcome`), and that the object a replica holds
  is out of date or has the conditions of the current one (`HeldCurrent`): so a PUT
  that is accepted leaves foreign conditions in place.
* `ImplementsLifecycle`: with one replica `Spec => Lifecycle`, that is, the migrator
  implements `MigrationLifecycle` under the mapping `StatusOf`. The invariant is
  `Phase`: while a replica is about to mark its migration Running, the known
  conditions of the object are none or Running; during `Run` they are exactly
  Running; while the outcome is to be written, Running or that outcome. It survives
  refreshes, lost answers, deletions and foreign conditions because nobody else
  writes a known condition, which is what the assumption `Single` is for: with two
  replicas the formula fails, as `kube_replicas` shows.

`KubeMigratorMetricProofs`, with one replica and any number of migrations, attempts
and faults:

* `CountsArePaidFor`: `CountedOnce`. A migration is counted again only after
  `updateStatus` gave up on its outcome, but nothing in the state remembers how it
  failed. The invariant `Paid` says of each migration that all its counts but the last
  have been paid for with events, and all of them if it is open, that is, could be
  counted again. While `updateStatus` is at work, `Spent` reads off the attempts that
  are left how many events have hit this call so far: every attempt but the first meets
  a failed call, a failed GET before it, or an object that somebody changed since that
  GET. When the last attempt fails, `Spent` is `Steps - 1`, the price of a count.
  `Single` is needed: a second replica makes attempts fail at no cost.
* `NoFaultNoSecondCount`: so without any fault no migration is counted twice.
* `CompletedStaysSo`: `CompletedIsFinal`, from `Phase`. This is the property that
  `kube_replicas` violates with two replicas.

`MigratableResourcesProofs`: `TypeCorrect` and `MigratableAreFound` (`FindsMigratable`),
for any discovery document, under `KindsAssumption`. The invariant is `LocalServices` (each built-in group has a local
APIService, and a local APIService of another group comes with a
CustomResourceDefinition) and `AnswerCurrent` (the answer is what the code computes
from the world as it is, because later changes are no longer looked at).
`CountsBuiltin` is the lemma in which the calls meet: what is served locally and by no
group the first call has seen is built-in. That a nonempty set of positions has a first
one (`FirstMember`) is the well-foundedness of the naturals.

`InitializerProofs`: `TypeCorrect`; `MigrationsAreCreatedOnce` (`OneMigrationEach`),
from `Fresh`: since the CRD was created by this attempt, the migrations are those its
loop has created; `FailuresAreBounded` (`FailuresBounded`), from `Paid`: `Debt` is the
number of attempts (0 to 2) that may yet fail without another event, and failures and
debt together are at most twice the events.

`InformerFactoryProofs`: `TypeCorrect` (the WaitGroup never goes below zero),
`InformersRunOnce`, `ShutdownIsFinal`, `SyncIsReported`, from an invariant that the
WaitGroup counts exactly the running informers (`Counted`), which are started ones,
and that a factory with a call of `Shutdown` under way starts nothing
(`ShutdownBegan`).

`TriggerQueueProofs`: `TypeCorrect` and `QueueIsSound` (`QueueSound`), from
`NoDuplicates`; `NoEventIsLost` (`NothingLost`), the safety half of `EventsReachRun`: the
goroutine takes an item from the queue only when it has handed over the one before, and
`Run` takes one only when it has finished the one before.

Every invariant and every action property that a passing run checks is the statement
of one of these theorems. Only model-checked: `RunReturns`, `Converges`,
`EventsReachRun`, `MigrationsComplete`, `JobCompletes` and `ShutdownTerminates`
(liveness under fairness is out of the prover's reach), and the violations.

## 5. Not modelled

* Several resources: they share the trigger's loop, so one of them can only delay
  another, which `periodEnds` allows at any time. Likewise the migrations of the
  migrator share nothing but its loop, which `kube_migrator` has with two.
* A lasting error of one object. `canRetry` has no bound and nothing in the
  repository promises one (hazard at `core.go:211`).
* Growth of the processing set and of the list of deferred calls in the trigger's
  loop, which no bounded instance shows.
* A migration that a user deletes and creates again under a fixed name while it runs:
  `updateStatus` then gives the new object the outcome of the old one.
* The end of the process: `Run` returns when the context is cancelled and `run`
  panics; what is left behind is that of the `restart` actions.
* The sleep of `SuggestsClientDelay`, the counters of migrated and remaining objects
  (written, never read back), logging, flags, HTTP handlers, construction of clients,
  the schema of the CRDs, fakes, listers, deep copies and scheme registration, which
  keep no state.
* Conversion and admission of objects: an object that cannot be written is an
  error class.

## 6. Plan

Done: `CoreMigrator` with `StorageMigration` (what a success means), `MigrationTrigger`
(what the field means), `TriggerQueue`, `KubeMigrator` with `MigrationLifecycle` (who
may rely on what), `MigratableResources` and `Initializer`, `InformerFactory`, and the
proofs of all their safety properties.

Left:

1. What of `PersistedSound` survives when one of the four assumptions is given up. A
   discovery that completes without an error does not repair a wrong list, because it
   finds the resource migrated. To be examined: whether the next change of the version
   does, once its migration has succeeded without another fault.
2. What holds of `CountedOnce` and `Lifecycle` with several replicas, in terms of the
   time they overlap.
