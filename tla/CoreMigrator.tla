---------------------------- MODULE CoreMigrator ----------------------------
(***************************************************************************)
(* The core migrator (pkg/migrator/core.go, progress.go): one call of      *)
(* migrator.Run, and the calls that follow it after a restart, for ONE     *)
(* StorageVersionMigration object of ONE resource type.                    *)
(*                                                                         *)
(* Run lists the objects of the resource in pages and writes every object  *)
(* back unchanged, so that the API server encodes it in its current        *)
(* storage version.  The continue token of the list is saved in the        *)
(* migration object after each page; a restarted migrator resumes there.   *)
(*                                                                         *)
(* Abstractions.                                                           *)
(*  - Objects are the keys 1..NumKeys in etcd's key order.                 *)
(*  - An object's encoding is only "older than this migration object" or   *)
(*    not: `old' is the set of keys whose stored bytes the API server has  *)
(*    not encoded since the migration was created.  Every write since then *)
(*    takes a key out (a PUT of an object whose bytes are up to date is    *)
(*    not written again, which makes no difference to `old').              *)
(*  - rv[k] is k's resourceVersion (it never repeats, also across a        *)
(*    deletion) and val[k] its contents.                                   *)
(*  - A continue token is the last key of the page plus the list snapshot  *)
(*    it reads from; the "inconsistent" token the API server hands out     *)
(*    when the snapshot is compacted reads the Latest state instead.  The  *)
(*    empty token is the one that starts before the first key.             *)
(*  - Everything the environment does (client writes, failed calls,        *)
(*    restarts) is charged to one finite budget.                           *)
(*                                                                         *)
(* A definition X_Bug is X with a bug in it.  No behaviour uses it: it is  *)
(* there to show which property notices the bug.                           *)
(***************************************************************************)
EXTENDS Naturals, FiniteSets, MigratorErrors

CONSTANTS
  NumKeys,     \* number of object names
  ChunkLimit,  \* defaultChunkLimit: objects per page
  Workers,     \* the worker goroutines; defaultConcurrency of them
  Latest,      \* marks a token that is not bound to a snapshot
  EnvBudget    \* bound on the events of the environment

Keys == 1..NumKeys

\* What a list at one resource version can see.
Snapshot == [keys : SUBSET Keys, rv : [Keys -> Nat], val : [Keys -> Nat]]
Token == [pos : 0..NumKeys, snap : Snapshot \cup {Latest}]
Copy == [rv : Nat, val : Nat]

ASSUME NumKeysAssumption == NumKeys \in Nat
ASSUME ChunkLimitAssumption == ChunkLimit \in Nat \ {0}
ASSUME LatestAssumption == Latest \notin Snapshot
ASSUME EnvBudgetAssumption == EnvBudget \in Nat

VARIABLES
  \* the API server's storage for the resource
  present,  \* the keys that exist
  old,      \* the keys last written before the migration was created
  rv, val,
  \* the StorageVersionMigration object
  svm,      \* "live" or "deleted"
  saved,    \* spec.continueToken
  \* migrator.Run
  pc,       \* its next API call: "load", "list", "migrate" (migrateList), "save", or "returned"
  err,      \* what Run returned: "nil" or "error"; "none" before
  tok,      \* continueToken
  chunk,    \* the items of the page not yet sent to workc
  page,     \* the snapshot the page was read from
  last,     \* the token of the page: its last key ...
  more,     \* ... and whether it is non-empty
  errs,     \* migrateList has received an error on errc
  \* worker goroutines (migrateOneItem and try)
  wpc,      \* "idle", "get" (getBeforePut is set) or "put"
  wkey,     \* the item's key
  wcopy,    \* the object the next PUT sends
  \* environment
  budget

storeVars  == <<present, old, rv, val>>
svmVars    == <<svm, saved>>
pageVars   == <<chunk, page, last, more, errs>>
workerVars == <<wpc, wkey, wcopy>>
vars == <<storeVars, svmVars, pc, err, tok, pageVars, workerVars, budget>>

EmptyToken == [pos |-> 0, snap |-> Latest]
NoSnapshot == [keys |-> {}, rv |-> [k \in Keys |-> 0], val |-> [k \in Keys |-> 0]]
NoCopy     == [rv |-> 0, val |-> 0]

\* Run has a result exactly when it has returned, and a worker is at work, on one of the
\* objects, only while migrateList waits for it.
TypeOK ==
  /\ present \in SUBSET Keys
  /\ old \in SUBSET Keys
  /\ rv \in [Keys -> Nat]
  /\ val \in [Keys -> Nat]
  /\ svm \in {"live", "deleted"}
  /\ saved \in Token
  /\ pc \in {"load", "list", "migrate", "save", "returned"}
  /\ err \in {"none", "nil", "error"}
  /\ tok \in Token
  /\ chunk \in SUBSET Keys
  /\ page \in Snapshot
  /\ last \in 0..NumKeys
  /\ more \in BOOLEAN
  /\ errs \in BOOLEAN
  /\ wpc \in [Workers -> {"idle", "get", "put"}]
  /\ wkey \in [Workers -> 0..NumKeys]
  /\ wcopy \in [Workers -> Copy]
  /\ budget \in 0..EnvBudget
  /\ pc = "returned" <=> err # "none"
  /\ \A w \in Workers : wpc[w] # "idle" => pc = "migrate" /\ wkey[w] \in Keys

Init ==
  /\ present \in SUBSET Keys
  /\ old = present
  /\ rv = [k \in Keys |-> 0] /\ val = [k \in Keys |-> 0]
  /\ svm = "live" /\ saved = EmptyToken
  /\ pc = "load" /\ err = "none" /\ tok = EmptyToken
  /\ chunk = {} /\ page = NoSnapshot /\ last = 0 /\ more = FALSE /\ errs = FALSE
  /\ wpc = [w \in Workers |-> "idle"]
  /\ wkey = [w \in Workers |-> 0]
  /\ wcopy = [w \in Workers |-> NoCopy]
  /\ budget = EnvBudget

-----------------------------------------------------------------------------
(***************************************************************************)
(* Helpers.                                                                *)
(***************************************************************************)
\* One event of the environment.
Charge == budget > 0 /\ budget' = budget - 1

\* The state of the store that a list or a GET returns now.
Current == [keys |-> present, rv |-> rv, val |-> val]
CopyOf(snapshot, k) == [rv |-> snapshot.rv[k], val |-> snapshot.val[k]]

\* The keys a list with token t may still return, and the page of them.
Remaining(t, snapshot) == {k \in snapshot.keys : k > t.pos}
Page(S) == {k \in S : Cardinality({j \in S : j < k}) < ChunkLimit}

\* The API server stores contents v under key k: the bytes are encoded in the
\* current storage version and get a new resourceVersion.
Store(k, v) ==
  /\ present' = present \cup {k}
  /\ old' = old \ {k}
  /\ rv' = [rv EXCEPT ![k] = @ + 1]
  /\ val' = [val EXCEPT ![k] = v]

\* Run returns.
Return(e) == pc' = "returned" /\ err' = e

-----------------------------------------------------------------------------
(***************************************************************************)
(* migrator.Run: the main goroutine.                                       *)
(***************************************************************************)
\* progress.load: any failure of the GET, a deleted migration included, ends Run.
load ==
  /\ pc = "load"
  /\ \/ svm = "live" /\ tok' = saved /\ pc' = "list" /\ UNCHANGED <<err, budget>>
     \/ svm = "deleted" /\ Return("error") /\ UNCHANGED <<tok, budget>>
     \/ Charge /\ Return("error") /\ UNCHANGED tok
  /\ UNCHANGED <<storeVars, svmVars, pageVars, workerVars>>

\* m.list succeeds; Run calls migrateList on the page.
list ==
  /\ pc = "list"
  /\ LET snapshot  == IF tok.snap = Latest THEN Current ELSE tok.snap
         remaining == Remaining(tok, snapshot)
         items     == Page(remaining)
     IN /\ chunk' = items
        /\ page' = snapshot
        /\ more' = (items # remaining)
        /\ \/ items = {} /\ last' = tok.pos
           \/ \E k \in items : (\A j \in items : j <= k) /\ last' = k
  /\ errs' = FALSE
  /\ pc' = "migrate"
  /\ UNCHANGED <<storeVars, svmVars, err, tok, workerVars, budget>>

\* m.list fails with e.  A token bound to a snapshot may have expired: the
\* error carries a token for the same position in the latest state, or none.
listFails(e) ==
  /\ pc = "list"
  /\ Charge
  /\ \/ /\ e = "NotFound"
        /\ Return("error")
        /\ UNCHANGED tok
     \/ /\ e \notin {"NotFound", "ResourceExpired"}
        /\ IF canRetry(e) THEN UNCHANGED <<pc, err>> ELSE Return("error")
        /\ UNCHANGED tok
     \/ /\ e = "ResourceExpired" /\ tok.snap # Latest
        /\ \/ Return("error") /\ UNCHANGED tok
           \/ tok' = [tok EXCEPT !.snap = Latest] /\ pc' = "save" /\ UNCHANGED err
  /\ UNCHANGED <<storeVars, svmVars, pageVars, workerVars>>

migrateListReturns_IgnoresErrors ==
  /\ pc = "migrate"
  /\ chunk = {} /\ \A w \in Workers : wpc[w] = "idle"
  /\ \/ ~more /\ Return("nil") /\ UNCHANGED tok
     \/ more /\ tok' = [pos |-> last, snap |-> page] /\ pc' = "save" /\ UNCHANGED err
  /\ UNCHANGED <<storeVars, svmVars, pageVars, workerVars, budget>>
migrateListReturns_NoWait ==
  /\ pc = "migrate" /\ chunk = {} /\ ~errs /\ more
  /\ tok' = [pos |-> last, snap |-> page] /\ pc' = "save"
  /\ UNCHANGED <<err, storeVars, svmVars, pageVars, workerVars, budget>>

migrateListReturns_FailsFast ==
  /\ pc = "migrate"
  /\ \/ errs /\ Return("error") /\ UNCHANGED tok
     \/ /\ ~errs /\ chunk = {} /\ \A w \in Workers : wpc[w] = "idle"
        /\ \/ ~more /\ Return("nil") /\ UNCHANGED tok
           \/ more /\ tok' = [pos |-> last, snap |-> page] /\ pc' = "save" /\ UNCHANGED err
  /\ UNCHANGED <<storeVars, svmVars, pageVars, workerVars, budget>>

\* migrateList returns once workc is drained and the workers have ended, that
\* is, once errc is closed.  Any error ends Run; so does an empty token.
migrateListReturns ==
  /\ pc = "migrate"
  /\ chunk = {} /\ \A w \in Workers : wpc[w] = "idle"
  /\ \/ errs /\ Return("error") /\ UNCHANGED tok
     \/ ~errs /\ ~more /\ Return("nil") /\ UNCHANGED tok
     \/ ~errs /\ more /\ tok' = [pos |-> last, snap |-> page] /\ pc' = "save" /\ UNCHANGED err
  /\ UNCHANGED <<storeVars, svmVars, pageVars, workerVars, budget>>

\* progress.save.  Its GET and UPDATE are one step: the UPDATE carries the
\* resourceVersion of the GET, and a conflict retries both.  Run carries on
\* after any error, an error of an UPDATE that took effect included.
save ==
  /\ pc = "save"
  /\ \/ svm = "live" /\ saved' = tok /\ UNCHANGED budget
     \/ svm = "deleted" /\ UNCHANGED <<saved, budget>>
     \/ Charge /\ UNCHANGED saved
  /\ pc' = "list"
  /\ UNCHANGED <<storeVars, svm, err, tok, pageVars, workerVars>>

RunStep == load \/ list \/ (\E e \in Error : listFails(e)) \/ migrateListReturns \/ save

-----------------------------------------------------------------------------
(***************************************************************************)
(* The workers: worker, migrateOneItem and try.                            *)
(***************************************************************************)
\* w leaves migrateOneItem: the item is migrated or gone, or err is sent to errc.
ItemDone(w) == wpc' = [wpc EXCEPT ![w] = "idle"] /\ UNCHANGED <<wkey, wcopy>>

Retry_NeverGets(w, getBeforePut) ==
  /\ wpc' = [wpc EXCEPT ![w] = "put"]
  /\ wcopy' = [wcopy EXCEPT ![w] = CopyOf(page, wkey[w])]
  /\ UNCHANGED wkey

\* migrateOneItem retries after an error: with a GET when getBeforePut is set,
\* otherwise with a PUT of the item of the list.
Retry(w, getBeforePut) ==
  IF getBeforePut
  THEN wpc' = [wpc EXCEPT ![w] = "get"] /\ UNCHANGED <<wkey, wcopy>>
  ELSE /\ wpc' = [wpc EXCEPT ![w] = "put"]
       /\ wcopy' = [wcopy EXCEPT ![w] = CopyOf(page, wkey[w])]
       /\ UNCHANGED wkey

\* w receives the next item from workc, in the order of the list.
take(w) ==
  /\ pc = "migrate" /\ wpc[w] = "idle"
  /\ \E k \in chunk :
       /\ \A j \in chunk : k <= j
       /\ chunk' = chunk \ {k}
       /\ wpc' = [wpc EXCEPT ![w] = "put"]
       /\ wkey' = [wkey EXCEPT ![w] = k]
       /\ wcopy' = [wcopy EXCEPT ![w] = CopyOf(page, k)]
  /\ UNCHANGED <<storeVars, svmVars, pc, err, tok, page, last, more, errs, budget>>

\* m.get succeeds, or finds the object gone.
get(w) ==
  /\ wpc[w] = "get"
  /\ \/ /\ wkey[w] \in present
        /\ wpc' = [wpc EXCEPT ![w] = "put"]
        /\ wcopy' = [wcopy EXCEPT ![w] = CopyOf(Current, wkey[w])]
        /\ UNCHANGED wkey
     \/ wkey[w] \notin present /\ ItemDone(w)
  /\ UNCHANGED <<storeVars, svmVars, pc, err, tok, pageVars, budget>>

put_Unconditional(w) ==
  /\ wpc[w] = "put"
  /\ \/ wkey[w] \in present /\ Store(wkey[w], wcopy[w].val)
     \/ wkey[w] \notin present /\ UNCHANGED storeVars
  /\ ItemDone(w)
  /\ UNCHANGED <<svmVars, pc, err, tok, pageVars, budget>>

\* m.put: the API server takes the object if its resourceVersion is current,
\* answers NotFound if the object is gone and Conflict otherwise.
put(w) ==
  /\ wpc[w] = "put"
  /\ \/ /\ wkey[w] \in present /\ wcopy[w].rv = rv[wkey[w]]
        /\ Store(wkey[w], wcopy[w].val)
        /\ ItemDone(w)
     \/ wkey[w] \notin present /\ ItemDone(w) /\ UNCHANGED storeVars
     \/ /\ wkey[w] \in present /\ wcopy[w].rv # rv[wkey[w]]
        /\ Retry(w, TRUE)
        /\ UNCHANGED storeVars
  /\ UNCHANGED <<svmVars, pc, err, tok, pageVars, budget>>

\* The GET or the PUT of w fails with an error e other than NotFound and
\* Conflict.  A PUT may have taken effect all the same (a lost answer).
callFails(w, e) ==
  /\ wpc[w] # "idle"
  /\ Charge
  /\ IF canRetry(e)
     THEN Retry(w, wpc[w] = "get") /\ UNCHANGED errs
     ELSE ItemDone(w) /\ errs' = TRUE
  /\ \/ UNCHANGED storeVars
     \/ /\ wpc[w] = "put" /\ wkey[w] \in present /\ wcopy[w].rv = rv[wkey[w]]
        /\ Store(wkey[w], wcopy[w].val)
  /\ UNCHANGED <<svmVars, pc, err, tok, chunk, page, last, more>>

workerStep(w) ==
  \/ take(w) \/ get(w) \/ put(w)
  \/ \E e \in Error \ {"NotFound", "Conflict", "ResourceExpired"} : callFails(w, e)

-----------------------------------------------------------------------------
(***************************************************************************)
(* The environment.                                                        *)
(***************************************************************************)
\* Another client creates or updates object k.
clientWrite(k) ==
  /\ Charge
  /\ Store(k, val[k] + 1)
  /\ UNCHANGED <<svmVars, pc, err, tok, pageVars, workerVars>>

clientDelete(k) ==
  /\ k \in present
  /\ Charge
  /\ present' = present \ {k} /\ old' = old \ {k}
  /\ UNCHANGED <<rv, val, svmVars, pc, err, tok, pageVars, workerVars>>

\* The migration object is deleted: by the trigger controller or a user.
deleteMigration ==
  /\ svm = "live" /\ svm' = "deleted"
  /\ Charge
  /\ UNCHANGED <<storeVars, saved, pc, err, tok, pageVars, workerVars>>

\* Run is called again on the same migration object: the process restarted, or
\* the outcome of Run could not be written into the status of the migration.
restart ==
  /\ svm = "live"
  /\ Charge
  /\ pc' = "load" /\ err' = "none" /\ tok' = EmptyToken
  /\ chunk' = {} /\ page' = NoSnapshot /\ last' = 0 /\ more' = FALSE /\ errs' = FALSE
  /\ wpc' = [w \in Workers |-> "idle"]
  /\ wkey' = [w \in Workers |-> 0]
  /\ wcopy' = [w \in Workers |-> NoCopy]
  /\ UNCHANGED <<storeVars, svmVars>>

Environment ==
  \/ \E k \in Keys : clientWrite(k) \/ clientDelete(k)
  \/ deleteMigration
  \/ restart

\* Run has returned and nothing else happens.
Returned == pc = "returned" /\ UNCHANGED vars

Next == RunStep \/ (\E w \in Workers : workerStep(w)) \/ Environment \/ Returned

\* Every goroutine of the migrator runs when it can; nothing makes the
\* environment act.
Fairness == WF_vars(RunStep) /\ \A w \in Workers : WF_vars(workerStep(w))

Spec == Init /\ [][Next]_vars /\ Fairness

-----------------------------------------------------------------------------
(***************************************************************************)
(* Properties.                                                             *)
(***************************************************************************)
\* When Run returns nil, which KubeMigrator records as "Succeeded", every
\* object that exists has been written since the migration was created: no
\* page, conflict, expired token, restart or lost answer made Run skip one.
SucceededMeansMigrated == err = "nil" => present \cap old = {}

\* The continue token saved in the migration object is never ahead of the
\* work: a migrator that restarts from it skips only objects already written.
SavedTokenSound == \A k \in present \cap old : k > saved.pos

\* Writing objects back never undoes the write of another client: whatever
\* page, stale copy or retry a PUT of the migrator comes from, the contents of
\* an object change only when another client writes it.
NoLostUpdate == [][\A k \in Keys : val'[k] # val[k] => clientWrite(k)]_vars

M == INSTANCE StorageMigration WITH result <- err

\* Run keeps the promise that its caller relies on, whatever page, token, retry or
\* restart a write comes from: also, no worker outlives it, so that no object is
\* written after it has returned, with an error in particular.
KeepsPromise == M!Spec

\* Once the environment leaves the migrator alone, Run returns for good.
RunReturns == <>[](pc = "returned")

\* kubemigrator.go says of a migration object that is deleted during Run:
\* "Run() will return an error when it tries to write the continueToken into
\* the migration object".
DeletionEndsRun == [][pc = "save" /\ svm = "deleted" => pc' = "returned" /\ err' = "error"]_pc
=============================================================================
