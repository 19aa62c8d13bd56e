-------------------------- MODULE InformerFactory ---------------------------
(***************************************************************************)
(* The shared informer factory (pkg/clients/informer/factory.go): callers  *)
(* in any number of goroutines ask it for informers, start them, wait for  *)
(* their caches and shut it down.                                          *)
(*                                                                         *)
(* InformerFor, Start, and the first halves of Shutdown and of             *)
(* WaitForCacheSync hold the factory's lock from beginning to end, so each *)
(* is one step.  The goroutines that Start spawns, the waiting halves and  *)
(* the stop channels interleave freely.                                    *)
(*                                                                         *)
(* A definition X_Bug is X with a bug in it.  No behaviour uses it: it is  *)
(* there to show which property notices the bug.                           *)
(***************************************************************************)
EXTENDS Naturals, FiniteSets

CONSTANTS
  Types,     \* the types that have informers
  Callers,   \* goroutines that use the factory
  Channels   \* stop channels they may pass to Start and WaitForCacheSync

ASSUME TypesAssumption == IsFiniteSet(Types)

VARIABLES
  \* sharedInformerFactory
  informers,         \* the types in the map of that name
  startedInformers,
  wg,                \* the counter of the WaitGroup
  shuttingDown,
  \* the goroutines of Start
  run,      \* per type, the number of goroutines in, or about to enter, informer.Run
  stopCh,   \* the channel the informer was started with
  synced,   \* the informers whose caches have synced
  \* the callers and their channels
  pc,       \* "free", "waitGroup" (in Shutdown) or "waitSync"
  waitFor,  \* the informers WaitForCacheSync has still to wait for
  chan,     \* the channel of WaitForCacheSync
  res,      \* its result: the types that are true in it
  closed,   \* the channels that are closed
  down      \* ghost: a call of Shutdown has returned

factoryVars == <<informers, startedInformers, wg, shuttingDown>>
goroutineVars == <<run, stopCh, synced>>
callerVars == <<pc, waitFor, chan, res>>
vars == <<factoryVars, goroutineVars, callerVars, closed, down>>

\* The types of the variables; the counter of the WaitGroup never goes below zero.
TypeOK ==
  /\ informers \in SUBSET Types /\ startedInformers \in SUBSET Types
  /\ wg \in Nat /\ shuttingDown \in BOOLEAN
  /\ run \in [Types -> Nat] /\ stopCh \in [Types -> Channels] /\ synced \in SUBSET Types
  /\ pc \in [Callers -> {"free", "waitGroup", "waitSync"}]
  /\ waitFor \in [Callers -> SUBSET Types]
  /\ chan \in [Callers -> Channels]
  /\ res \in [Callers -> SUBSET Types]
  /\ closed \in SUBSET Channels /\ down \in BOOLEAN

\* NewSharedInformerFactoryWithOptions
Init ==
  /\ informers = {} /\ startedInformers = {} /\ wg = 0 /\ shuttingDown = FALSE
  /\ run = [t \in Types |-> 0] /\ synced = {}
  /\ \E ch \in Channels : stopCh = [t \in Types |-> ch] /\ chan = [c \in Callers |-> ch]
  /\ pc = [c \in Callers |-> "free"]
  /\ waitFor = [c \in Callers |-> {}] /\ res = [c \in Callers |-> {}]
  /\ closed = {} /\ down = FALSE

-----------------------------------------------------------------------------
Goto(c, where) == pc' = [pc EXCEPT ![c] = where]

\* The informer of a type is made once and shared afterwards.
InformerFor(c, t) ==
  /\ pc[c] = "free"
  /\ informers' = informers \cup {t}
  /\ UNCHANGED <<startedInformers, wg, shuttingDown, goroutineVars, callerVars, closed, down>>

\* Start spawns a goroutine for each informer of S, and the WaitGroup counts it.
Spawn_NotCounted(S, ch) ==
  /\ run' = [t \in Types |-> IF t \in S THEN run[t] + 1 ELSE run[t]]
  /\ stopCh' = [t \in Types |-> IF t \in S THEN ch ELSE stopCh[t]]
  /\ startedInformers' = startedInformers \cup S
  /\ UNCHANGED wg
Spawn(S, ch) ==
  /\ wg' = wg + Cardinality(S)
  /\ run' = [t \in Types |-> IF t \in S THEN run[t] + 1 ELSE run[t]]
  /\ stopCh' = [t \in Types |-> IF t \in S THEN ch ELSE stopCh[t]]
  /\ startedInformers' = startedInformers \cup S

Start_Again(c, ch) ==
  /\ pc[c] = "free" /\ ~shuttingDown
  /\ Spawn(informers, ch)
  /\ UNCHANGED <<informers, shuttingDown, synced, callerVars, closed, down>>
Start_AfterShutdown(c, ch) ==
  /\ pc[c] = "free"
  /\ Spawn(informers \ startedInformers, ch)
  /\ UNCHANGED <<informers, shuttingDown, synced, callerVars, closed, down>>

\* Start returns without doing anything once the factory is shutting down.
Start(c, ch) ==
  /\ pc[c] = "free" /\ ~shuttingDown
  /\ Spawn(informers \ startedInformers, ch)
  /\ UNCHANGED <<informers, shuttingDown, synced, callerVars, closed, down>>

Shutdown(c) ==
  /\ pc[c] = "free"
  /\ shuttingDown' = TRUE
  /\ Goto(c, "waitGroup")
  /\ UNCHANGED <<informers, startedInformers, wg, goroutineVars, waitFor, chan, res, closed, down>>

\* wg.Wait() returns, and so does Shutdown.
ShutdownReturns(c) ==
  /\ pc[c] = "waitGroup" /\ wg = 0
  /\ Goto(c, "free") /\ down' = TRUE
  /\ UNCHANGED <<factoryVars, goroutineVars, waitFor, chan, res, closed>>

WaitForCacheSync(c, ch) ==
  /\ pc[c] = "free"
  /\ waitFor' = [waitFor EXCEPT ![c] = informers \cap startedInformers]
  /\ chan' = [chan EXCEPT ![c] = ch]
  /\ res' = [res EXCEPT ![c] = {}]
  /\ Goto(c, "waitSync")
  /\ UNCHANGED <<factoryVars, goroutineVars, closed, down>>

waitOne_Ignored(c, t) ==
  /\ pc[c] = "waitSync" /\ t \in waitFor[c]
  /\ res' = [res EXCEPT ![c] = @ \cup {t}]
  /\ waitFor' = [waitFor EXCEPT ![c] = @ \ {t}]
  /\ UNCHANGED <<factoryVars, goroutineVars, pc, chan, closed, down>>

\* cache.WaitForCacheSync of one informer: true if its cache has synced, false
\* if the channel is closed before.  A channel that is closed may win or lose
\* against a cache that has synced.
waitOne(c, t) ==
  /\ pc[c] = "waitSync" /\ t \in waitFor[c]
  /\ \/ t \in synced /\ res' = [res EXCEPT ![c] = @ \cup {t}]
     \/ chan[c] \in closed /\ UNCHANGED res
  /\ waitFor' = [waitFor EXCEPT ![c] = @ \ {t}]
  /\ UNCHANGED <<factoryVars, goroutineVars, pc, chan, closed, down>>
waitReturns(c) ==
  /\ pc[c] = "waitSync" /\ waitFor[c] = {}
  /\ Goto(c, "free")
  /\ UNCHANGED <<factoryVars, goroutineVars, waitFor, chan, res, closed, down>>

\* A goroutine of Start: the informer syncs, and Run returns once its channel
\* is closed, synced or not; wg.Done() is deferred.
sync(t) ==
  /\ run[t] > 0 /\ t \notin synced
  /\ synced' = synced \cup {t}
  /\ UNCHANGED <<factoryVars, run, stopCh, callerVars, closed, down>>
runReturns_NotDone(t) ==
  /\ run[t] > 0 /\ stopCh[t] \in closed
  /\ run' = [run EXCEPT ![t] = @ - 1]
  /\ UNCHANGED <<factoryVars, stopCh, synced, callerVars, closed, down>>
runReturns(t) ==
  /\ run[t] > 0 /\ stopCh[t] \in closed
  /\ run' = [run EXCEPT ![t] = @ - 1]
  /\ wg' = wg - 1
  /\ UNCHANGED <<informers, startedInformers, shuttingDown, stopCh, synced, callerVars, closed, down>>

close(ch) ==
  /\ ch \notin closed
  /\ closed' = closed \cup {ch}
  /\ UNCHANGED <<factoryVars, goroutineVars, callerVars, down>>

Next ==
  \/ \E c \in Callers :
       \/ Shutdown(c) \/ ShutdownReturns(c) \/ waitReturns(c)
       \/ \E t \in Types : InformerFor(c, t) \/ waitOne(c, t)
       \/ \E ch \in Channels : Start(c, ch) \/ WaitForCacheSync(c, ch)
  \/ \E t \in Types : sync(t) \/ runReturns(t)
  \/ \E ch \in Channels : close(ch)

\* Goroutines run; callers need not call anything, nor close a channel.
Fairness ==
  /\ \A c \in Callers :
       /\ WF_vars(ShutdownReturns(c)) /\ WF_vars(waitReturns(c))
       /\ \A t \in Types : WF_vars(waitOne(c, t))
  /\ \A t \in Types : WF_vars(sync(t)) /\ WF_vars(runReturns(t))

Spec == Init /\ [][Next]_vars /\ Fairness

-----------------------------------------------------------------------------
\* "This allows Start() to be called multiple times safely": concurrent and
\* repeated calls of Start never run an informer twice.
RunsOnce == \A t \in Types : run[t] <= 1

\* "Shutdown blocks until all goroutines have terminated": once any call of it
\* has returned no informer runs, also when Start is called at the same time.
NothingRunsAfterShutdown == down => \A t \in Types : run[t] = 0

\* WaitForCacheSync reports an informer as synced only if it was started and its
\* cache has synced, whatever is requested and started while it waits.
SyncReported == \A c \in Callers : res[c] \subseteq synced \cap startedInformers

\* Every call of Shutdown returns, concurrent ones too, if the stop channels are
\* closed "either before Shutdown gets called or while it is waiting".
ShutdownTerminates ==
  \A c \in Callers : (pc[c] = "waitGroup" /\ closed = Channels) ~> pc[c] = "free"
=============================================================================
