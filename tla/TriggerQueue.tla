---------------------------- MODULE TriggerQueue ----------------------------
(***************************************************************************)
(* How the loop of the trigger controller (pkg/trigger/controller.go) uses *)
(* the client-go work queue: the informer's handlers add items, a          *)
(* goroutine hands them to Run one at a time, and Run gives an item it     *)
(* could not process to AddRateLimited.                                    *)
(*                                                                         *)
(* enqueueResource adds a pointer to a new queueItem for every event, so   *)
(* the queue never sees two events as the same item.  Run defers Done to   *)
(* its own return instead of calling it after each item: as long as the    *)
(* controller runs, no item leaves the processing set.                     *)
(*                                                                         *)
(* A definition X_Bug is X with a bug in it.  No behaviour uses it: it is  *)
(* there to show which property notices the bug.                           *)
(***************************************************************************)
EXTENDS Sequences, FiniteSets

CONSTANTS
  Items,     \* the queueItems: one per informer event
  Failing,   \* the items whose first processing may fail
  NoItem     \* no item is at hand

ASSUME NoItemAssumption == NoItem \notin Items

VARIABLES
  queue, dirty, processing,  \* workqueue.Type
  waiting,                   \* the items in the delaying queue
  work,                      \* the item the dequeue goroutine offers to Run
  item,                      \* the item Run is processing
  outcome                    \* per item: "none", "failed" or "ok"

vars == <<queue, dirty, processing, waiting, work, item, outcome>>

\* The types of the variables; only items of events are in the queue or waiting for it.
TypeOK ==
  /\ queue \in Seq(Items)
  /\ dirty \in SUBSET Items /\ processing \in SUBSET Items /\ waiting \in SUBSET Items
  /\ work \in Items \cup {NoItem} /\ item \in Items \cup {NoItem}
  /\ outcome \in [Items -> {"none", "failed", "ok"}]

Init ==
  /\ queue = <<>> /\ dirty = {} /\ processing = {} /\ waiting = {}
  /\ work = NoItem /\ item = NoItem
  /\ outcome = [i \in Items |-> "none"]

InQueue == {queue[k] : k \in DOMAIN queue}

\* workqueue.Type.Add
Add_IgnoresProcessing(i) ==
  IF i \in dirty THEN UNCHANGED <<dirty, queue>>
  ELSE dirty' = dirty \cup {i} /\ queue' = Append(queue, i)
Add(i) ==
  IF i \in dirty THEN UNCHANGED <<dirty, queue>>
  ELSE /\ dirty' = dirty \cup {i}
       /\ queue' = IF i \in processing THEN queue ELSE Append(queue, i)

\* An event of the informer: its item was never in the queue before.
enqueueResource(i) ==
  /\ outcome[i] = "none" /\ i \notin dirty \cup processing
  /\ Add(i)
  /\ UNCHANGED <<processing, waiting, work, item, outcome>>

\* The goroutine of dequeue: queue.Get, then a send that blocks until Run takes
\* the item.
dequeue_Overwrites ==
  /\ queue # <<>>
  /\ work' = Head(queue) /\ queue' = Tail(queue)
  /\ processing' = processing \cup {Head(queue)}
  /\ dirty' = dirty \ {Head(queue)}
  /\ UNCHANGED <<waiting, item, outcome>>
dequeue_Drops ==
  /\ work = NoItem /\ queue # <<>>
  /\ work' = (IF item = NoItem THEN Head(queue) ELSE NoItem) /\ queue' = Tail(queue)
  /\ processing' = processing \cup {Head(queue)}
  /\ dirty' = dirty \ {Head(queue)}
  /\ UNCHANGED <<waiting, item, outcome>>
dequeue ==
  /\ work = NoItem /\ queue # <<>>
  /\ work' = Head(queue) /\ queue' = Tail(queue)
  /\ processing' = processing \cup {Head(queue)}
  /\ dirty' = dirty \ {Head(queue)}
  /\ UNCHANGED <<waiting, item, outcome>>

\* Run takes the item.  Done is deferred to the end of Run.
receive ==
  /\ item = NoItem /\ work # NoItem
  /\ item' = work /\ work' = NoItem
  /\ UNCHANGED <<queue, dirty, processing, waiting, outcome>>

process_LosesItem ==
  /\ item # NoItem
  /\ item' = NoItem
  /\ \/ outcome' = [outcome EXCEPT ![item] = "ok"] /\ UNCHANGED waiting
     \/ /\ item \in Failing /\ outcome[item] = "none"
        /\ outcome' = [outcome EXCEPT ![item] = "failed"]
        /\ waiting' = waiting \cup {item'}
  /\ UNCHANGED <<queue, dirty, processing, work>>

\* processQueue succeeds, or fails and Run calls AddRateLimited.
process ==
  /\ item # NoItem
  /\ item' = NoItem
  /\ \/ outcome' = [outcome EXCEPT ![item] = "ok"] /\ UNCHANGED waiting
     \/ /\ item \in Failing /\ outcome[item] = "none"
        /\ outcome' = [outcome EXCEPT ![item] = "failed"]
        /\ waiting' = waiting \cup {item}
  /\ UNCHANGED <<queue, dirty, processing, work>>

\* The rate limiter's delay is over: the delaying queue adds the item.
delayEnds(i) ==
  /\ i \in waiting
  /\ waiting' = waiting \ {i}
  /\ Add(i)
  /\ UNCHANGED <<processing, work, item, outcome>>

\* All events have come, and there is nothing to hand out or to wait for.
Quiet ==
  /\ \A i \in Items : i \in processing
  /\ queue = <<>> /\ waiting = {} /\ work = NoItem /\ item = NoItem
  /\ UNCHANGED vars

Next ==
  \/ dequeue \/ receive \/ process \/ Quiet
  \/ \E i \in Items : enqueueResource(i) \/ delayEnds(i)

\* Both goroutines and the delaying queue run; events may stop coming.
Fairness ==
  /\ WF_vars(dequeue) /\ WF_vars(receive) /\ WF_vars(process)
  /\ \A i \in Items : WF_vars(delayEnds(i))

Spec == Init /\ [][Next]_vars /\ Fairness

-----------------------------------------------------------------------------
\* queue.go says of the queue: "Every element of queue should be in the dirty
\* set and not in the processing set".  It holds although Run never calls Done.
QueueSound ==
  /\ InQueue \subseteq dirty \ processing
  /\ Len(queue) = Cardinality(InQueue)

\* An event that was enqueued and has not been processed is still in the queue, in
\* the hands of the goroutine of dequeue, or in those of Run: none is lost on the way
\* through the queue and the unbuffered channel, however busy Run is.
NothingLost ==
  \A i \in dirty \cup processing :
    outcome[i] # "none" \/ i \in InQueue \cup {work, item}

\* So every event of the informer reaches processQueue.
EventsReachRun == \A i \in Items : i \in dirty ~> outcome[i] # "none"

\* An item that Run could not process is processed again, as the call of
\* AddRateLimited intends ("adds an item to the workqueue after the rate limiter
\* says it's ok").
FailedItemsAreRetried == \A i \in Items : outcome[i] = "failed" ~> outcome[i] = "ok"
=============================================================================
