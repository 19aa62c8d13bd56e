------------------------- MODULE TriggerQueueProofs -------------------------
(***************************************************************************)
(* Proofs about TriggerQueue, for any number of events.                    *)
(***************************************************************************)
EXTENDS TriggerQueue, Integers, FiniteSetTheorems, TLAPS

\* No item stands in the queue twice.
NoDuplicates == \A j, k \in DOMAIN queue : queue[j] = queue[k] => j = k

IInv ==
  /\ TypeOK
  /\ NoDuplicates
  /\ InQueue \subseteq dirty \ processing

-----------------------------------------------------------------------------
\* Add puts an item in the queue only if it is neither there nor being processed.
LEMMA AddStep ==
  ASSUME IInv, NEW i \in Items, Add(i), processing' = processing
  PROVE  /\ queue' \in Seq(Items) /\ dirty' \in SUBSET Items
         /\ NoDuplicates' /\ InQueue' \subseteq dirty' \ processing'
<1>0. queue \in Seq(Items) /\ dirty \in SUBSET Items
  BY DEF IInv, TypeOK
<1>1. CASE queue' = queue /\ dirty \subseteq dirty' /\ dirty' \in SUBSET Items
  BY <1>0, <1>1 DEF IInv, NoDuplicates, InQueue
<1>2. CASE i \notin dirty \cup processing /\ queue' = Append(queue, i) /\ dirty' = dirty \cup {i}
  <2>1. /\ queue' \in Seq(Items) /\ DOMAIN queue' = 1..(Len(queue) + 1)
        /\ DOMAIN queue = 1..Len(queue) /\ Len(queue) \in Nat
        /\ queue'[Len(queue) + 1] = i /\ \A k \in 1..Len(queue) : queue'[k] = queue[k]
    BY <1>0, <1>2
  <2>2. \A k \in 1..Len(queue) : queue[k] \in dirty \ processing
    BY <2>1 DEF IInv, InQueue
  <2>3. NoDuplicates'
    BY <1>2, <2>1, <2>2 DEF IInv, NoDuplicates
  <2>4. InQueue' \subseteq dirty' \ processing'
    BY <1>2, <2>1, <2>2 DEF InQueue
  <2> QED
    BY <1>0, <1>2, <2>1, <2>3, <2>4
<1> QED
  BY <1>0, <1>1, <1>2 DEF Add

\* Every step keeps the inductive invariant.
LEMMA NextInv == IInv /\ [Next]_vars => IInv'
<1> SUFFICES ASSUME IInv, [Next]_vars PROVE IInv'
  OBVIOUS
<1>0. TypeOK /\ queue \in Seq(Items)
  BY DEF IInv, TypeOK
<1>1. ASSUME NEW i \in Items, enqueueResource(i) \/ delayEnds(i) PROVE IInv'
  BY <1>0, <1>1, AddStep DEF enqueueResource, delayEnds, IInv, TypeOK
<1>2. CASE dequeue
  <2>1. /\ Head(queue) \in Items /\ queue' \in Seq(Items) /\ Len(queue) \in Nat \ {0}
        /\ DOMAIN queue = 1..Len(queue) /\ DOMAIN queue' = 1..(Len(queue) - 1)
        /\ Head(queue) = queue[1] /\ \A k \in 1..(Len(queue) - 1) : queue'[k] = queue[k + 1]
    BY <1>0, <1>2 DEF dequeue
  <2>2. TypeOK'
    BY <1>0, <1>2, <2>1 DEF dequeue, TypeOK
  <2>3. NoDuplicates'
    <3> SUFFICES ASSUME NEW j \in 1..(Len(queue) - 1), NEW k \in 1..(Len(queue) - 1), queue'[j] = queue'[k]
                 PROVE  j = k
      BY <2>1 DEF NoDuplicates
    <3>1. queue[j + 1] = queue[k + 1] /\ j + 1 \in DOMAIN queue /\ k + 1 \in DOMAIN queue
      BY <2>1
    <3>2. j + 1 = k + 1
      BY <3>1 DEF IInv, NoDuplicates
    <3> QED
      BY <3>2
  <2>4. \A k \in 1..(Len(queue) - 1) : queue[k + 1] \in dirty \ processing /\ queue[k + 1] # queue[1]
    BY <2>1 DEF IInv, NoDuplicates, InQueue
  <2>5. InQueue' \subseteq dirty' \ processing'
    BY <1>2, <2>1, <2>4 DEF dequeue, InQueue
  <2> QED
    BY <2>2, <2>3, <2>5 DEF IInv
<1>3. CASE receive \/ process
  BY <1>0, <1>3 DEF receive, process, IInv, TypeOK, NoDuplicates, InQueue
<1>4. CASE UNCHANGED vars
  BY <1>0, <1>4 DEF vars, IInv, TypeOK, NoDuplicates, InQueue
<1> QED
  BY <1>1, <1>2, <1>3, <1>4 DEF Next, Quiet

\* The inductive invariant holds initially.
LEMMA InitInv == Init => IInv
BY DEF Init, IInv, TypeOK, NoDuplicates, InQueue

\* A queue without duplicates has as many elements as places.
LEMMA NoDuplicatesCount ==
  ASSUME TypeOK, NoDuplicates
  PROVE  Len(queue) = Cardinality(InQueue)
<1>1. queue \in Seq(Items) /\ DOMAIN queue = 1..Len(queue) /\ Len(queue) \in Nat
  BY DEF TypeOK
<1>2. queue \in Bijection(1..Len(queue), InQueue)
  <2>1. queue \in [1..Len(queue) -> InQueue] /\ \A i \in InQueue : \E k \in 1..Len(queue) : queue[k] = i
    BY <1>1 DEF InQueue
  <2>2. IsInjective(queue)
    BY DEF NoDuplicates, IsInjective
  <2> QED
    BY <2>1, <2>2 DEF Bijection, Injection, Surjection
<1>3. IsFiniteSet(1..Len(queue)) /\ Cardinality(1..Len(queue)) = Len(queue)
  BY <1>1, FS_Interval
<1> QED
  BY <1>2, <1>3, FS_Bijection DEF ExistsBijection

-----------------------------------------------------------------------------
\* The variables keep their types.
THEOREM TypeCorrect == Spec => []TypeOK
<1>1. IInv => TypeOK
  BY DEF IInv
<1> QED
  BY <1>1, InitInv, NextInv, PTL DEF Spec

\* For any number of events, the queue keeps the invariant that queue.go states,
\* although Run never calls Done.
THEOREM QueueIsSound == Spec => []QueueSound
<1>1. IInv => QueueSound
  BY NoDuplicatesCount DEF IInv, QueueSound
<1> QED
  BY <1>1, InitInv, NextInv, PTL DEF Spec

-----------------------------------------------------------------------------
(***************************************************************************)
(* No event is lost.                                                       *)
(***************************************************************************)
\* Add brings the item into the queue, unless it has been handed out before or is
\* in the queue already.
LEMMA AddKeeps ==
  ASSUME IInv, NothingLost, NEW i \in Items, Add(i), UNCHANGED <<processing, work, item, outcome>>
  PROVE  NothingLost'
<1>0. queue \in Seq(Items)
  BY DEF IInv, TypeOK
<1>1. CASE i \in dirty \cup processing
  <2>1. dirty' \cup processing' = dirty \cup processing /\ queue' = queue
    BY <1>1 DEF Add
  <2> QED
    BY <2>1 DEF NothingLost, InQueue
<1>2. CASE i \notin dirty \cup processing
  <2>1. dirty' = dirty \cup {i} /\ queue' = Append(queue, i)
    BY <1>2 DEF Add
  <2>2. InQueue' = InQueue \cup {i}
    <3>1. /\ DOMAIN queue = 1..Len(queue) /\ DOMAIN queue' = 1..(Len(queue) + 1)
          /\ Len(queue) \in Nat /\ queue'[Len(queue) + 1] = i
          /\ \A k \in 1..Len(queue) : queue'[k] = queue[k]
      BY <1>0, <2>1
    <3> QED
      BY <3>1 DEF InQueue
  <2> QED
    BY <2>1, <2>2 DEF NothingLost
<1> QED
  BY <1>1, <1>2

\* Every step keeps each event in one of its places.
LEMMA NextLost == IInv /\ NothingLost /\ [Next]_vars => NothingLost'
<1> SUFFICES ASSUME IInv, NothingLost, [Next]_vars PROVE NothingLost'
  OBVIOUS
<1>0. TypeOK /\ queue \in Seq(Items)
  BY DEF IInv, TypeOK
<1>1. ASSUME NEW i \in Items, enqueueResource(i) \/ delayEnds(i) PROVE NothingLost'
  BY <1>1, AddKeeps DEF enqueueResource, delayEnds
<1>2. CASE dequeue
  <2>1. /\ Len(queue) \in Nat \ {0} /\ DOMAIN queue = 1..Len(queue)
        /\ DOMAIN queue' = 1..(Len(queue) - 1) /\ Head(queue) = queue[1]
        /\ \A k \in 1..(Len(queue) - 1) : queue'[k] = queue[k + 1]
    BY <1>0, <1>2 DEF dequeue
  <2>2. InQueue \subseteq InQueue' \cup {Head(queue)}
    <3> SUFFICES ASSUME NEW k \in 1..Len(queue), k # 1 PROVE queue[k] \in InQueue'
      BY <2>1 DEF InQueue
    <3>1. k - 1 \in DOMAIN queue' /\ queue'[k - 1] = queue[k]
      BY <2>1
    <3> QED
      BY <3>1 DEF InQueue
  <2>3. /\ dirty' \cup processing' \subseteq dirty \cup processing \cup {Head(queue)}
        /\ work = NoItem /\ work' = Head(queue) /\ UNCHANGED <<item, outcome>>
    BY <1>2 DEF dequeue
  <2>4. NoItem \notin dirty \cup processing
    BY <1>0, NoItemAssumption DEF TypeOK
  <2> QED
    BY <2>2, <2>3, <2>4 DEF NothingLost
<1>3. CASE receive
  <2>1. NoItem \notin dirty \cup processing
    BY <1>0, NoItemAssumption DEF TypeOK
  <2> QED
    BY <1>3, <2>1 DEF receive, NothingLost, InQueue
<1>4. CASE process
  <2>1. outcome'[item] # "none" /\ \A i \in Items \ {item} : outcome'[i] = outcome[i]
    BY <1>0, <1>4 DEF process, TypeOK
  <2>2. UNCHANGED <<queue, dirty, processing, work>> /\ dirty \cup processing \subseteq Items
    BY <1>0, <1>4 DEF process, TypeOK
  <2> QED
    BY <2>1, <2>2 DEF NothingLost, InQueue
<1>5. CASE UNCHANGED vars
  BY <1>5 DEF vars, NothingLost, InQueue
<1> QED
  BY <1>1, <1>2, <1>3, <1>4, <1>5 DEF Next, Quiet

\* For any number of events and any order of the goroutines' steps, no event is lost
\* between the informer's handler and processQueue.
THEOREM NoEventIsLost == Spec => []NothingLost
<1>1. Init => NothingLost
  BY DEF Init, NothingLost
<1> QED
  BY <1>1, InitInv, NextInv, NextLost, PTL DEF Spec
=============================================================================
