------------------------- MODULE QueueMonitorProofs -------------------------
(***************************************************************************)
(* Proofs about QueueMonitor, for every set of threads, capacity and       *)
(* number of items: no wakeup of a bounded queue is lost.                  *)
(***************************************************************************)
EXTENDS QueueMonitor, FiniteSetTheorems, SequenceTheorems, TLAPS

LEMMA CapacityPositive == Capacity \in Nat /\ Capacity >= 1
BY CapacityAssumption DEF Capacity

Queue == [buf : Seq(1 .. MaxItems), end : BOOLEAN,
          status : (EndStatuses \ Benign) \cup {"Eof"}]

(* Everything that is counted is finite.                                   *)
LEMMA Counting ==
  ASSUME TypeOK, NEW S \in SUBSET Threads
  PROVE  /\ IsFiniteSet(Awake(S)) /\ Cardinality(Awake(S)) \in Nat
         /\ IsFiniteSet(inside \cap S) /\ Cardinality(inside \cap S) \in Nat
<1>1. IsFiniteSet(Threads)
  BY ThreadsAssumption, FS_Union DEF Threads
<1>2. IsFiniteSet(Awake(S)) /\ IsFiniteSet(inside \cap S)
  BY <1>1, FS_Subset DEF TypeOK, Awake
<1>3. QED
  BY <1>2, FS_CardinalityType

LEMMA QueueFacts ==
  ASSUME TypeOK
  PROVE  /\ queue \in Queue
         /\ queue.buf \in Seq(1 .. MaxItems)
         /\ Len(queue.buf) \in Nat
         /\ queue.status # "Ok"
BY DEF TypeOK, Queue, Benign

LEMMA EnqueueFacts ==
  ASSUME NEW q \in Queue, NEW v \in 1 .. MaxItems
  PROVE  /\ Enqueue(q, v) \in Queue
         /\ Len(Enqueue(q, v).buf) = Len(q.buf) + 1
         /\ Enqueue(q, v).end = q.end
<1> DEFINE b == Append(q.buf, v)
<1>1. q.buf \in Seq(1 .. MaxItems)
  BY DEF Queue
<1>2. Enqueue(q, v) = [buf |-> b, end |-> q.end, status |-> q.status]
  BY SMTT(40) DEF Queue, Enqueue
<1>3. b \in Seq(1 .. MaxItems) /\ Len(b) = Len(q.buf) + 1
  BY <1>1
<1> HIDE DEF b
<1>4. QED
  BY <1>2, <1>3 DEF Queue

LEMMA DequeueFacts ==
  ASSUME NEW q \in Queue, q.buf # << >>
  PROVE  /\ Dequeue(q) \in Queue
         /\ Head(q.buf) \in 1 .. MaxItems
         /\ Len(q.buf) >= 1
         /\ Len(Dequeue(q).buf) = Len(q.buf) - 1
         /\ Dequeue(q).end = q.end
<1> DEFINE b == Tail(q.buf)
<1>1. q.buf \in Seq(1 .. MaxItems) /\ Len(q.buf) \in Nat
  BY DEF Queue
<1>2. Dequeue(q) = [buf |-> b, end |-> q.end, status |-> q.status]
  BY SMTT(40) DEF Queue, Dequeue
<1>3. /\ b \in Seq(1 .. MaxItems) /\ Len(b) = Len(q.buf) - 1
      /\ Head(q.buf) \in 1 .. MaxItems
  BY <1>1, HeadTailProperties
<1>4. Len(q.buf) >= 1
  BY <1>1, EmptySeq
<1> HIDE DEF b
<1>5. QED
  BY <1>2, <1>3, <1>4 DEF Queue

(* notify_one leaves everyone asleep only if nobody of that side slept.    *)
LEMMA NotifyFacts ==
  ASSUME NEW S, NEW T, S \cap T = {}, asleep' \in NotifyOne(S)
  PROVE  /\ asleep' \subseteq asleep
         /\ asleep' \cap T = asleep \cap T
         /\ \/ asleep' \cap S = {}
            \/ \E u \in asleep \cap S : asleep' = asleep \ {u}
<1>1. CASE asleep \cap S = {}
  BY <1>1 DEF NotifyOne
<1>2. CASE asleep \cap S # {}
  <2>1. PICK u \in asleep \cap S : asleep' = asleep \ {u}
    BY <1>2 DEF NotifyOne
  <2>2. QED
    BY <2>1
<1>3. QED
  BY <1>1, <1>2

-----------------------------------------------------------------------------
(* One item more: it wakes a consumer, or none of them sleeps.             *)
LEMMA ItemPut ==
  ASSUME IInv, asleep' \in NotifyOne(Consumers),
         inside' \cap Consumers = inside \cap Consumers,
         Len(queue'.buf) = Len(queue.buf) + 1
  PROVE  ItemHasTaker'
<1>1. SUFFICES ASSUME asleep' \cap Consumers # {}
               PROVE  Cardinality(Awake(Consumers)') >= Len(queue'.buf)
  BY DEF ItemHasTaker, Awake
<1>2. Consumers \cap Producers = {} /\ TypeOK
  BY ThreadsAssumption DEF IInv
<1>3. PICK u \in asleep \cap Consumers : asleep' = asleep \ {u}
  BY <1>1, <1>2, NotifyFacts
<1>4. Cardinality(Awake(Consumers)) >= Len(queue.buf)
  BY <1>3 DEF IInv, ItemHasTaker
<1>5. Awake(Consumers)' = Awake(Consumers) \cup {u} /\ u \notin Awake(Consumers)
  BY <1>2, <1>3 DEF Awake, TypeOK
<1>6. IsFiniteSet(Awake(Consumers)) /\ Cardinality(Awake(Consumers)) \in Nat
  BY <1>2, Counting DEF Threads
<1>7. Cardinality(Awake(Consumers)') = Cardinality(Awake(Consumers)) + 1
  BY <1>5, <1>6, FS_AddElement
<1>8. Len(queue.buf) \in Nat
  BY <1>2, QueueFacts
<1>9. QED
  BY <1>4, <1>6, <1>7, <1>8

(* One place more: it wakes a producer, or none of them sleeps.            *)
LEMMA PlaceFreed ==
  ASSUME IInv, asleep' \in NotifyOne(Producers),
         inside' \cap Producers = inside \cap Producers,
         Len(queue'.buf) = Len(queue.buf) - 1
  PROVE  PlaceHasFiller'
<1>1. SUFFICES ASSUME asleep' \cap Producers # {}
               PROVE  Cardinality(Awake(Producers)') + Len(queue'.buf) >= Capacity
  BY DEF PlaceHasFiller, Awake
<1>2. Producers \cap Consumers = {} /\ TypeOK
  BY ThreadsAssumption DEF IInv
<1>3. PICK u \in asleep \cap Producers : asleep' = asleep \ {u}
  BY <1>1, <1>2, NotifyFacts
<1>4. Cardinality(Awake(Producers)) + Len(queue.buf) >= Capacity
  BY <1>3 DEF IInv, PlaceHasFiller
<1>5. Awake(Producers)' = Awake(Producers) \cup {u} /\ u \notin Awake(Producers)
  BY <1>2, <1>3 DEF Awake, TypeOK
<1>6. IsFiniteSet(Awake(Producers)) /\ Cardinality(Awake(Producers)) \in Nat
  BY <1>2, Counting DEF Threads
<1>7. Cardinality(Awake(Producers)') = Cardinality(Awake(Producers)) + 1
  BY <1>5, <1>6, FS_AddElement
<1>8. Len(queue.buf) \in Nat
  BY <1>2, QueueFacts
<1>9. QED
  BY <1>4, <1>6, <1>7, <1>8, CapacityPositive

-----------------------------------------------------------------------------
(* An item is put: by a thread t that leaves push(), or by try_push.       *)
LEMMA PutStep ==
  ASSUME IInv, PutItem, NEW t \in Producers, t \notin asleep,
         ~queue.end, Len(queue.buf) < Capacity,
         \/ t \in inside /\ inside' = inside \ {t}
         \/ /\ inside' = inside
            /\ accepted + Cardinality(inside \cap Producers) < MaxItems
  PROVE  IInv'
<1>1. TypeOK /\ Producers \cap Consumers = {} /\ t \notin Consumers
  BY ThreadsAssumption DEF IInv
<1>2. /\ queue \in Queue /\ Len(queue.buf) \in Nat
      /\ accepted \in Nat
      /\ IsFiniteSet(inside \cap Producers)
      /\ Cardinality(inside \cap Producers) \in Nat
      /\ accepted + Cardinality(inside \cap Producers) <= MaxItems
  BY <1>1, QueueFacts, Counting DEF TypeOK, Threads
<1>3. /\ accepted + 1 \in 1 .. MaxItems
      /\ accepted + 1 + Cardinality(inside' \cap Producers) <= MaxItems
  <2>1. CASE t \in inside /\ inside' = inside \ {t}
    <3>1. /\ inside' \cap Producers = (inside \cap Producers) \ {t}
          /\ t \in inside \cap Producers
      BY <2>1
    <3>2. Cardinality(inside' \cap Producers)
            = Cardinality(inside \cap Producers) - 1
      BY <1>2, <3>1, FS_RemoveElement, ZenonT(60)
    <3>3. Cardinality(inside' \cap Producers) \in Nat
      BY <1>2, <3>1, FS_RemoveElement, FS_CardinalityType
    <3>4. QED
      BY <1>2, <3>2, <3>3, MaxItemsAssumption
  <2>2. CASE inside' = inside /\ accepted + Cardinality(inside \cap Producers) < MaxItems
    BY <1>2, <2>2, MaxItemsAssumption
  <2>3. QED
    BY <2>1, <2>2
<1>4. /\ queue' \in Queue
      /\ Len(queue'.buf) = Len(queue.buf) + 1
      /\ queue'.end = queue.end
  BY <1>2, <1>3, EnqueueFacts DEF PutItem
<1>5. /\ accepted' = accepted + 1 /\ delivered' = delivered /\ outcome' = outcome
      /\ asleep' \in NotifyOne(Consumers)
  BY DEF PutItem
<1>6. /\ asleep' \subseteq asleep
      /\ asleep' \cap Producers = asleep \cap Producers
      /\ asleep' \subseteq inside' /\ inside' \subseteq Threads
  BY <1>1, <1>5, NotifyFacts DEF TypeOK
<1>7. TypeOK'
  BY <1>1, <1>2, <1>3, <1>4, <1>5, <1>6 DEF TypeOK, Queue
<1>8. ItemHasTaker'
  BY <1>1, <1>4, <1>5, ItemPut
<1>9. PlaceHasFiller'
  <2>1. SUFFICES ASSUME asleep' \cap Producers # {}
                 PROVE  Cardinality(Awake(Producers)') + Len(queue'.buf) >= Capacity
    BY DEF PlaceHasFiller, Awake
  <2>2. Cardinality(Awake(Producers)) + Len(queue.buf) >= Capacity
    BY <1>6, <2>1 DEF IInv, PlaceHasFiller
  <2>3. IsFiniteSet(Awake(Producers)) /\ Cardinality(Awake(Producers)) \in Nat
    BY <1>1, Counting DEF Threads
  <2>4. CASE inside' = inside
    <3>1. Awake(Producers)' = Awake(Producers)
      BY <1>6, <2>4 DEF Awake
    <3>2. QED
      BY <1>2, <1>4, <2>2, <2>3, <3>1, CapacityPositive
  <2>5. CASE t \in inside /\ inside' = inside \ {t}
    <3>1. Awake(Producers)' = Awake(Producers) \ {t} /\ t \in Awake(Producers)
      BY <1>6, <2>5 DEF Awake
    <3>2. Cardinality(Awake(Producers)') = Cardinality(Awake(Producers)) - 1
      BY <2>3, <3>1, FS_RemoveElement
    <3>3. QED
      BY <1>2, <1>4, <2>2, <2>3, <3>2, CapacityPositive
  <2>6. QED
    BY <2>4, <2>5
<1>10. EndWakesAll'
  BY <1>4 DEF EndWakesAll
<1>11. WithinCapacity'
  BY <1>2, <1>4, CapacityPositive DEF WithinCapacity
<1>12. QED
  BY <1>7, <1>8, <1>9, <1>10, <1>11 DEF IInv

(* An item is taken: by a thread t that leaves pop(), or by try_pop.       *)
LEMMA TakeStep ==
  ASSUME IInv, TakeItem, NEW t \in Consumers, t \notin asleep,
         queue.buf # << >>,
         inside' = inside \/ (t \in inside /\ inside' = inside \ {t})
  PROVE  IInv'
<1>1. TypeOK /\ Producers \cap Consumers = {} /\ t \notin Producers
  BY ThreadsAssumption DEF IInv
<1>2. queue \in Queue /\ Len(queue.buf) \in Nat
  BY <1>1, QueueFacts
<1>3. /\ queue' \in Queue
      /\ Len(queue.buf) >= 1
      /\ Len(queue'.buf) = Len(queue.buf) - 1
      /\ queue'.end = queue.end
      /\ Head(queue.buf) \in 1 .. MaxItems
  BY <1>2, DequeueFacts DEF TakeItem
<1>4. /\ accepted' = accepted /\ outcome' = outcome
      /\ delivered' = Append(delivered, Head(queue.buf))
      /\ asleep' \in NotifyOne(Producers)
  BY DEF TakeItem
<1>5. /\ asleep' \subseteq asleep
      /\ asleep' \cap Consumers = asleep \cap Consumers
      /\ asleep' \subseteq inside' /\ inside' \subseteq Threads
      /\ inside' \cap Producers = inside \cap Producers
  BY <1>1, <1>4, NotifyFacts DEF TypeOK
<1>6. TypeOK'
  <2>1. delivered' \in Seq(1 .. MaxItems)
    BY <1>1, <1>3, <1>4, AppendProperties DEF TypeOK
  <2>2. QED
    BY <1>1, <1>3, <1>4, <1>5, <2>1 DEF TypeOK, Queue
<1>7. PlaceHasFiller'
  BY <1>3, <1>4, <1>5, PlaceFreed
<1>8. ItemHasTaker'
  <2>1. SUFFICES ASSUME asleep' \cap Consumers # {}
                 PROVE  Cardinality(Awake(Consumers)') >= Len(queue'.buf)
    BY DEF ItemHasTaker, Awake
  <2>2. Cardinality(Awake(Consumers)) >= Len(queue.buf)
    BY <1>5, <2>1 DEF IInv, ItemHasTaker
  <2>3. IsFiniteSet(Awake(Consumers)) /\ Cardinality(Awake(Consumers)) \in Nat
    BY <1>1, Counting DEF Threads
  <2>4. CASE inside' = inside
    <3>1. Awake(Consumers)' = Awake(Consumers)
      BY <1>5, <2>4 DEF Awake
    <3>2. QED
      BY <1>2, <1>3, <2>2, <2>3, <3>1
  <2>5. CASE t \in inside /\ inside' = inside \ {t}
    <3>1. Awake(Consumers)' = Awake(Consumers) \ {t} /\ t \in Awake(Consumers)
      BY <1>5, <2>5 DEF Awake
    <3>2. Cardinality(Awake(Consumers)') = Cardinality(Awake(Consumers)) - 1
      BY <2>3, <3>1, FS_RemoveElement
    <3>3. QED
      BY <1>2, <1>3, <2>2, <2>3, <3>2
  <2>6. QED
    BY <2>4, <2>5
<1>9. EndWakesAll'
  BY <1>3, <1>5 DEF IInv, EndWakesAll
<1>10. WithinCapacity'
  BY <1>2, <1>3, CapacityPositive DEF IInv, WithinCapacity
<1>11. QED
  BY <1>6, <1>7, <1>8, <1>9, <1>10 DEF IInv

(* Steps that leave the queue and the sleepers as they are, and only let   *)
(* threads in, or out once nobody sleeps.                                  *)
LEMMA InsideStep ==
  ASSUME IInv, UNCHANGED << queue, asleep, accepted, delivered >>,
         outcome' \in EndStatuses \cup Benign \cup {"None"},
         inside' \subseteq Threads, asleep \subseteq inside',
         accepted + Cardinality(inside' \cap Producers) <= MaxItems,
         inside \subseteq inside' \/ asleep = {}
  PROVE  IInv'
<1>1. TypeOK
  BY DEF IInv
<1>2. TypeOK'
  BY <1>1 DEF TypeOK
<1>3. ASSUME NEW S \in SUBSET Threads, asleep # {}
      PROVE  /\ Cardinality(Awake(S)) <= Cardinality(Awake(S)')
             /\ Cardinality(Awake(S)) \in Nat /\ Cardinality(Awake(S)') \in Nat
  <2>1. Awake(S) \subseteq Awake(S)'
    BY <1>3 DEF Awake
  <2>2. IsFiniteSet(Awake(S)')
    <3>1. IsFiniteSet(Threads) /\ Awake(S)' \subseteq Threads
      BY <1>3, ThreadsAssumption, FS_Union DEF Threads, Awake
    <3>2. QED
      BY <3>1, FS_Subset
  <2>3. QED
    BY <2>1, <2>2, FS_Subset, FS_CardinalityType
<1>4. Len(queue.buf) \in Nat /\ queue' = queue /\ asleep' = asleep
  BY <1>1, QueueFacts
<1>5. ItemHasTaker'
  <2>1. SUFFICES ASSUME asleep \cap Consumers # {}
                 PROVE  Cardinality(Awake(Consumers)') >= Len(queue.buf)
    BY <1>4 DEF ItemHasTaker, Awake
  <2>2. Cardinality(Awake(Consumers)) >= Len(queue.buf)
    BY <2>1 DEF IInv, ItemHasTaker
  <2>3. QED
    BY <1>3, <1>4, <2>1, <2>2 DEF Threads
<1>6. PlaceHasFiller'
  <2>1. SUFFICES ASSUME asleep \cap Producers # {}
                 PROVE  Cardinality(Awake(Producers)') + Len(queue.buf) >= Capacity
    BY <1>4 DEF PlaceHasFiller, Awake
  <2>2. Cardinality(Awake(Producers)) + Len(queue.buf) >= Capacity
    BY <2>1 DEF IInv, PlaceHasFiller
  <2>3. /\ Cardinality(Awake(Producers)) <= Cardinality(Awake(Producers)')
        /\ Cardinality(Awake(Producers)) \in Nat
        /\ Cardinality(Awake(Producers)') \in Nat
    BY <1>3, <2>1 DEF Threads
  <2>4. QED
    BY <1>4, <2>2, <2>3, CapacityPositive
<1>7. EndWakesAll' /\ WithinCapacity'
  BY <1>4 DEF IInv, EndWakesAll, WithinCapacity
<1>8. QED
  BY <1>2, <1>5, <1>6, <1>7 DEF IInv

LEMMA CallStep == ASSUME IInv, NEW t \in Threads, Call(t) PROVE IInv'
<1>1. /\ UNCHANGED << queue, asleep, accepted, delivered, outcome >>
      /\ inside' = inside \cup {t} /\ t \notin inside
  BY DEF Call
<1>2. TypeOK
  BY DEF IInv
<1>3. accepted + Cardinality(inside' \cap Producers) <= MaxItems
  <2>1. CASE t \in Producers
    <3>1. inside' \cap Producers = (inside \cap Producers) \cup {t}
      BY <1>1, <2>1
    <3>2. /\ IsFiniteSet(inside \cap Producers)
          /\ Cardinality(inside \cap Producers) \in Nat /\ accepted \in Nat
      BY <1>2, Counting DEF TypeOK, Threads
    <3>3. Cardinality(inside' \cap Producers)
            = Cardinality(inside \cap Producers) + 1
      BY <1>1, <3>1, <3>2, FS_AddElement
    <3>4. accepted + Cardinality(inside \cap Producers) < MaxItems
      BY <2>1 DEF Call
    <3>5. QED
      BY <3>2, <3>3, <3>4, MaxItemsAssumption
  <2>2. CASE t \notin Producers
    <3>1. inside' \cap Producers = inside \cap Producers
      BY <1>1, <2>2
    <3>2. QED
      BY <1>2, <3>1 DEF TypeOK
  <2>3. QED
    BY <2>1, <2>2
<1>4. QED
  BY <1>1, <1>2, <1>3, InsideStep DEF TypeOK

(* A thread goes to sleep only when there is nothing for its side to do.   *)
LEMMA SleepStep == ASSUME IInv, NEW t \in Threads, Sleep(t) PROVE IInv'
<1>1. /\ UNCHANGED << queue, inside, accepted, delivered, outcome >>
      /\ asleep' = asleep \cup {t} /\ t \in inside /\ ~Ready(t)
  BY DEF Sleep
<1>2. TypeOK /\ Producers \cap Consumers = {}
  BY ThreadsAssumption DEF IInv
<1>3. Len(queue.buf) \in Nat /\ TypeOK'
  BY <1>1, <1>2, QueueFacts DEF TypeOK
<1>4. ItemHasTaker'
  <2>1. SUFFICES ASSUME asleep' \cap Consumers # {}
                 PROVE  Cardinality(Awake(Consumers)') >= Len(queue.buf)
    BY <1>1 DEF ItemHasTaker
  <2>2. Cardinality(Awake(Consumers)') \in Nat
    <3>1. IsFiniteSet(Threads)
      BY ThreadsAssumption, FS_Union DEF Threads
    <3>2. IsFiniteSet(Awake(Consumers)')
      BY <1>3, <3>1, FS_Subset DEF TypeOK, Awake
    <3>3. QED
      BY <3>2, FS_CardinalityType
  <2>3. CASE t \in Consumers
    <3>1. queue.buf = << >>
      BY <1>1, <1>2, <2>3 DEF Ready, MayPop
    <3>2. QED
      BY <2>2, <3>1
  <2>4. CASE t \notin Consumers
    <3>1. /\ asleep \cap Consumers # {}
          /\ Awake(Consumers)' = Awake(Consumers)
      BY <1>1, <2>1, <2>4 DEF Awake
    <3>2. QED
      BY <3>1 DEF IInv, ItemHasTaker
  <2>5. QED
    BY <2>3, <2>4
<1>5. PlaceHasFiller'
  <2>1. SUFFICES ASSUME asleep' \cap Producers # {}
                 PROVE  Cardinality(Awake(Producers)') + Len(queue.buf) >= Capacity
    BY <1>1 DEF PlaceHasFiller
  <2>2. Cardinality(Awake(Producers)') \in Nat
    <3>1. IsFiniteSet(Threads)
      BY ThreadsAssumption, FS_Union DEF Threads
    <3>2. IsFiniteSet(Awake(Producers)')
      BY <1>3, <3>1, FS_Subset DEF TypeOK, Awake
    <3>3. QED
      BY <3>2, FS_CardinalityType
  <2>3. CASE t \in Producers
    <3>1. ~(Len(queue.buf) < Capacity)
      BY <1>1, <2>3 DEF Ready, MayPush
    <3>2. QED
      BY <1>3, <2>2, <3>1, CapacityPositive
  <2>4. CASE t \notin Producers
    <3>1. /\ asleep \cap Producers # {}
          /\ Awake(Producers)' = Awake(Producers)
      BY <1>1, <2>1, <2>4 DEF Awake
    <3>2. QED
      BY <3>1 DEF IInv, PlaceHasFiller
  <2>5. QED
    BY <2>3, <2>4
<1>6. ~queue.end
  BY <1>1 DEF Ready, MayPush, MayPop
<1>7. EndWakesAll' /\ WithinCapacity'
  BY <1>1, <1>6 DEF IInv, EndWakesAll, WithinCapacity
<1>8. QED
  BY <1>3, <1>4, <1>5, <1>7 DEF IInv

LEMMA WakeStep == ASSUME IInv, NEW t \in Threads, WakeSpuriously(t) PROVE IInv'
<1>1. /\ UNCHANGED << queue, inside, accepted, delivered, outcome >>
      /\ asleep' = asleep \ {t}
  BY DEF WakeSpuriously
<1>2. TypeOK /\ Len(queue.buf) \in Nat
  BY QueueFacts DEF IInv
<1>3. TypeOK'
  BY <1>1, <1>2 DEF TypeOK
<1>4. ASSUME NEW S \in SUBSET Threads
      PROVE  /\ Cardinality(Awake(S)) <= Cardinality(Awake(S)')
             /\ Cardinality(Awake(S)) \in Nat /\ Cardinality(Awake(S)') \in Nat
  <2>1. Awake(S) \subseteq Awake(S)'
    BY <1>1 DEF Awake
  <2>2. IsFiniteSet(Awake(S)')
    <3>1. IsFiniteSet(Threads) /\ Awake(S)' \subseteq Threads
      BY ThreadsAssumption, FS_Union DEF Threads, Awake
    <3>2. QED
      BY <3>1, FS_Subset
  <2>3. QED
    BY <2>1, <2>2, FS_Subset, FS_CardinalityType
<1>5. ItemHasTaker'
  <2>1. /\ Cardinality(Awake(Consumers)) <= Cardinality(Awake(Consumers)')
        /\ Cardinality(Awake(Consumers)) \in Nat
        /\ Cardinality(Awake(Consumers)') \in Nat
    BY <1>4 DEF Threads
  <2>2. asleep' \cap Consumers # {} => asleep \cap Consumers # {}
    BY <1>1
  <2>3. QED
    BY <1>1, <1>2, <2>1, <2>2 DEF IInv, ItemHasTaker
<1>6. PlaceHasFiller'
  <2>1. /\ Cardinality(Awake(Producers)) <= Cardinality(Awake(Producers)')
        /\ Cardinality(Awake(Producers)) \in Nat
        /\ Cardinality(Awake(Producers)') \in Nat
    BY <1>4 DEF Threads
  <2>2. asleep' \cap Producers # {} => asleep \cap Producers # {}
    BY <1>1
  <2>3. QED
    BY <1>1, <1>2, <2>1, <2>2, CapacityPositive DEF IInv, PlaceHasFiller
<1>7. EndWakesAll' /\ WithinCapacity'
  BY <1>1 DEF IInv, EndWakesAll, WithinCapacity
<1>8. QED
  BY <1>3, <1>5, <1>6, <1>7 DEF IInv

(* A call that meets the end returns; then nobody sleeps any more.         *)
LEMMA ReturnAtEnd ==
  ASSUME IInv, NEW t \in inside, inside' = inside \ {t}, queue.end,
         UNCHANGED << queue, asleep, accepted, delivered >>,
         outcome' \in EndStatuses \cup Benign \cup {"None"}
  PROVE  IInv'
<1>1. TypeOK /\ asleep = {}
  BY DEF IInv, EndWakesAll
<1>2. /\ IsFiniteSet(inside \cap Producers)
      /\ Cardinality(inside \cap Producers) \in Nat
  BY <1>1, Counting DEF Threads
<1>3. inside' \cap Producers \subseteq inside \cap Producers
  OBVIOUS
<1>4. /\ Cardinality(inside' \cap Producers) <= Cardinality(inside \cap Producers)
      /\ Cardinality(inside' \cap Producers) \in Nat
  BY <1>2, <1>3, FS_Subset, FS_CardinalityType
<1>5. accepted + Cardinality(inside' \cap Producers) <= MaxItems
  BY <1>1, <1>2, <1>4, MaxItemsAssumption DEF TypeOK
<1>6. QED
  BY <1>1, <1>5, InsideStep DEF TypeOK

LEMMA FinishPushStep ==
  ASSUME IInv, NEW t \in Threads, FinishPush(t) PROVE IInv'
<1>1. /\ t \in inside /\ t \notin asleep /\ t \in Producers
      /\ inside' = inside \ {t} /\ MayPush(queue)
  BY DEF FinishPush, Ready
<1>2. TypeOK
  BY DEF IInv
<1>3. CASE queue.end
  <2>1. UNCHANGED << queue, asleep, accepted, delivered, outcome >>
    BY <1>2, <1>3, QueueFacts DEF FinishPush, PushStatus
  <2>2. QED
    BY <1>1, <1>2, <1>3, <2>1, ReturnAtEnd DEF TypeOK
<1>4. CASE ~queue.end
  <2>1. PutItem
    BY <1>4 DEF FinishPush, PushStatus
  <2>2. Len(queue.buf) < Capacity
    BY <1>1, <1>4 DEF MayPush
  <2>3. QED
    BY <1>1, <1>4, <2>1, <2>2, PutStep
<1>5. QED
  BY <1>3, <1>4

LEMMA FinishPopStep ==
  ASSUME IInv, NEW t \in Threads, FinishPop(t) PROVE IInv'
<1>1. /\ t \in inside /\ t \notin asleep /\ t \in Consumers
      /\ inside' = inside \ {t} /\ MayPop(queue)
  BY ThreadsAssumption DEF FinishPop, Ready
<1>2. TypeOK /\ queue \in Queue /\ queue.status # "Ok"
  BY QueueFacts DEF IInv
<1>3. CASE queue.buf # << >>
  <2>1. TakeItem
    BY <1>3 DEF FinishPop, PopStatus
  <2>2. QED
    BY <1>1, <1>3, <2>1, TakeStep
<1>4. CASE queue.buf = << >>
  <2>1. queue.end /\ UNCHANGED << queue, asleep, accepted, delivered >>
        /\ outcome' = queue.status
    BY <1>1, <1>2, <1>4 DEF FinishPop, PopStatus, MayPop
  <2>2. queue.status \in EndStatuses \cup Benign \cup {"None"}
    BY <1>2 DEF Queue, Benign
  <2>3. QED
    BY <1>1, <2>1, <2>2, ReturnAtEnd
<1>5. QED
  BY <1>3, <1>4

LEMMA TryPushStep == ASSUME IInv, NEW t \in Threads, TryPush(t) PROVE IInv'
<1>1. /\ t \in Producers /\ t \notin inside /\ inside' = inside
      /\ accepted + Cardinality(inside \cap Producers) < MaxItems
      /\ TryPushStatus(queue) = "Ok" /\ PutItem
  BY DEF TryPush
<1>2. t \notin asleep /\ queue.status # "Ok" /\ Len(queue.buf) \in Nat
  BY <1>1, QueueFacts DEF IInv, TypeOK
<1>3. ~queue.end /\ Len(queue.buf) < Capacity
  BY <1>1, <1>2, CapacityPositive DEF TryPushStatus
<1>4. QED
  BY <1>1, <1>2, <1>3, PutStep

LEMMA TryPopStep == ASSUME IInv, NEW t \in Threads, TryPop(t) PROVE IInv'
<1>1. t \in Consumers /\ t \notin inside /\ inside' = inside
  BY DEF TryPop
<1>2. TypeOK /\ t \notin asleep /\ queue \in Queue /\ queue.status # "Ok"
  BY <1>1, QueueFacts DEF IInv, TypeOK
<1>3. CASE TryPopStatus(queue) = "Ok" /\ TakeItem
  <2>1. queue.buf # << >>
    BY <1>2, <1>3 DEF TryPopStatus
  <2>2. QED
    BY <1>1, <1>2, <1>3, <2>1, TakeStep
<1>4. CASE /\ queue.buf = << >> /\ queue.end
           /\ outcome' = TryPopStatus(queue)
           /\ UNCHANGED << queue, asleep, accepted, delivered >>
  <2>1. outcome' = queue.status
    BY <1>4 DEF TryPopStatus
  <2>2. outcome' \in EndStatuses \cup Benign \cup {"None"}
    BY <1>2, <2>1 DEF Queue, Benign
  <2>3. QED
    BY <1>1, <1>2, <1>4, <2>2, InsideStep DEF TypeOK
<1>5. QED
  BY <1>3, <1>4 DEF TryPop

(* close() and cancel() wake everybody.                                    *)
LEMMA EndStep ==
  ASSUME IInv, NEW s \in (EndStatuses \ Benign) \cup {"Eof"},
         queue' = End(queue, s), asleep' = NotifyAll(Threads),
         UNCHANGED << inside, accepted, delivered, outcome >>
  PROVE  IInv'
<1>1. TypeOK /\ asleep' = {}
  BY DEF IInv, TypeOK, NotifyAll
<1>2. queue' \in Queue /\ queue'.buf = queue.buf
  BY <1>1, QueueFacts DEF Queue, End
<1>3. TypeOK'
  BY <1>1, <1>2 DEF TypeOK, Queue
<1>4. QED
  BY <1>1, <1>2, <1>3
     DEF IInv, ItemHasTaker, PlaceHasFiller, EndWakesAll, WithinCapacity

-----------------------------------------------------------------------------
LEMMA InitInv == Init => IInv
<1>1. SUFFICES ASSUME Init PROVE IInv
  OBVIOUS
<1>2. queue.buf = << >> /\ queue.end = FALSE /\ queue \in Queue
  BY <1>1 DEF Init, EmptyQueue, Queue
<1>3. inside \cap Producers = {} /\ asleep = {} /\ Len(queue.buf) = 0
  BY <1>1, <1>2 DEF Init
<1>4. TypeOK
  BY <1>1, <1>2, <1>3, FS_EmptySet, MaxItemsAssumption DEF Init, TypeOK, Queue
<1>5. QED
  BY <1>2, <1>3, <1>4, CapacityPositive
     DEF IInv, ItemHasTaker, PlaceHasFiller, EndWakesAll, WithinCapacity

LEMMA StepInv == IInv /\ [Next]_vars => IInv'
<1>1. SUFFICES ASSUME IInv, [Next]_vars PROVE IInv'
  OBVIOUS
<1>2. ASSUME NEW t \in Threads,
             Call(t) \/ Proceed(t) \/ WakeSpuriously(t) \/ TryPush(t) \/ TryPop(t)
      PROVE  IInv'
  BY <1>1, <1>2, CallStep, SleepStep, FinishPushStep, FinishPopStep, WakeStep,
     TryPushStep, TryPopStep DEF Proceed
<1>3. CASE CloseQueue
  BY <1>1, <1>3, EndStep DEF CloseQueue, Close
<1>4. ASSUME NEW s \in EndStatuses, CancelQueue(s) PROVE IInv'
  BY <1>1, <1>4, EndStep DEF CancelQueue, Cancel
<1>5. CASE UNCHANGED vars
  BY <1>1, <1>5
     DEF vars, IInv, TypeOK, ItemHasTaker, PlaceHasFiller, EndWakesAll,
         WithinCapacity, Awake
<1>6. QED
  BY <1>1, <1>2, <1>3, <1>4, <1>5 DEF Next

(* The invariant holds for any threads, capacity and number of items.      *)
THEOREM Invariance == Spec => []IInv
BY InitInv, StepInv, PTL DEF Spec

(* No item is left in the queue with nobody awake to take it while a       *)
(* consumer sleeps: notify_one in push() is enough.                        *)
THEOREM NoLostItem == Spec => []ItemHasTaker
<1>1. IInv => ItemHasTaker
  BY DEF IInv
<1>2. QED
  BY <1>1, Invariance, PTL

(* No free place is left with nobody awake to fill it while a producer     *)
(* sleeps: notify_one in pop() is enough.                                  *)
THEOREM NoLostPlace == Spec => []PlaceHasFiller
<1>1. IInv => PlaceHasFiller
  BY DEF IInv
<1>2. QED
  BY <1>1, Invariance, PTL

-----------------------------------------------------------------------------
(* The queue carries a stream.                                             *)

(* Where the items are, and what a pop has reported.                       *)
Accounted ==
  /\ accepted = Len(delivered) + Len(queue.buf)
  /\ \A k \in 1 .. Len(queue.buf) : queue.buf[k] = Len(delivered) + k

ToldTheEnd ==
  outcome # "None" => /\ queue.end /\ queue.buf = << >>
                      /\ outcome = queue.status

CarryInv == Accounted /\ ToldTheEnd

LEMMA Counts ==
  ASSUME IInv
  PROVE  /\ queue \in Queue /\ queue.buf \in Seq(1 .. MaxItems)
         /\ Len(queue.buf) \in Nat /\ Len(delivered) \in Nat
         /\ delivered \in Seq(1 .. MaxItems) /\ accepted \in Nat
         /\ queue.end \in BOOLEAN
BY QueueFacts DEF IInv, TypeOK, Queue

LEMMA PutCarries ==
  ASSUME IInv, IInv', CarryInv, PutItem, ~queue.end
  PROVE  CarryInv' /\ Carrier!Next
<1> DEFINE b == Append(queue.buf, accepted + 1)
<1>1. /\ accepted' = accepted + 1 /\ delivered' = delivered
      /\ outcome' = outcome
  BY DEF PutItem
<1>2. accepted + 1 \in 1 .. MaxItems
  <2>1. IsFiniteSet(Threads)
    BY ThreadsAssumption, FS_Union DEF Threads
  <2>2. Cardinality(inside' \cap Producers) \in Nat
    BY <2>1, FS_Subset, FS_CardinalityType DEF IInv, TypeOK
  <2>3. accepted' + Cardinality(inside' \cap Producers) <= MaxItems
    BY DEF IInv, TypeOK
  <2>4. QED
    BY <1>1, <2>2, <2>3, Counts, MaxItemsAssumption
<1>3. /\ Len(b) = Len(queue.buf) + 1
      /\ \A k \in 1 .. Len(queue.buf) : b[k] = queue.buf[k]
      /\ b[Len(queue.buf) + 1] = accepted + 1
  BY <1>2, Counts
<1>4. queue' = [buf |-> b, end |-> queue.end, status |-> queue.status]
  BY Counts DEF PutItem, Enqueue, Queue
<1> HIDE DEF b
<1>5. queue'.buf = b /\ queue'.end = queue.end
  BY <1>4
<1>6. Accounted'
  <2>1. accepted = Len(delivered) + Len(queue.buf)
    BY DEF CarryInv, Accounted
  <2>2. accepted' = Len(delivered') + Len(b)
    BY <1>1, <1>3, <2>1, Counts
  <2>3. ASSUME NEW k \in 1 .. Len(b) PROVE b[k] = Len(delivered') + k
    <3>1. CASE k = Len(queue.buf) + 1
      BY <1>1, <1>3, <2>1, <3>1, Counts
    <3>2. CASE k # Len(queue.buf) + 1
      <4>1. k \in 1 .. Len(queue.buf)
        BY <1>3, <3>2, Counts
      <4>2. QED
        BY <1>1, <1>3, <4>1 DEF CarryInv, Accounted
    <3>3. QED
      BY <3>1, <3>2
  <2>4. QED
    BY <1>5, <2>2, <2>3 DEF Accounted
<1>7. outcome = "None"
  BY DEF CarryInv, ToldTheEnd
<1>8. Carrier!Accept
  BY <1>1, <1>5 DEF Carrier!Accept
<1>9. QED
  BY <1>1, <1>6, <1>7, <1>8 DEF CarryInv, ToldTheEnd, Carrier!Next

LEMMA TakeCarries ==
  ASSUME IInv, CarryInv, TakeItem, queue.buf # << >>
  PROVE  CarryInv' /\ Carrier!Next
<1> DEFINE b == Tail(queue.buf)
<1>1. /\ accepted' = accepted /\ outcome' = outcome
      /\ delivered' = Append(delivered, Head(queue.buf))
  BY DEF TakeItem
<1>2. /\ Len(queue.buf) \in Nat /\ Len(queue.buf) # 0
      /\ Head(queue.buf) = queue.buf[1] /\ Head(queue.buf) \in 1 .. MaxItems
      /\ Len(b) = Len(queue.buf) - 1
      /\ \A k \in 1 .. Len(b) : b[k] = queue.buf[k + 1]
  <2>1. queue.buf \in Seq(1 .. MaxItems) /\ Len(queue.buf) \in Nat
    BY Counts
  <2>2. Len(queue.buf) # 0 /\ Head(queue.buf) = queue.buf[1]
    BY <2>1, EmptySeq
  <2>3. /\ Head(queue.buf) \in 1 .. MaxItems
        /\ Len(b) = Len(queue.buf) - 1
        /\ \A k \in 1 .. Len(b) : b[k] = queue.buf[k + 1]
    BY <2>1, HeadTailProperties
  <2>4. QED
    BY <2>1, <2>2, <2>3
<1>3. queue' = [buf |-> b, end |-> queue.end, status |-> queue.status]
  BY Counts DEF TakeItem, Dequeue, Queue
<1> HIDE DEF b
<1>4. queue'.buf = b /\ queue'.end = queue.end
  BY <1>3
<1>5. Head(queue.buf) = Len(delivered) + 1
  BY <1>2 DEF CarryInv, Accounted
<1>6. Len(delivered') = Len(delivered) + 1
  BY <1>1, <1>2, Counts, AppendProperties
<1>7. Accounted'
  <2>1. accepted' = Len(delivered') + Len(b)
    <3>1. accepted = Len(delivered) + Len(queue.buf)
      BY DEF CarryInv, Accounted
    <3>2. /\ accepted' = accepted /\ Len(b) = Len(queue.buf) - 1
          /\ Len(queue.buf) \in Nat /\ Len(delivered) \in Nat
      BY <1>1, <1>2, Counts
    <3>3. \A m, n \in Nat : m + n = (m + 1) + (n - 1)
      OBVIOUS
    <3>4. accepted' = (Len(delivered) + 1) + (Len(queue.buf) - 1)
      BY <3>1, <3>2, <3>3
    <3>5. QED
      BY <1>6, <3>2, <3>4
  <2>2. ASSUME NEW k \in 1 .. Len(b) PROVE b[k] = Len(delivered') + k
    BY <1>2, <1>6, Counts DEF CarryInv, Accounted
  <2>3. QED
    BY <1>4, <2>1, <2>2 DEF Accounted
<1>8. outcome = "None"
  BY DEF CarryInv, ToldTheEnd
<1>9. Len(delivered) < accepted
  BY <1>2, Counts DEF CarryInv, Accounted
<1>10. Carrier!Deliver
  BY <1>1, <1>4, <1>5, <1>8, <1>9 DEF Carrier!Deliver
<1>11. QED
  BY <1>1, <1>7, <1>8, <1>10 DEF CarryInv, ToldTheEnd, Carrier!Next

(* The end is reported of an empty queue, so nothing is cut off.           *)
LEMMA TellCarries ==
  ASSUME IInv, CarryInv, queue.end, queue.buf = << >>, outcome' = queue.status,
         UNCHANGED << queue, accepted, delivered >>
  PROVE  CarryInv' /\ [Carrier!Next]_(Carrier!vars)
<1>1. CarryInv'
  BY DEF CarryInv, Accounted, ToldTheEnd
<1>2. CASE outcome # "None"
  BY <1>1, <1>2 DEF CarryInv, ToldTheEnd, Carrier!vars
<1>3. CASE outcome = "None"
  <2>1. Len(delivered) = accepted
    BY Counts DEF CarryInv, Accounted
  <2>2. queue.end = TRUE /\ queue.status \in EndStatuses \cup Benign
    BY Counts DEF Queue, Benign
  <2>3. Carrier!Conclude(queue.status)
    BY <1>3, <2>1, <2>2 DEF Carrier!Conclude
  <2>4. QED
    BY <1>1, <2>2, <2>3 DEF Carrier!Next
<1>4. QED
  BY <1>2, <1>3

(* close() and cancel(): at most the seal.                                 *)
LEMMA EndCarries ==
  ASSUME IInv, CarryInv, NEW s \in (EndStatuses \ Benign) \cup {"Eof"},
         queue' = End(queue, s), UNCHANGED << accepted, delivered, outcome >>
  PROVE  CarryInv' /\ [Carrier!Next]_(Carrier!vars)
<1>1. /\ queue'.buf = queue.buf /\ queue'.end = TRUE
      /\ queue.end => queue'.status = queue.status
  BY Counts DEF Queue, End
<1>2. CarryInv'
  BY <1>1 DEF CarryInv, Accounted, ToldTheEnd
<1>3. Carrier!Seal
  BY <1>1 DEF Carrier!Seal
<1>4. QED
  BY <1>2, <1>3 DEF Carrier!Next

LEMMA QuietCarries ==
  ASSUME CarryInv, UNCHANGED << queue, accepted, delivered, outcome >>
  PROVE  CarryInv' /\ [Carrier!Next]_(Carrier!vars)
BY DEF CarryInv, Accounted, ToldTheEnd, Carrier!vars

LEMMA ThreadCarries ==
  ASSUME IInv, IInv', CarryInv, NEW t \in Threads,
         Call(t) \/ Proceed(t) \/ WakeSpuriously(t) \/ TryPush(t) \/ TryPop(t)
  PROVE  CarryInv' /\ [Carrier!Next]_(Carrier!vars)
<1>1. queue.status # "Ok"
  BY QueueFacts DEF IInv
<1>2. CASE Call(t) \/ Sleep(t) \/ WakeSpuriously(t)
  BY <1>2, QuietCarries DEF Call, Sleep, WakeSpuriously
<1>3. CASE FinishPush(t)
  <2>1. CASE queue.end
    BY <1>1, <1>3, <2>1, QuietCarries DEF FinishPush, PushStatus
  <2>2. CASE ~queue.end
    BY <1>3, <2>2, PutCarries DEF FinishPush, PushStatus
  <2>3. QED
    BY <2>1, <2>2
<1>4. CASE FinishPop(t)
  <2>1. CASE queue.buf # << >>
    BY <1>4, <2>1, TakeCarries DEF FinishPop, PopStatus
  <2>2. CASE queue.buf = << >>
    <3>1. MayPop(queue)
      BY <1>4, ThreadsAssumption DEF FinishPop, Ready
    <3>2. queue.end
      BY <2>2, <3>1 DEF MayPop
    <3>3. QED
      BY <1>1, <1>4, <2>2, <3>2, TellCarries DEF FinishPop, PopStatus
  <2>3. QED
    BY <2>1, <2>2
<1>5. CASE TryPush(t)
  <2>1. ~queue.end
    BY <1>1, <1>5 DEF TryPush, TryPushStatus
  <2>2. QED
    BY <1>5, <2>1, PutCarries DEF TryPush
<1>6. CASE TryPop(t)
  <2>1. CASE TryPopStatus(queue) = "Ok" /\ TakeItem
    BY <1>1, <2>1, TakeCarries DEF TryPopStatus
  <2>2. CASE /\ queue.buf = << >> /\ queue.end
             /\ outcome' = TryPopStatus(queue)
             /\ UNCHANGED << queue, asleep, accepted, delivered >>
    BY <2>2, TellCarries DEF TryPopStatus
  <2>3. QED
    BY <1>6, <2>1, <2>2 DEF TryPop
<1>7. QED
  BY <1>2, <1>3, <1>4, <1>5, <1>6 DEF Proceed

LEMMA CarryStep ==
  IInv /\ CarryInv /\ [Next]_vars => CarryInv' /\ [Carrier!Next]_(Carrier!vars)
<1>1. SUFFICES ASSUME IInv, CarryInv, [Next]_vars
               PROVE  CarryInv' /\ [Carrier!Next]_(Carrier!vars)
  OBVIOUS
<1>2. IInv'
  BY <1>1, StepInv
<1>3. ASSUME NEW t \in Threads,
             Call(t) \/ Proceed(t) \/ WakeSpuriously(t) \/ TryPush(t) \/ TryPop(t)
      PROVE  CarryInv' /\ [Carrier!Next]_(Carrier!vars)
  BY <1>1, <1>2, <1>3, ThreadCarries
<1>4. CASE CloseQueue
  BY <1>1, <1>4, EndCarries DEF CloseQueue, Close
<1>5. ASSUME NEW s \in EndStatuses, CancelQueue(s)
      PROVE  CarryInv' /\ [Carrier!Next]_(Carrier!vars)
  BY <1>1, <1>5, EndCarries DEF CancelQueue, Cancel
<1>6. CASE UNCHANGED vars
  BY <1>1, <1>6, QuietCarries DEF vars
<1>7. QED
  BY <1>1, <1>3, <1>4, <1>5, <1>6 DEF Next

(* Whatever calls the threads make, the queue is a stream that nothing     *)
(* cuts off: every item accepted comes out once and in order before the    *)
(* end is told, a cancelled queue's too (queue.hpp:14).                    *)
THEOREM QueueIsAStream == Spec => CarriesStream
<1>1. Init => CarryInv /\ Carrier!Init
  <2>1. ASSUME Init PROVE CarryInv /\ Carrier!Init
    <3>1. /\ queue.buf = << >> /\ queue.end = FALSE /\ accepted = 0
          /\ delivered = << >> /\ outcome = "None"
      BY <2>1 DEF Init, EmptyQueue
    <3>2. Len(queue.buf) = 0 /\ Len(delivered) = 0
      BY <3>1
    <3>3. CarryInv
      BY <3>1, <3>2 DEF CarryInv, Accounted, ToldTheEnd
    <3>4. Carrier!Init
      BY <3>1 DEF Carrier!Init
    <3>5. QED
      BY <3>3, <3>4
  <2>2. QED
    BY <2>1
<1>2. QED
  BY <1>1, InitInv, StepInv, CarryStep, PTL
     DEF Spec, CarriesStream, Carrier!Spec
=============================================================================
