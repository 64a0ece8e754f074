---------------------------- MODULE QueueMonitor ----------------------------
(***************************************************************************)
(* How core/include/rkvc/queue.hpp implements a blocking push and pop: one *)
(* mutex, the condition variables not_full_ and not_empty_, notify_one for *)
(* each item or slot and notify_all at the end.  The other modules take a  *)
(* blocked call for a guard; this one shows that no call sleeps on when    *)
(* that guard holds.                                                       *)
(*                                                                         *)
(* The mutex is held from the evaluation of a wait's predicate to the end  *)
(* of the method or to the atomic release inside wait(), so each of these  *)
(* stretches is one step.  A sleeping thread may wake spuriously, and a    *)
(* thread that was woken may find that another one was faster.             *)
(***************************************************************************)
EXTENDS BoundedQueue, FiniteSets

CONSTANTS Producers,    \* threads that call push and try_push
          Consumers,    \* threads that call pop and try_pop
          EndStatuses,  \* what cancel() is called with
          MaxItems      \* bound: items ever pushed

ASSUME ThreadsAssumption ==
  /\ IsFiniteSet(Producers) /\ IsFiniteSet(Consumers)
  /\ Producers \cap Consumers = {}
ASSUME MaxItemsAssumption == MaxItems \in Nat
ASSUME EndStatusesAssumption == "None" \notin EndStatuses

Threads == Producers \cup Consumers

VARIABLES queue,      \* queue_, end_, end_status_
          inside,     \* threads in a blocking push or pop
          asleep,     \* those of them that wait on their condition variable
          accepted,   \* history: items pushed
          delivered,  \* history: items popped, in the order of the pops
          outcome     \* history: the end a pop has reported, or "None"

vars == << queue, inside, asleep, accepted, delivered, outcome >>

Init ==
  /\ queue = EmptyQueue
  /\ inside = {}
  /\ asleep = {}
  /\ accepted = 0
  /\ delivered = << >>
  /\ outcome = "None"

-----------------------------------------------------------------------------
(* A fault: one condition variable serves producers and consumers alike.   *)
NotifyAnyone(S) ==
  IF asleep = {} THEN {asleep} ELSE {asleep \ {u} : u \in asleep}

(* A fault: only an item that finds the queue empty is announced.          *)
NotifyFirst(S) ==
  IF asleep \cap S = {} \/ (S = Consumers /\ queue.buf # << >>)
  THEN {asleep}
  ELSE {asleep \ {u} : u \in asleep \cap S}

(* notify_one on the variable the threads of S wait on: which sleepers may *)
(* remain.                                                                 *)
NotifyOne(S) ==
  IF asleep \cap S = {} THEN {asleep}
                        ELSE {asleep \ {u} : u \in asleep \cap S}

(* A fault: the end wakes one thread.                                      *)
EndWakesOne(S) ==
  IF asleep \cap S = {} THEN asleep
                        ELSE asleep \ {CHOOSE u \in asleep \cap S : TRUE}

(* notify_all.                                                             *)
NotifyAll(S) == asleep \ S

Ready(t) == IF t \in Producers THEN MayPush(queue) ELSE MayPop(queue)

PutItem ==
  /\ queue' = Enqueue(queue, accepted + 1)
  /\ accepted' = accepted + 1
  /\ asleep' \in NotifyOne(Consumers)
  /\ UNCHANGED << delivered, outcome >>

TakeItem ==
  /\ queue' = Dequeue(queue)
  /\ delivered' = Append(delivered, Head(queue.buf))
  /\ asleep' \in NotifyOne(Producers)
  /\ UNCHANGED << accepted, outcome >>

(* A blocking call begins; it has not looked at the queue yet.             *)
Call(t) ==
  /\ t \notin inside
  /\ t \in Producers =>
       accepted + Cardinality(inside \cap Producers) < MaxItems
  /\ inside' = inside \cup {t}
  /\ UNCHANGED << queue, asleep, accepted, delivered, outcome >>

(* The predicate does not hold: the mutex is released and the thread waits.*)
Sleep(t) ==
  /\ t \in inside \ asleep
  /\ ~Ready(t)
  /\ asleep' = asleep \cup {t}
  /\ UNCHANGED << queue, inside, accepted, delivered, outcome >>

WakeSpuriously(t) ==
  /\ t \in asleep
  /\ asleep' = asleep \ {t}
  /\ UNCHANGED << queue, inside, accepted, delivered, outcome >>

(* push() returns: with the end's status, or with the item in the queue.   *)
FinishPush(t) ==
  /\ t \in (inside \ asleep) \cap Producers
  /\ Ready(t)
  /\ inside' = inside \ {t}
  /\ IF PushStatus(queue) = "Ok"
     THEN PutItem
     ELSE UNCHANGED << queue, asleep, accepted, delivered, outcome >>

(* pop() returns: with an item, or with the end's status.                  *)
FinishPop(t) ==
  /\ t \in (inside \ asleep) \cap Consumers
  /\ Ready(t)
  /\ inside' = inside \ {t}
  /\ IF PopStatus(queue) = "Ok"
     THEN TakeItem
     ELSE /\ outcome' = PopStatus(queue)
          /\ UNCHANGED << queue, asleep, accepted, delivered >>

(* try_push and try_pop that do something; otherwise they change nothing.  *)
TryPush(t) ==
  /\ t \in Producers \ inside
  /\ accepted + Cardinality(inside \cap Producers) < MaxItems
  /\ TryPushStatus(queue) = "Ok"
  /\ PutItem
  /\ UNCHANGED inside

TryPop(t) ==
  /\ t \in Consumers \ inside
  /\ \/ /\ TryPopStatus(queue) = "Ok"
        /\ TakeItem
     \/ /\ queue.buf = << >> /\ queue.end
        /\ outcome' = TryPopStatus(queue)
        /\ UNCHANGED << queue, asleep, accepted, delivered >>
  /\ UNCHANGED inside

CloseQueue ==
  /\ queue' = Close(queue)
  /\ asleep' = NotifyAll(Threads)
  /\ UNCHANGED << inside, accepted, delivered, outcome >>

(* cancel() with a status that is no error returns before it does anything.*)
CancelQueue(s) ==
  /\ s \notin Benign
  /\ queue' = Cancel(queue, s)
  /\ asleep' = NotifyAll(Threads)
  /\ UNCHANGED << inside, accepted, delivered, outcome >>

Proceed(t) == Sleep(t) \/ FinishPush(t) \/ FinishPop(t)

Next ==
  \/ \E t \in Threads : \/ Call(t)
                        \/ Proceed(t)
                        \/ WakeSpuriously(t)
                        \/ TryPush(t)
                        \/ TryPop(t)
  \/ CloseQueue
  \/ \E s \in EndStatuses : CancelQueue(s)

Spec == Init /\ [][Next]_vars

(* A thread that is awake inside a call gets the mutex in the end.  Nobody *)
(* is obliged to make a call, and no spurious wakeup has to happen.        *)
FairSpec == Spec /\ \A t \in Threads : WF_vars(Proceed(t))

-----------------------------------------------------------------------------
(* Properties.                                                             *)

TypeOK ==
  /\ queue \in [buf : Seq(1 .. MaxItems), end : BOOLEAN,
                status : (EndStatuses \ Benign) \cup {"Eof"}]
  /\ inside \subseteq Threads
  /\ asleep \subseteq inside
  /\ accepted \in Nat
  /\ accepted + Cardinality(inside \cap Producers) <= MaxItems
  /\ delivered \in Seq(1 .. MaxItems)
  /\ outcome \in EndStatuses \cup Benign \cup {"None"}

Awake(S) == (inside \ asleep) \cap S

(* No wakeup is lost: as long as a consumer sleeps, every item in the      *)
(* queue has a consumer awake that will take it, although push() notifies  *)
(* one thread only and others may be faster (queue.hpp:27, :38).           *)
ItemHasTaker ==
  asleep \cap Consumers # {} =>
    Cardinality(Awake(Consumers)) >= Len(queue.buf)

(* The same for the free places and the producers (queue.hpp:47, :59).     *)
PlaceHasFiller ==
  asleep \cap Producers # {} =>
    Cardinality(Awake(Producers)) + Len(queue.buf) >= Capacity

(* Nobody sleeps on a queue that has ended.                                *)
EndWakesAll == queue.end => asleep = {}

(* Only full queues put producers to sleep and the bound is kept.          *)
WithinCapacity == Len(queue.buf) <= Capacity

IInv ==
  /\ TypeOK
  /\ ItemHasTaker
  /\ PlaceHasFiller
  /\ EndWakesAll
  /\ WithinCapacity

(* While there are items and consumers inside pop(), items are taken.      *)
ItemsAreTaken ==
  \A n \in 0 .. MaxItems :
    Len(delivered) = n /\ queue.buf # << >> /\ inside \cap Consumers # {}
      ~> Len(delivered) > n

(* While there is room and a producer inside push(), items are put, unless *)
(* the queue ends.                                                         *)
PlacesAreFilled ==
  \A n \in 0 .. MaxItems :
    accepted = n /\ Len(queue.buf) < Capacity /\ inside \cap Producers # {}
      ~> accepted > n \/ queue.end

(* Once the queue has ended every blocked call returns.                    *)
EndedCallsReturn ==
  \A t \in Threads : t \in inside /\ queue.end ~> t \notin inside

(* The queue carries a stream that nothing cuts off: even a cancelled      *)
(* queue gives out every item it accepted before it reports the error      *)
(* (queue.hpp:14).                                                         *)
Carrier == INSTANCE Stream WITH
  Statuses <- EndStatuses \cup Benign, Cutting <- {},
  accepted <- accepted, sealed <- queue.end,
  delivered <- delivered, outcome <- outcome
CarriesStream == Carrier!Spec
=============================================================================
