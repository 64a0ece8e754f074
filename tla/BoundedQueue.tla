---------------------------- MODULE BoundedQueue ----------------------------
(***************************************************************************)
(* The bounded FIFO of core/include/rkvc/queue.hpp as operators on one     *)
(* value, [buf, end, status].  Every method of the class holds the queue's *)
(* mutex from its first to its last access, so one call is one step of the *)
(* modules that use a queue; a blocking call is the guard that the step    *)
(* waits for.  QueueMonitor models the condition variables that implement  *)
(* that guard.                                                             *)
(***************************************************************************)
EXTENDS Naturals, Sequences

CONSTANT RequestedCapacity   \* the constructor's argument

ASSUME CapacityAssumption == RequestedCapacity \in Nat

(* The constructor turns a requested capacity of zero into one.            *)
Capacity == IF RequestedCapacity = 0 THEN 1 ELSE RequestedCapacity

(* The statuses that cancel() ignores: only a real error ends a queue.     *)
Benign == {"Ok", "Again", "Eof"}

EmptyQueue == [buf |-> << >>, end |-> FALSE, status |-> "Eof"]

(* The predicates the two condition variables wait for.                    *)
MayPush(q) == Len(q.buf) < Capacity \/ q.end
MayPop(q)  == q.buf # << >> \/ q.end

(* The status a push that is not blocked returns.                          *)
PushStatus(q) == IF q.end THEN q.status ELSE "Ok"

(* try_push never blocks: a full queue answers Again.                      *)
TryPushStatus(q) ==
  CASE q.end                              -> q.status
    [] ~q.end /\ Len(q.buf) >= Capacity   -> "Again"
    [] OTHER                              -> "Ok"

(* The status a pop that is not blocked returns: an item before the end.   *)
PopStatus(q) == IF q.buf # << >> THEN "Ok" ELSE q.status

TryPopStatus(q) ==
  CASE q.buf # << >>            -> "Ok"
    [] q.buf = << >> /\ q.end   -> q.status
    [] OTHER                    -> "Again"

(* A fault: the item goes to the front.                                    *)
EnqueueFront(q, v) == [q EXCEPT !.buf = << v >> \o @]

Enqueue(q, v) == [q EXCEPT !.buf = Append(@, v)]
Dequeue(q)    == [q EXCEPT !.buf = Tail(@)]

(* Three faults: a later end replaces the first; an end with any status    *)
(* reports Eof; an end drops what is in the queue.                         *)
LastEndWins(q, s)   == [q EXCEPT !.end = TRUE, !.status = s]
EndAsEof(q, s)      == IF q.end THEN q ELSE [q EXCEPT !.end = TRUE]
EndDropsItems(q, s) ==
  IF q.end THEN q ELSE [buf |-> << >>, end |-> TRUE, status |-> s]

(* The first end wins: close and cancel leave an ended queue as it is.     *)
End(q, s)    == IF q.end THEN q ELSE [q EXCEPT !.end = TRUE, !.status = s]
Close(q)     == End(q, "Eof")
Cancel(q, s) == IF s \in Benign THEN q ELSE End(q, s)
=============================================================================
