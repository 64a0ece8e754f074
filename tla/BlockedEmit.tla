----------------------------- MODULE BlockedEmit -----------------------------
(***************************************************************************)
(* Pipeline, with the workers that are asleep told apart: Pipeline's Emit  *)
(* waits in its guard, here a worker whose next edge is full first goes to *)
(* sleep in push() (core/include/rkvc/queue.hpp:21-30) and wakes when      *)
(* there is a place or the edge has ended.  A history keeps the frames     *)
(* that were refused although they were finished, and their worker asleep, *)
(* before anything had failed.                                             *)
(***************************************************************************)
EXTENDS Pipeline

VARIABLES asleep,  \* the error on record when a worker went to sleep in
                   \* push(), "None" for a worker that is awake
          dropped  \* history: the frames of each worker that were refused
                   \* after a wait that began before the first error

allVars == << vars, asleep, dropped >>

RaceInit ==
  /\ Init
  /\ asleep = [w \in Workers |-> "None"]
  /\ dropped = [w \in Workers |-> {}]

(* The edge ahead is full: the worker waits, inside emit(), with a frame   *)
(* that its node has finished.                                             *)
Sleep(w) ==
  /\ pc[w] \in {"work", "flush"}
  /\ held[w] # << >>
  /\ ~(w = Sink /\ FileSink)
  /\ ~MayPush(queue[w + 1])
  /\ asleep[w] = "None"
  /\ asleep' = [asleep EXCEPT ![w] = error]
  /\ UNCHANGED << vars, dropped >>

(* The wait is over: there is a place, or the edge has ended.  The edge    *)
(* that ended takes nothing more, whether or not it has a place.           *)
Wake(w) ==
  /\ asleep[w] # "None"
  /\ asleep' = [asleep EXCEPT ![w] = "None"]
  /\ \/ Emit(w) /\ UNCHANGED dropped
     \/ /\ EmitRefused(w)
        /\ dropped' = IF asleep[w] = "Ok"
                      THEN [dropped EXCEPT ![w] = @ \cup {Head(held[w])}]
                      ELSE dropped

(* Everybody who is not asleep goes on.                                    *)
Awake ==
  /\ \/ Push
     \/ PushEos
     \/ Pull
     \/ Start
     \/ \E w \in Workers : asleep[w] = "None" /\ WorkerStep(w)
     \/ CloseBegin
     \/ CloserStep
  /\ UNCHANGED << asleep, dropped >>

RaceNext ==
  \/ \E w \in Workers : Sleep(w) \/ Wake(w)
  \/ Awake

RaceSpec == RaceInit /\ [][RaceNext]_allVars

(* The node that hands its frames to the sink.                             *)
LastCodec == Sink - 1

(* executor.cpp:72-75: "The sink keeps draining buffered frames into it    *)
(* and cancels it with the error once the stream breaks, so fully          *)
(* processed frames are never lost to a racing cancel."  A frame that the  *)
(* last codec has finished and waits to hand to the sink is fully          *)
(* processed; while the session is open it must not be refused.            *)
ProcessedFramesDelivered ==
  closer = "open" => dropped[LastCodec] = {}
=============================================================================
