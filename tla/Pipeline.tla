------------------------------ MODULE Pipeline ------------------------------
(***************************************************************************)
(* A running session: Session (core/src/session.cpp), Executor             *)
(* (core/src/executor.cpp) and the endpoint adapters and NodeEmit of       *)
(* core/src/graph.cpp and core/src/fileio.cpp.                             *)
(*                                                                         *)
(* A graph of NodeCount nodes in a line is run by one thread per node.     *)
(* Queue 0 is the session's input queue, queue w the edge into node w and  *)
(* queue NodeCount the session's output queue: node w pops queue w and     *)
(* pushes queue w + 1.  Around them run the application's threads: one     *)
(* that pushes frames and the end of stream, one that pulls, and one that  *)
(* closes the session.                                                     *)
(*                                                                         *)
(* Frames are named by their place in the order of acceptance.  A codec    *)
(* node is modelled by the contract of core/include/rkvc/node.hpp: it      *)
(* takes a frame, may keep up to Lookahead of them, emits the others in    *)
(* order and reports a status; flush() emits what is left.  With a file    *)
(* source queue 0 is the file, complete and ended from the start, of which *)
(* the source may fail to read the rest; with a file sink frames are       *)
(* delivered by writing them and queue NodeCount only carries the terminal *)
(* state.                                                                  *)
(***************************************************************************)
EXTENDS BoundedQueue, FiniteSets

CONSTANTS NodeCount,    \* nodes of the graph, endpoints included
          Lookahead,    \* frames a codec node may hold back
          MaxFrames,    \* bound: frames of the stream
          NodeStatuses, \* what a node can report besides Ok
          Failing,      \* the nodes that can report one of them
          FileSource,   \* TRUE: the first node reads a file
          FileSink      \* TRUE: the last node writes a file

ASSUME NodeCountAssumption == NodeCount \in Nat /\ NodeCount >= 2
ASSUME LookaheadAssumption == Lookahead \in Nat
ASSUME MaxFramesAssumption == MaxFrames \in Nat
(* The contract a node has to keep: process() and flush() fail with a real *)
(* error.  fail() ignores Again and Eof, so a node that returned one would *)
(* end its thread and leave its neighbours waiting (the codecs turn an     *)
(* MPP Again into Hw for that reason, h264h265/src/decoder.cpp:153-157).   *)
ASSUME NodeContract == NodeStatuses \cap (Benign \cup {"None"}) = {}
ASSUME FailingAssumption == Failing \subseteq 0 .. NodeCount - 1
ASSUME EndpointAssumption == FileSource \in BOOLEAN /\ FileSink \in BOOLEAN

Workers == 0 .. NodeCount - 1
Sink    == NodeCount - 1
Queues  == 0 .. NodeCount
OutQ    == NodeCount

Errors   == NodeStatuses \cup {"Canceled"}
Statuses == Errors \cup Benign

VARIABLES
  queue,     \* in_q, the edges and out_q
  sent,      \* history: frames ever put into each queue
  rcvd,      \* history: frames ever taken from each queue
  delivered, \* the frames the application (or the file) has obtained
  verdict,   \* the terminal status a pull has returned, "None" before
  pc,        \* where each worker thread is
  held,      \* frames inside each node: borrowed or kept for lookahead
  status,    \* the status a worker is about to report
  cursor,    \* the next queue a worker's fail() cancels
  active,    \* Executor::active_
  error,     \* Executor::error_
  started,   \* Session::started_
  closer,    \* progress of Session::close(); "open" means !closed_
  sweep      \* the next queue shutdown() cancels

workerVars == << pc, held, status, cursor >>
appVars    == << started, closer, sweep >>
vars == << queue, sent, rcvd, delivered, verdict, workerVars, active, error,
           appVars >>

Init ==
  /\ queue = [q \in Queues |->
                IF q = 0 /\ FileSource
                THEN [buf |-> [k \in 1 .. MaxFrames |-> k], end |-> TRUE,
                      status |-> "Eof"]
                ELSE EmptyQueue]
  /\ sent = [q \in Queues |-> IF q = 0 /\ FileSource THEN MaxFrames ELSE 0]
  /\ rcvd = [q \in Queues |-> 0]
  /\ delivered = << >>
  /\ verdict = "None"
  /\ pc = [w \in Workers |-> "unborn"]
  /\ held = [w \in Workers |-> << >>]
  /\ status = [w \in Workers |-> "Ok"]
  /\ cursor = [w \in Workers |-> 0]
  /\ active = 0
  /\ error = "Ok"
  /\ started = FALSE
  /\ closer = "open"
  /\ sweep = 0

-----------------------------------------------------------------------------
(* The application: push, push_eos, pull, start.                           *)

(* Session::push of a frame that is accepted.  Again, Eof and Canceled     *)
(* leave the session as it was.  Legal before start().                     *)
Push ==
  /\ closer = "open"
  /\ sent[0] < MaxFrames
  /\ TryPushStatus(queue[0]) = "Ok"
  /\ queue' = [queue EXCEPT ![0] = Enqueue(@, sent[0] + 1)]
  /\ sent' = [sent EXCEPT ![0] = @ + 1]
  /\ UNCHANGED << rcvd, delivered, verdict, workerVars, active, error, appVars >>

PushEos ==
  /\ closer = "open"
  /\ queue' = [queue EXCEPT ![0] = Close(@)]
  /\ UNCHANGED << sent, rcvd, delivered, verdict, workerVars, active, error,
                  appVars >>

(* pull() or try_pull() that obtains a frame.                              *)
PullFrame ==
  /\ queue[OutQ].buf # << >>
  /\ delivered' = Append(delivered, Head(queue[OutQ].buf))
  /\ queue' = [queue EXCEPT ![OutQ] = Dequeue(@)]
  /\ rcvd' = [rcvd EXCEPT ![OutQ] = @ + 1]
  /\ UNCHANGED << sent, verdict, workerVars, active, error, appVars >>

(* pull() or try_pull() that reports the end.                              *)
PullEnd ==
  /\ MayPop(queue[OutQ])
  /\ queue[OutQ].buf = << >>
  /\ verdict' = PopStatus(queue[OutQ])
  /\ UNCHANGED << queue, sent, rcvd, delivered, workerVars, active, error,
                  appVars >>

(* Session::start once the graph is open: Executor::launch.                *)
Start ==
  /\ closer = "open"
  /\ ~started
  /\ started' = TRUE
  /\ active' = NodeCount
  /\ pc' = [w \in Workers |-> "pop"]
  /\ UNCHANGED << queue, sent, rcvd, delivered, verdict, held, status, cursor,
                  error, closer, sweep >>

-----------------------------------------------------------------------------
(* The worker threads.                                                     *)

Goto(w, from, to) == pc[w] = from /\ pc' = [pc EXCEPT ![w] = to]

IsCodec(w) == w # 0 /\ w # Sink

(* What node w itself can report: the queue adapters only pass on the      *)
(* status of their queue, the file source only runs out of memory, the     *)
(* file sink gets a frame it cannot read or write.                         *)
Reports(w) ==
  IF w \in Failing
  THEN CASE IsCodec(w)              -> NodeStatuses
         [] w = 0 /\ FileSource     -> NodeStatuses \cap {"Nomem"}
         [] w = Sink /\ FileSink    -> NodeStatuses \cap {"Io", "Format"}
         [] OTHER                   -> {}
  ELSE {}

(* The worker, or the source's process(), takes the next frame.            *)
PopFrame(w) ==
  /\ Goto(w, "pop", "work")
  /\ queue[w].buf # << >>
  /\ held' = [held EXCEPT ![w] = Append(@, Head(queue[w].buf))]
  /\ queue' = [queue EXCEPT ![w] = Dequeue(@)]
  /\ rcvd' = [rcvd EXCEPT ![w] = @ + 1]
  /\ UNCHANGED << sent, delivered, verdict, status, cursor, active, error,
                  appVars >>

(* The queue has ended: on Eof the node is flushed, else the status is     *)
(* handed on.                                                              *)
QueueEnds(w) ==
  /\ MayPop(queue[w])
  /\ queue[w].buf = << >>
  /\ status' = [status EXCEPT ![w] = PopStatus(queue[w])]
  /\ pc' = [pc EXCEPT ![w] = IF PopStatus(queue[w]) = "Eof" THEN "flush"
                                                            ELSE "fail"]

(* The file source cannot read the next frame: it takes that for the end   *)
(* of the file, as it takes a truncated frame, and never reads on.         *)
ReadFails(w) ==
  /\ w = 0 /\ FileSource /\ w \in Failing
  /\ queue[w].buf # << >>
  /\ status' = [status EXCEPT ![w] = "Eof"]
  /\ pc' = [pc EXCEPT ![w] = "flush"]

(* There is no more input, as far as the worker can tell.                  *)
PopEnd(w) ==
  /\ pc[w] = "pop"
  /\ QueueEnds(w) \/ ReadFails(w)
  /\ UNCHANGED << queue, sent, rcvd, delivered, verdict, held, cursor, active,
                  error, appVars >>

(* Emit::emit from process() or flush(), QueueSinkNode's push, or the file *)
(* sink's write.                                                           *)
Emit(w) ==
  /\ pc[w] \in {"work", "flush"}
  /\ held[w] # << >>
  /\ held' = [held EXCEPT ![w] = Tail(@)]
  /\ sent' = [sent EXCEPT ![w + 1] = @ + 1]
  /\ IF w = Sink /\ FileSink
     THEN /\ delivered' = Append(delivered, Head(held[w]))
          /\ rcvd' = [rcvd EXCEPT ![OutQ] = @ + 1]
          /\ UNCHANGED queue
     ELSE /\ MayPush(queue[w + 1])
          /\ PushStatus(queue[w + 1]) = "Ok"
          /\ queue' = [queue EXCEPT ![w + 1] = Enqueue(@, Head(held[w]))]
          /\ UNCHANGED << delivered, rcvd >>
  /\ UNCHANGED << verdict, pc, status, cursor, active, error, appVars >>

(* The queue ahead has ended: the node returns the status it got.  Only    *)
(* the source takes an Eof from process() for the end of its input.        *)
EmitRefused(w) ==
  /\ pc[w] \in {"work", "flush"}
  /\ held[w] # << >>
  /\ ~(w = Sink /\ FileSink)
  /\ PushStatus(queue[w + 1]) # "Ok"
  /\ status' = [status EXCEPT ![w] = PushStatus(queue[w + 1])]
  /\ pc' = [pc EXCEPT ![w] =
              IF w = 0 /\ @ = "work" /\ PushStatus(queue[w + 1]) = "Eof"
              THEN "flush" ELSE "fail"]
  /\ UNCHANGED << queue, sent, rcvd, delivered, verdict, held, cursor, active,
                  error, appVars >>

(* process() returns Ok.                                                   *)
ProcessOk(w) ==
  /\ Goto(w, "work", "pop")
  /\ Len(held[w]) <= IF IsCodec(w) THEN Lookahead ELSE 0
  /\ UNCHANGED << queue, sent, rcvd, delivered, verdict, held, status, cursor,
                  active, error, appVars >>

(* process() or flush() reports a failure of the node's own.  The endpoint *)
(* adapters have no flush() and fail before they pass the frame on, the    *)
(* file source also before it reads one, when it gets no buffer for it.    *)
NodeFails(w) ==
  /\ \/ pc[w] = "work" /\ (~IsCodec(w) => held[w] # << >>)
     \/ pc[w] = "flush" /\ IsCodec(w)
     \/ pc[w] = "pop" /\ w = 0
  /\ \E s \in Reports(w) :
       /\ status' = [status EXCEPT ![w] = s]
       /\ pc' = [pc EXCEPT ![w] = "fail"]
  /\ UNCHANGED << queue, sent, rcvd, delivered, verdict, held, cursor, active,
                  error, appVars >>

(* flush() returned Ok: the end of the stream moves one queue on.          *)
FlushOk(w) ==
  /\ Goto(w, "flush", "leave")
  /\ IsCodec(w) => held[w] = << >>
  /\ queue' = [queue EXCEPT ![w + 1] = Close(@)]
  /\ UNCHANGED << sent, rcvd, delivered, verdict, held, status, cursor, active,
                  error, appVars >>

(* A fault: the sink's worker returns without ending the output queue.     *)
AfterFailSinkReturns(w) == "leave"

(* Where a worker goes after fail(): the sink still ends the output queue. *)
AfterFail(w) == IF w = Sink THEN "endout" ELSE "leave"

(* A fault: a later error replaces the one that was recorded.              *)
LastErrorWins(s) == s \notin Benign

(* The error that is kept, and the only one that cancels queues.           *)
FirstError(s) == s \notin Benign /\ error = "Ok"

(* A fault: the output queue is cancelled along with the edges.            *)
AfterCancelWithOutput(w) ==
  IF cursor[w] = OutQ THEN AfterFail(w) ELSE "cancel"

AfterCancel(w) == IF cursor[w] + 1 = OutQ THEN AfterFail(w) ELSE "cancel"

(* Executor::fail up to the unlock: the first error is recorded; a status  *)
(* that is none, or a later error, cancels nothing.                        *)
FailRecord(w) ==
  /\ pc[w] = "fail"
  /\ IF FirstError(status[w])
     THEN /\ error' = status[w]
          /\ cursor' = [cursor EXCEPT ![w] = 0]
          /\ pc' = [pc EXCEPT ![w] = "cancel"]
     ELSE /\ pc' = [pc EXCEPT ![w] = AfterFail(w)]
          /\ UNCHANGED << error, cursor >>
  /\ UNCHANGED << queue, sent, rcvd, delivered, verdict, held, status, active,
                  appVars >>

(* Executor::fail after the unlock: the input queue and then every edge,   *)
(* one after the other, never the output queue.                            *)
FailCancel(w) ==
  /\ pc[w] = "cancel"
  /\ queue' = [queue EXCEPT ![cursor[w]] = Cancel(@, status[w])]
  /\ cursor' = [cursor EXCEPT ![w] = @ + 1]
  /\ pc' = [pc EXCEPT ![w] = AfterCancel(w)]
  /\ UNCHANGED << sent, rcvd, delivered, verdict, held, status, active, error,
                  appVars >>

(* The sink's worker cancels the output queue with its own status.         *)
EndOutput(w) ==
  /\ Goto(w, "endout", "leave")
  /\ queue' = [queue EXCEPT ![OutQ] = Cancel(@, status[w])]
  /\ UNCHANGED << sent, rcvd, delivered, verdict, held, status, cursor, active,
                  error, appVars >>

(* The worker's guard object: one thread less.                             *)
Leave(w) ==
  /\ Goto(w, "leave", "done")
  /\ active' = IF active > 0 THEN active - 1 ELSE active
  /\ UNCHANGED << queue, sent, rcvd, delivered, verdict, held, status, cursor,
                  error, appVars >>

WorkerStep(w) ==
  \/ PopFrame(w)
  \/ PopEnd(w)
  \/ Emit(w)
  \/ EmitRefused(w)
  \/ ProcessOk(w)
  \/ NodeFails(w)
  \/ FlushOk(w)
  \/ FailRecord(w)
  \/ FailCancel(w)
  \/ EndOutput(w)
  \/ Leave(w)

-----------------------------------------------------------------------------
(* Session::close: closed_, in_->close(), Executor::shutdown, the nodes.   *)

(* A fault: shutdown() leaves the output queue out.                        *)
SweepWithoutOutput(k) == IF k = 0 THEN 0 ELSE k - 1

(* shutdown() cancels in_q, then out_q, then the edges in order.           *)
SweepOrder(k) ==
  CASE k = 0 -> 0
    [] k = 1 -> OutQ
    [] OTHER -> k - 1

(* A session that was never started has nothing to shut down.              *)
CloseBegin ==
  /\ closer = "open"
  /\ closer' = IF started THEN "sweep" ELSE "closed"
  /\ queue' = [queue EXCEPT ![0] = Close(@)]
  /\ UNCHANGED << sent, rcvd, delivered, verdict, workerVars, active, error,
                  started, sweep >>

CloseCancel ==
  /\ closer = "sweep"
  /\ queue' = [queue EXCEPT ![SweepOrder(sweep)] = Cancel(@, "Canceled")]
  /\ sweep' = sweep + 1
  /\ closer' = IF sweep = NodeCount THEN "join" ELSE "sweep"
  /\ UNCHANGED << sent, rcvd, delivered, verdict, workerVars, active, error,
                  started >>

(* Every thread is joined, then the nodes are closed.                      *)
CloseJoin ==
  /\ closer = "join"
  /\ \A w \in Workers : pc[w] = "done"
  /\ closer' = "closed"
  /\ UNCHANGED << queue, sent, rcvd, delivered, verdict, workerVars, active,
                  error, started, sweep >>

CloserStep == CloseCancel \/ CloseJoin

Pull == PullFrame \/ PullEnd

Next ==
  \/ Push
  \/ PushEos
  \/ Pull
  \/ Start
  \/ \E w \in Workers : WorkerStep(w)
  \/ CloseBegin
  \/ CloserStep

Spec == Init /\ [][Next]_vars

(* Every thread that can run keeps running: the operating system schedules *)
(* it, and a node call returns.                                            *)
FairSpec ==
  /\ Spec
  /\ \A w \in Workers : WF_vars(WorkerStep(w))
  /\ WF_vars(CloserStep)
-----------------------------------------------------------------------------
(* Properties.                                                             *)

QueueType == [buf : Seq(1 .. MaxFrames), end : BOOLEAN,
              status : Errors \cup {"Eof"}]

Points == {"unborn", "pop", "work", "flush", "fail", "cancel", "endout",
           "leave", "done"}

DataTypeOK ==
  /\ queue \in [Queues -> QueueType]
  /\ sent \in [Queues -> 0 .. MaxFrames]
  /\ rcvd \in [Queues -> 0 .. MaxFrames]
  /\ held \in [Workers -> Seq(1 .. MaxFrames)]
  /\ delivered \in Seq(1 .. MaxFrames)

ControlTypeOK ==
  /\ verdict \in Statuses \cup {"None"}
  /\ pc \in [Workers -> Points]
  /\ status \in [Workers -> Statuses]
  /\ cursor \in [Workers -> 0 .. OutQ]
  /\ active \in 0 .. NodeCount
  /\ error \in Errors \cup {"Ok"}
  /\ started \in BOOLEAN
  /\ closer \in {"open", "sweep", "join", "closed"}
  /\ sweep \in 0 .. NodeCount + 1

(* The types of all variables, with the counters within their bounds.      *)
TypeOK == DataTypeOK /\ ControlTypeOK

EndedWith(q, s) == queue[q].end /\ queue[q].status = s

(* Where the threads and queues stand to each other: what passed a queue,  *)
(* what is in it and what is in the node behind it add up, so a frame is   *)
(* neither lost nor doubled on its way (queue.hpp, NodeEmit, Node).        *)
(* A node that failed keeps the frames it had.                             *)
Conservation ==
  /\ \A q \in Queues : sent[q] = rcvd[q] + Len(queue[q].buf)
  /\ \A w \in Workers : rcvd[w] = sent[w + 1] + Len(held[w])

(* A node's frames and a queue's items are the next ones in order.         *)
Contents ==
  /\ \A q \in Queues : \A k \in 1 .. Len(queue[q].buf) :
       queue[q].buf[k] = rcvd[q] + k
  /\ \A w \in Workers : \A k \in 1 .. Len(held[w]) :
       held[w][k] = sent[w + 1] + k
  /\ Len(delivered) = rcvd[OutQ]
  /\ FileSink => queue[OutQ].buf = << >>

(* Frames come out in the order in which they went in, across all threads. *)
FramesInOrder == \A k \in 1 .. Len(delivered) : delivered[k] = k

(* What the session has taken on: the frames that were pushed, or those    *)
(* the source has read from its file.                                      *)
Accepted == IF FileSource THEN rcvd[0] ELSE sent[0]

(* Nothing more is taken on: the input has ended, or the source has found  *)
(* what it takes for the end of its file.                                  *)
Sealed == IF FileSource THEN status[0] = "Eof" ELSE queue[0].end

(* An output queue that ended with Eof holds or has given out every frame  *)
(* that was accepted, and no node has reported an error: none surfaces as  *)
(* a clean end (test_pipeline.cpp, "process error surfaces instead of      *)
(* eof").  The rest of a file that could not be read was never accepted:   *)
(* no node reports that (fileio.cpp:66-74).                                *)
EofMeansComplete ==
  EndedWith(OutQ, "Eof") => sent[OutQ] = Accepted /\ error = "Ok"

(* When wait() returns, the reader is not left hanging: whatever path each *)
(* worker took to its exit, the output queue has ended (executor.cpp:124,  *)
(* "Terminal for the session side too, or pull() would hang").             *)
ReaderNotStranded == started /\ active = 0 => queue[OutQ].end

(* Unless the session was closed, pull() ends with the error that wait()   *)
(* returns, and with Eof when wait() returns Ok, however many workers      *)
(* failed at once.                                                         *)
WaitAgreesWithPull ==
  started /\ active = 0 /\ closer = "open" =>
    queue[OutQ].status = IF error = "Ok" THEN "Eof" ELSE error

(* The two phases of fail(): whatever made it into the last edge before a  *)
(* failure is still drained into the output queue.                         *)
LastEdgeDrained ==
  started /\ active = 0 /\ closer = "open" => sent[OutQ] = sent[Sink]

(* What the inductive invariant of PipelineProofs adds to the above.       *)

(* shutdown() has not passed its last queue while it is cancelling.        *)
SweepBound == closer \in {"open", "sweep"} => sweep <= NodeCount

(* A thread exists exactly when the session was started.                   *)
BornWhenStarted == \A w \in Workers : started <=> pc[w] # "unborn"

(* No node has passed on more frames than the first one took.              *)
WithinAccepted == \A q \in 1 .. OutQ : sent[q] <= rcvd[0]

(* What the place of a worker says of its node and its queues.             *)
WorkerAt(w) ==
  /\ pc[w] = "flush" =>
       /\ \/ EndedWith(w, "Eof") /\ queue[w].buf = << >>
          \/ w = 0 /\ FileSource
       /\ status[w] = "Eof"
  /\ pc[w] \in {"unborn", "pop", "work"} => status[w] = "Ok"
  /\ pc[w] \in {"unborn", "pop", "flush"} /\ ~IsCodec(w) => held[w] = << >>
  /\ pc[w] \in {"fail", "cancel", "endout"} => status[w] \in Errors
  /\ pc[w] = "cancel" => cursor[w] < OutQ
  /\ pc[w] = "endout" => w = Sink
  /\ pc[w] \in {"leave", "done"} /\ w = Sink => queue[OutQ].end

WorkerState == \A w \in Workers : WorkerAt(w)

(* A queue that ended with Eof has passed on everything that was accepted, *)
(* and every worker before it has left without an error.                   *)
EofChain ==
  \A q \in 1 .. OutQ : EndedWith(q, "Eof") =>
    /\ sent[q] = Accepted
    /\ FileSource \/ queue[0].end
    /\ \A v \in 0 .. q - 1 : pc[v] \in {"leave", "done"} /\ status[v] = "Eof"

(* The recorded error is the one some worker failed with.                  *)
ErrorHasOrigin ==
  error # "Ok" =>
    \E v \in Workers : /\ status[v] = error
                       /\ pc[v] \in {"cancel", "endout", "leave", "done"}

(* active_ counts the threads that have not left.                          *)
ActiveCount ==
  active = Cardinality({w \in Workers : pc[w] \notin {"unborn", "done"}})

(* What a pull has reported is the end of a drained output queue.          *)
VerdictFinal ==
  verdict # "None" => /\ EndedWith(OutQ, verdict)
                      /\ queue[OutQ].buf = << >>

IInv ==
  /\ TypeOK
  /\ Conservation
  /\ SweepBound
  /\ Contents
  /\ FramesInOrder
  /\ BornWhenStarted
  /\ WithinAccepted
  /\ WorkerState
  /\ EofChain
  /\ ErrorHasOrigin
  /\ ActiveCount
  /\ VerdictFinal

(* The end of a queue and the first error are final: no later close,       *)
(* cancel or failure changes what was reported, and nothing enters an      *)
(* ended queue.                                                            *)
EndIsFinal ==
  [][/\ \A q \in Queues : queue[q].end =>
          /\ queue'[q].end
          /\ queue'[q].status = queue[q].status
          /\ Len(queue'[q].buf) <= Len(queue[q].buf)
     /\ error # "Ok" => error' = error]_<< queue, error >>

(* Once the input has ended or a worker has failed, a reader that keeps    *)
(* pulling, as a frame-sink session asks of it (architecture.md:21), is    *)
(* told the end.                                                           *)
ReaderIsTold ==
  WF_vars(Pull) =>
    (started /\ (queue[0].end \/ error # "Ok") ~> verdict # "None")

(* close() returns although nobody pulls: shutdown() wakes every thread.   *)
CloseReturns == closer = "sweep" ~> closer = "closed"

(* What the application learns as the end: of a frame-sink session from    *)
(* pull(), of a file session from wait().                                  *)
Outcome ==
  CASE ~FileSink                            -> verdict
    [] FileSink /\ started /\ active = 0    -> IF error = "Ok" THEN "Eof" ELSE error
    [] OTHER                                -> "None"

(* The session carries a stream: only an error or a close may cut it off.  *)
Carrier == INSTANCE Stream WITH
  Statuses <- Statuses, Cutting <- Errors,
  accepted <- Accepted, sealed <- Sealed,
  delivered <- delivered, outcome <- Outcome
CarriesStream == Carrier!Spec
=============================================================================
