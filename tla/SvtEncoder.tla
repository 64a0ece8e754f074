------------------------------ MODULE SvtEncoder ------------------------------
(***************************************************************************)
(* The software AV1 encoder node (codecs/av1/src/encoder.cpp) run by its   *)
(* worker: each picture is copied into SVT's input and whatever packets    *)
(* are ready are emitted; SVT looks ahead, so packets come pictures later, *)
(* and only after the end was sent does the node wait for the rest.  SVT   *)
(* is external; it has threads of its own and works until it is done.      *)
(* Packets are named by their place in SVT's output.                       *)
(***************************************************************************)
EXTENDS BoundedQueue

CONSTANT SvtFaults   \* TRUE: any call into SVT may fail

VARIABLES
  edge,      \* the queue the node takes pictures from
  delivered, \* the packets that left the session
  outcome,   \* how the stream ended for its reader, "None" before
  closing,   \* the session is being closed: its output takes nothing more
  svtAt,     \* where the encoder's worker is
  svtReady,  \* Impl::initialized
  eosSent,   \* Impl::eos_sent
  inside,    \* pictures inside SVT, then Eos
  coded      \* packets SVT has ready

svtVars  == << svtAt, svtReady, eosSent, inside, coded >>
sinkVars == << delivered, outcome >>

Eos == 0

SvtInit ==
  /\ svtAt = "closed"
  /\ svtReady = FALSE
  /\ eosSent = FALSE
  /\ inside = << >>
  /\ coded = << >>

-----------------------------------------------------------------------------
(* The node's call has returned s; the executor ends the output with it    *)
(* and cancels the edge, then q.  An output that close() cancelled has     *)
(* ended already.                                                          *)
SvtEnds(s, q) ==
  /\ svtAt' = "done"
  /\ outcome' = CASE closing -> "Canceled" [] s = "Ok" -> "Eof" [] OTHER -> s
  /\ edge' = Cancel(q, s)

(* open() keeps the emitter; the geometry is unknown until the first frame.*)
SvtOpen ==
  /\ svtAt = "closed"
  /\ svtAt' = "pop"
  /\ UNCHANGED << edge, sinkVars, closing, svtReady, eosSent, inside, coded >>

(* init_locked(): a failure leaves the node as it was.                     *)
InitLocked == svtReady' = TRUE

(* process() up to send_picture(): the first picture sets up the encoder.  *)
SvtTake ==
  /\ svtAt = "pop"
  /\ edge.buf # << >>
  /\ edge' = Dequeue(edge)
  /\ InitLocked
  /\ inside' = Append(inside, Head(edge.buf).pic)
  /\ svtAt' = "drain"
  /\ UNCHANGED << sinkVars, closing, eosSent, coded >>

(* What can go wrong before that: an odd or a changed geometry or another  *)
(* format, no mapping, SVT refusing its set-up or the picture.             *)
SvtRefuse ==
  /\ svtAt = "pop"
  /\ edge.buf # << >>
  /\ SvtFaults
  /\ \E s \in {"Format", "Io", "Hw"} : SvtEnds(s, Dequeue(edge))
  /\ svtReady' \in {svtReady, TRUE}
  /\ UNCHANGED << delivered, closing, eosSent, inside, coded >>

(* drain_packets(): one packet, copied and emitted.  The one marked EOS    *)
(* ends the call; it may be empty, and then nothing is emitted.            *)
SvtGet ==
  /\ svtAt \in {"drain", "flush"}
  /\ coded # << >>
  /\ ~closing
  /\ delivered' = IF Head(coded) = Eos THEN delivered ELSE Append(delivered, Head(coded))
  /\ coded' = Tail(coded)
  /\ IF Head(coded) = Eos THEN SvtEnds("Ok", edge) ELSE UNCHANGED << edge, outcome, svtAt >>
  /\ UNCHANGED << closing, svtReady, eosSent, inside >>

(* get_packet() fails, the output refuses the packet, or there is no       *)
(* memory for its copy.                                                    *)
SvtGetFails ==
  /\ svtAt \in {"drain", "flush"}
  /\ \/ SvtFaults /\ \E s \in {"Hw", "Nomem"} : SvtEnds(s, edge)
     \/ coded # << >> /\ closing /\ SvtEnds("Canceled", edge)
  /\ UNCHANGED << delivered, closing, svtReady, eosSent, inside, coded >>

(* A fault: the drain polls even after the end was sent.                   *)
EveryPollEnds == TRUE

(* get_packet() only polls before the end was sent: nothing is ready now.  *)
PollEnds == ~eosSent

SvtPollEmpty ==
  /\ svtAt \in {"drain", "flush"}
  /\ coded = << >>
  /\ PollEnds
  /\ IF svtAt = "drain"
     THEN svtAt' = "pop" /\ UNCHANGED << edge, outcome >>
     ELSE SvtEnds("Ok", edge)
  /\ UNCHANGED << delivered, closing, svtReady, eosSent, inside, coded >>

(* The edge has ended.  With Eof an encoder that was set up is sent the    *)
(* end and drained; any other status goes on.                              *)
SvtEdgeEnded ==
  /\ svtAt = "pop"
  /\ edge.buf = << >>
  /\ edge.end
  /\ \/ edge.status # "Eof" /\ SvtEnds(edge.status, edge) /\ UNCHANGED << eosSent, inside >>
     \/ edge.status = "Eof" /\ ~svtReady /\ SvtEnds("Ok", edge) /\ UNCHANGED << eosSent, inside >>
     \/ /\ edge.status = "Eof" /\ svtReady
        /\ \/ /\ svtAt' = "flush"
              /\ eosSent' = TRUE
              /\ inside' = Append(inside, Eos)
              /\ UNCHANGED << edge, outcome >>
           \/ SvtFaults /\ SvtEnds("Hw", edge) /\ UNCHANGED << eosSent, inside >>
  /\ UNCHANGED << delivered, closing, svtReady, coded >>

(* close(): SVT goes with everything in it; eos_sent is left as it is.     *)
SvtClose ==
  /\ svtAt # "gone"
  /\ svtAt' = "gone"
  /\ svtReady' = FALSE
  /\ inside' = << >>
  /\ coded' = << >>
  /\ UNCHANGED << edge, sinkVars, closing, eosSent >>

SvtStep ==
  \/ SvtTake
  \/ SvtRefuse
  \/ SvtGet
  \/ SvtGetFails
  \/ SvtPollEmpty
  \/ SvtEdgeEnded

-----------------------------------------------------------------------------
(* SVT finishes a picture, or comes to the end.                            *)
SvtEncode ==
  /\ inside # << >>
  /\ coded' = Append(coded, Head(inside))
  /\ inside' = Tail(inside)
  /\ UNCHANGED << edge, sinkVars, closing, svtAt, svtReady, eosSent >>
=============================================================================
