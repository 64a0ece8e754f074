------------------------------ MODULE MppEncoder ------------------------------
(***************************************************************************)
(* The hardware encoder node (codecs/h264h265/src/encoder.cpp) run by its  *)
(* worker: it takes pictures from its edge, hands each to MPP together     *)
(* with the one output buffer the node owns, and drains the packets of     *)
(* that picture before it takes the next.  MPP is external: it encodes     *)
(* what it was handed in order, writes into the output buffer on its own   *)
(* time and may stop for good.                                             *)
(*                                                                         *)
(* Settings, regions of interest and time stamps are data that no property *)
(* looks at: what is left of them is that setting them can fail.           *)
(***************************************************************************)
EXTENDS BoundedQueue

CONSTANTS Parts,     \* packets a picture may be split into
          MppFaults  \* TRUE: any call into MPP may fail

VARIABLES
  edge,      \* the queue the node takes pictures from
  delivered, \* the pictures whose packets all left the session
  outcome,   \* how the stream ended for its reader, "None" before
  closing,   \* the session is being closed: its output takes nothing more
  encAt,     \* where the encoder's worker is
  encHas,    \* which of Impl::ctx, cfg, group and out_buf are held
  jobs,      \* frames handed to MPP, with the packets they will become
  outBuf,    \* the picture that was last written into Impl::out_buf
  packets    \* packets MPP has ready; all of them lie in out_buf

encVars  == << encAt, encHas, jobs, outBuf, packets >>
sinkVars == << delivered, outcome >>

EncInit ==
  /\ encAt = "closed"
  /\ encHas = {}
  /\ jobs = << >>
  /\ outBuf = 0
  /\ packets = << >>

-----------------------------------------------------------------------------
(* The node's calls.                                                       *)

(* The node's call has returned s: an error cancels the edge, then q, and  *)
(* ends the output with that error; a flush that went well ends it with    *)
(* Eof.  An output that close() cancelled has ended already.               *)
EncEnds(s, q) ==
  /\ encAt' = "done"
  /\ outcome' = CASE closing -> "Canceled" [] s = "Ok" -> "Eof" [] OTHER -> s
  /\ edge' = Cancel(q, s)

(* init_from_spec(): everything is set up, or nothing while the geometry   *)
(* is unknown.  What was acquired before a failure is given back, except   *)
(* for the buffer group when the output buffer cannot be had.              *)
AllParts == {"ctx", "cfg", "group", "out_buf"}
InitFromSpec(known) ==
  IF known THEN encHas' = AllParts ELSE UNCHANGED encHas
InitFails(s) ==
  \/ s = "Format" /\ UNCHANGED encHas
  \/ s = "Hw" /\ MppFaults /\ encHas' \in {{}, {"group"}}

(* open(): in a transcode the geometry comes with the first picture.       *)
EncOpenNode ==
  /\ encAt = "closed"
  /\ \/ encAt' = "pop" /\ InitFromSpec(TRUE) /\ UNCHANGED << edge, outcome >>
     \/ encAt' = "pop" /\ InitFromSpec(FALSE) /\ UNCHANGED << edge, outcome >>
     \/ /\ encAt' = "refused"
        /\ outcome' \in {"Format", "Hw"}
        /\ InitFails(outcome')
        /\ UNCHANGED edge
  /\ UNCHANGED << delivered, closing, jobs, outBuf, packets >>

(* What apply_control(), attach_roi(), attach_output_packet(), host_copy() *)
(* and dmabuf_wrap() can fail with.                                        *)
ControlFailures == {"Hw"}
RoiFailures     == {"Invalid", "Hw"}
PacketFailures  == {"Hw"}
CopyFailures    == {"Nomem"}
ImportFailures  == {"Nomem"}

(* process() up to encode_put_frame().                                     *)
EncTake ==
  /\ encAt = "pop"
  /\ edge.buf # << >>
  /\ edge' = Dequeue(edge)
  /\ encAt' = "code"
  /\ IF "ctx" \in encHas THEN UNCHANGED encHas ELSE InitFromSpec(TRUE)
  /\ \E n \in 1 .. Parts :
       jobs' = Append(jobs, [pic |-> Head(edge.buf).pic, left |-> n, eos |-> FALSE])
  /\ UNCHANGED << sinkVars, closing, outBuf, packets >>

(* process() refuses the picture for its format or geometry, or one of the *)
(* calls before MPP has the frame fails.                                   *)
EncRefuse ==
  /\ encAt = "pop"
  /\ edge.buf # << >>
  /\ \/ /\ "ctx" \notin encHas
        /\ \E s \in {"Format", "Hw"} : InitFails(s) /\ EncEnds(s, Dequeue(edge))
     \/ /\ MppFaults
        /\ \E s \in {"Format"} \cup ControlFailures \cup RoiFailures \cup PacketFailures
                               \cup CopyFailures \cup ImportFailures :
             EncEnds(s, Dequeue(edge))
        /\ IF "ctx" \in encHas THEN UNCHANGED encHas ELSE InitFromSpec(TRUE)
  /\ UNCHANGED << delivered, closing, jobs, outBuf, packets >>

(* emit_packet(): the packet is copied and emitted unless it is empty; the *)
(* copy is of what is in the output buffer at that moment.                 *)
Emitted(p) == IF p.last /\ ~p.eos THEN Append(delivered, outBuf) ELSE delivered

(* drain_frame_packets(): the packets of the picture, to its last.         *)
EncGet ==
  /\ encAt = "code"
  /\ packets # << >>
  /\ ~closing
  /\ delivered' = Emitted(Head(packets))
  /\ packets' = Tail(packets)
  /\ encAt' = IF Head(packets).last THEN "pop" ELSE "code"
  /\ UNCHANGED << edge, outcome, closing, encHas, jobs, outBuf >>

(* drain_packets(until_eos): everything up to the packet marked EOS.       *)
EncGetEos ==
  /\ encAt = "eos"
  /\ packets # << >>
  /\ ~closing
  /\ delivered' = Emitted(Head(packets))
  /\ packets' = Tail(packets)
  /\ IF Head(packets).eos THEN EncEnds("Ok", edge) ELSE UNCHANGED << edge, outcome, encAt >>
  /\ UNCHANGED << closing, encHas, jobs, outBuf >>

(* A fault: a picture whose packet does not come is given up, and the next *)
(* one takes the output buffer.                                            *)
MoveOn == encAt' = "pop" /\ UNCHANGED << edge, outcome >>

(* Five seconds without a packet: the output buffer must not be handed out *)
(* again while MPP may still be writing into it.                           *)
GiveUp == EncEnds("Hw", edge)

EncStalled ==
  /\ packets = << >>
  /\ \/ encAt = "code" /\ GiveUp
     \/ encAt = "eos" /\ EncEnds("Hw", edge)
  /\ UNCHANGED << delivered, closing, encHas, jobs, outBuf, packets >>

(* The emit of a packet is refused by an output that was cancelled, or     *)
(* there is no memory for its copy.                                        *)
EncEmitRefused ==
  /\ encAt \in {"code", "eos"}
  /\ packets # << >>
  /\ \/ closing /\ EncEnds("Canceled", edge)
     \/ MppFaults /\ EncEnds("Nomem", edge)
  /\ packets' = Tail(packets)
  /\ UNCHANGED << delivered, closing, encHas, jobs, outBuf >>

(* The edge has ended.  With Eof the encoder, if there is one, is flushed  *)
(* by an empty frame that carries the end; any other status goes on.       *)
EncEdgeEnded ==
  /\ encAt = "pop"
  /\ edge.buf = << >>
  /\ edge.end
  /\ \/ edge.status # "Eof" /\ EncEnds(edge.status, edge) /\ UNCHANGED jobs
     \/ edge.status = "Eof" /\ "ctx" \notin encHas /\ EncEnds("Ok", edge) /\ UNCHANGED jobs
     \/ /\ edge.status = "Eof" /\ "ctx" \in encHas
        /\ \/ /\ encAt' = "eos"
              /\ jobs' = Append(jobs, [pic |-> 0, left |-> 1, eos |-> TRUE])
              /\ UNCHANGED << edge, outcome >>
           \/ MppFaults /\ EncEnds("Hw", edge) /\ UNCHANGED jobs
  /\ UNCHANGED << delivered, closing, encHas, outBuf, packets >>

(* close(): the output buffer, the settings, MPP and the buffer group go.  *)
EncClose ==
  /\ encAt # "gone"
  /\ encAt' = "gone"
  /\ encHas' = {}
  /\ jobs' = << >>
  /\ packets' = << >>
  /\ UNCHANGED << edge, sinkVars, closing, outBuf >>

EncStep ==
  \/ EncTake
  \/ EncRefuse
  \/ EncGet
  \/ EncGetEos
  \/ EncStalled
  \/ EncEmitRefused
  \/ EncEdgeEnded

-----------------------------------------------------------------------------
(* MPP writes the next packet of its oldest frame into the output buffer.  *)
(* The one for an empty frame is empty and marks the end.                  *)
MppEncode ==
  /\ jobs # << >>
  /\ LET job == Head(jobs) IN
       /\ outBuf' = job.pic
       /\ packets' = Append(packets, [last |-> job.left = 1, eos |-> job.eos])
       /\ jobs' = IF job.left = 1 THEN Tail(jobs)
                                  ELSE << [job EXCEPT !.left = @ - 1] >> \o Tail(jobs)
  /\ UNCHANGED << edge, sinkVars, closing, encAt, encHas >>
=============================================================================
