------------------------------ MODULE MppDecoder ------------------------------
(***************************************************************************)
(* The hardware decoder node (codecs/h264h265/src/decoder.cpp) run by its  *)
(* worker: it feeds access units to MPP, drains the pictures that are      *)
(* ready and emits them on the edge to the next node.  MPP itself is       *)
(* external: it takes packets when it likes, may keep pictures back, and   *)
(* may stop for good at any time.                                          *)
(*                                                                         *)
(* Access units and pictures are named by their place in the stream.  The  *)
(* stream is given whole, as a file source gives it.                       *)
(***************************************************************************)
EXTENDS BoundedQueue

CONSTANTS MaxPackets,  \* bound: access units of the stream
          InputSlots,  \* packets MPP holds before it answers BUFFER_FULL
          Lookahead,   \* pictures MPP may keep back
          Buffers,     \* MPP's picture buffers
          MaxNaps,     \* bound: naps that fit into the ten seconds of a put
          MppFaults    \* TRUE: any call into MPP may fail

VARIABLES
  edge,      \* the queue to the next node
  decAt,     \* where the decoder's worker is
  decStatus, \* what the worker ended with
  fed,       \* access units the worker has taken
  ready,     \* Impl::initialized
  naps,      \* naps since the deadline was set
  moved,     \* Impl::emitted # before
  hand,      \* the MPP frame being emitted
  devIn,     \* packets inside MPP's input
  kept,      \* pictures MPP has decoded and keeps back
  devOut,    \* frames MPP has ready
  geometry,  \* "unknown", "announced" by an info-change frame, or "agreed"
  content    \* the picture each buffer holds

workerVars == << decAt, decStatus, fed, ready, naps, moved, hand >>
deviceVars == << devIn, kept, devOut, geometry, content >>
decVars    == << workerVars, deviceVars >>

(* An MPP frame: its picture, 0 for none; its buffer; the end-of-stream    *)
(* flag; and whether it only announces the geometry.                       *)
Picture(k, b, eos) == [pic |-> k, buf |-> b, eos |-> eos, info |-> FALSE]
NoFrame   == Picture(0, "none", FALSE)
InfoFrame == [NoFrame EXCEPT !.info = TRUE]
EosFrame  == [NoFrame EXCEPT !.eos = TRUE]
Eos       == MaxPackets + 1

DecInit ==
  /\ decAt = "closed"
  /\ decStatus = "None"
  /\ fed = 0
  /\ ready = FALSE
  /\ naps = 0
  /\ moved = FALSE
  /\ hand = NoFrame
  /\ devIn = << >>
  /\ kept = << >>
  /\ devOut = << >>
  /\ geometry = "unknown"
  /\ content = [b \in Buffers |-> 0]

-----------------------------------------------------------------------------
(* The worker.                                                             *)

(* The node's call has returned s: the executor closes the edge, then q,   *)
(* after a flush that went well and cancels it with any error.             *)
EndsWith(s, q) ==
  /\ decAt' = "done"
  /\ decStatus' = s
  /\ edge' = IF s = "Ok" THEN Close(q) ELSE Cancel(q, s)

DecEnds(s) == EndsWith(s, edge)

(* open(): with a codec given, MPP is set up at once, else with the first  *)
(* access unit.  A failure closes the node.                                *)
DecOpen ==
  /\ decAt = "closed"
  /\ \/ /\ decAt' = "pop"
        /\ ready' \in BOOLEAN
        /\ UNCHANGED << edge, decStatus >>
     \/ /\ MppFaults
        /\ decAt' = "refused"
        /\ decStatus' = "Hw"
        /\ UNCHANGED << edge, ready >>
  /\ UNCHANGED << fed, naps, moved, hand, deviceVars >>

(* The worker takes an access unit and calls process().                    *)
DecTake ==
  /\ decAt = "pop"
  /\ fed < MaxPackets
  /\ fed' = fed + 1
  /\ naps' = 0
  /\ \/ decAt' = "put" /\ ready' = TRUE /\ UNCHANGED << edge, decStatus >>
     \/ ~ready /\ DecEnds("Format") /\ UNCHANGED ready \* no codec recognised
     \/ ~ready /\ MppFaults /\ DecEnds("Hw") /\ UNCHANGED ready
     \/ MppFaults /\ DecEnds("Nomem") /\ UNCHANGED ready
  /\ UNCHANGED << moved, hand, deviceVars >>

(* decode_put_packet: taken, refused because the input is full, failed.    *)
DecPut ==
  /\ decAt = "put"
  /\ \/ /\ Len(devIn) < InputSlots
        /\ devIn' = Append(devIn, fed)
        /\ decAt' = "drain"
        /\ UNCHANGED << edge, decStatus, moved >>
     \/ /\ Len(devIn) >= InputSlots
        /\ decAt' = "full"
        /\ moved' = FALSE
        /\ UNCHANGED << edge, decStatus, devIn >>
     \/ /\ MppFaults
        /\ \E s \in {"Hw", "Nomem"} : DecEnds(s)
        /\ UNCHANGED << moved, devIn >>
  /\ UNCHANGED << fed, ready, naps, hand, kept, devOut, geometry, content >>

(* flush(): nothing was ever decoded, or the end of the stream goes in.    *)
(* A full input is not waited for here.                                    *)
DecFlush ==
  /\ decAt = "pop"
  /\ fed = MaxPackets
  /\ \/ ~ready /\ DecEnds("Ok") /\ UNCHANGED devIn
     \/ /\ ready
        /\ Len(devIn) < InputSlots
        /\ devIn' = Append(devIn, Eos)
        /\ decAt' = "flush"
        /\ UNCHANGED << edge, decStatus >>
     \/ /\ ready
        /\ Len(devIn) >= InputSlots \/ MppFaults
        /\ DecEnds("Hw")
        /\ UNCHANGED devIn
  /\ UNCHANGED << fed, ready, naps, moved, hand, kept, devOut, geometry, content >>

Draining == decAt \in {"full", "drain", "flush"} /\ hand = NoFrame

(* drain_decoder() returns Ok to process() or to flush(), the edge being q.*)
DrainOk(q) ==
  IF decAt = "flush"
  THEN EndsWith("Ok", q)
  ELSE /\ decAt' = IF decAt = "full" THEN "put" ELSE "pop"
       /\ edge' = q
       /\ UNCHANGED decStatus

(* decode_get_frame() has a frame: a change of geometry is acknowledged,   *)
(* a picture is taken in hand, an end without a picture ends the drain.    *)
DecGet ==
  /\ Draining
  /\ devOut # << >>
  /\ devOut' = Tail(devOut)
  /\ LET f == Head(devOut) IN
       \/ /\ f.info
          /\ geometry' = "agreed"
          /\ UNCHANGED << edge, decAt, decStatus, hand >>
       \/ /\ f.info
          /\ MppFaults
          /\ DecEnds("Hw")
          /\ UNCHANGED << geometry, hand >>
       \/ /\ f.pic # 0
          /\ hand' = f
          /\ UNCHANGED << edge, decAt, decStatus, geometry >>
       \/ /\ f.pic = 0 /\ ~f.info
          /\ IF f.eos THEN DrainOk(edge) ELSE UNCHANGED << edge, decAt, decStatus >>
          /\ UNCHANGED << geometry, hand >>
  /\ UNCHANGED << fed, ready, naps, moved, devIn, kept, content >>

(* A fault: an input that stays full is waited for without a deadline.     *)
PatientNap == moved' = moved /\ decAt' = "put" /\ UNCHANGED << edge, decStatus, naps >>

(* The full input gave no picture: one more nap, or the deadline has       *)
(* passed.  A picture that was emitted sets the deadline anew.             *)
NapOrGiveUp ==
  /\ UNCHANGED moved
  /\ \/ /\ moved
        /\ naps' = 0
        /\ decAt' = "put"
        /\ UNCHANGED << edge, decStatus >>
     \/ /\ ~moved
        /\ naps < MaxNaps
        /\ naps' = naps + 1
        /\ decAt' = "put"
        /\ UNCHANGED << edge, decStatus >>
     \/ /\ ~moved
        /\ naps >= MaxNaps
        /\ DecEnds("Hw")
        /\ UNCHANGED naps

(* decode_get_frame() has none.  While flushing this is the end of the     *)
(* five seconds it was given.                                              *)
DecGetNone ==
  /\ Draining
  /\ devOut = << >>
  /\ CASE decAt = "full"  -> NapOrGiveUp
       [] decAt = "drain" -> decAt' = "pop" /\ UNCHANGED << edge, decStatus, naps, moved >>
       [] OTHER           -> DecEnds("Hw") /\ UNCHANGED << naps, moved >>
  /\ UNCHANGED << fed, ready, hand, deviceVars >>

(* emit_mpp_frame(): the picture goes on with a descriptor of its own, and *)
(* the MPP frame is given back.                                            *)
DecEmit ==
  /\ hand # NoFrame
  /\ MayPush(edge)
  /\ PushStatus(edge) = "Ok"
  /\ moved' = TRUE
  /\ hand' = NoFrame
  /\ LET out == Enqueue(edge, [pic |-> hand.pic, buf |-> hand.buf]) IN
       IF hand.eos THEN DrainOk(out) ELSE edge' = out /\ UNCHANGED << decAt, decStatus >>
  /\ UNCHANGED << fed, ready, naps, deviceVars >>

(* The edge has ended, or the picture cannot be passed on: a layout that   *)
(* is not linear, an unknown format, no descriptor, no memory.             *)
DecEmitFails ==
  /\ hand # NoFrame
  /\ hand' = NoFrame
  /\ \/ PushStatus(edge) # "Ok" /\ DecEnds(PushStatus(edge))
     \/ MppFaults /\ \E s \in {"Unsupported", "Format", "Io", "Nomem"} : DecEnds(s)
  /\ UNCHANGED << fed, ready, naps, moved, deviceVars >>

(* close(): MPP goes with everything that is still in it.                  *)
DecClose ==
  /\ decAt # "gone"
  /\ decAt' = "gone"
  /\ ready' = FALSE
  /\ devIn' = << >>
  /\ kept' = << >>
  /\ devOut' = << >>
  /\ UNCHANGED << edge, decStatus, fed, naps, moved, hand, geometry, content >>

DecStep ==
  \/ DecTake
  \/ DecPut
  \/ DecFlush
  \/ DecGet
  \/ DecGetNone
  \/ DecEmit
  \/ DecEmitFails

-----------------------------------------------------------------------------
(* MPP.                                                                    *)

InMpp(b) ==
  \/ \E k \in 1 .. Len(kept) : kept[k].buf = b
  \/ \E k \in 1 .. Len(devOut) : devOut[k].buf = b
  \/ hand.buf = b

(* The first access unit announces the geometry, and decoding waits until  *)
(* it is agreed.                                                           *)
MppAnnounce ==
  /\ devIn # << >>
  /\ Head(devIn) # Eos
  /\ geometry = "unknown"
  /\ geometry' = "announced"
  /\ devOut' = Append(devOut, InfoFrame)
  /\ UNCHANGED << edge, workerVars, devIn, kept, content >>

(* A picture is decoded into a buffer that no MPP frame refers to.         *)
MppDecode ==
  /\ devIn # << >>
  /\ Head(devIn) # Eos
  /\ geometry = "agreed"
  /\ Len(kept) <= Lookahead
  /\ \E b \in Buffers :
       /\ ~InMpp(b)
       /\ content' = [content EXCEPT ![b] = Head(devIn)]
       /\ kept' = Append(kept, Picture(Head(devIn), b, FALSE))
  /\ devIn' = Tail(devIn)
  /\ UNCHANGED << edge, workerVars, devOut, geometry >>

MppDeliver ==
  /\ kept # << >>
  /\ devOut' = Append(devOut, Head(kept))
  /\ kept' = Tail(kept)
  /\ UNCHANGED << edge, workerVars, devIn, geometry, content >>

(* The end of the stream is marked on the last picture or comes alone.     *)
MppEnd ==
  /\ devIn # << >>
  /\ Head(devIn) = Eos
  /\ Len(kept) <= 1
  /\ devOut' = Append(devOut, IF kept = << >> THEN EosFrame
                              ELSE [Head(kept) EXCEPT !.eos = TRUE])
  /\ kept' = << >>
  /\ devIn' = Tail(devIn)
  /\ UNCHANGED << edge, workerVars, geometry, content >>

MppStep == MppAnnounce \/ MppDecode \/ MppDeliver \/ MppEnd
=============================================================================
