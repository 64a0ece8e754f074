------------------------------ MODULE Transcode ------------------------------
(***************************************************************************)
(* A transcode: the hardware decoder and one of the two encoders, each run *)
(* by its own worker, with a bounded edge between them, while the session  *)
(* may be closed at any time (the graph of core/src/graph.cpp for          *)
(* Operation::Transcode).                                                  *)
(***************************************************************************)
EXTENDS BoundedQueue

CONSTANTS MaxPackets, InputSlots, Lookahead, Buffers, MaxNaps, Parts,
          MppFaults, SvtFaults

ASSUME BoundsAssumption == MaxPackets \in Nat /\ Parts \in Nat

VARIABLES edge, decAt, decStatus, fed, ready, naps, moved, hand, devIn, kept,
          devOut, geometry, content,
          encoder,   \* the encoder the planner chose: "mpp" or "svt"
          delivered, outcome, closing,
          encAt, encHas, jobs, outBuf, packets,
          svtAt, svtReady, eosSent, inside, coded

Dec == INSTANCE MppDecoder
Mpp == INSTANCE MppEncoder
Svt == INSTANCE SvtEncoder

decVars  == << decAt, decStatus, fed, ready, naps, moved, hand, devIn, kept,
               devOut, geometry, content >>
sinkVars == << delivered, outcome >>
mppVars  == << encAt, encHas, jobs, outBuf, packets >>
svtVars  == << svtAt, svtReady, eosSent, inside, coded >>
tcVars   == << edge, decVars, encoder, sinkVars, closing, mppVars, svtVars >>

TcInit ==
  /\ edge = EmptyQueue
  /\ Dec!DecInit
  /\ encoder \in {"mpp", "svt"}
  /\ delivered = << >>
  /\ outcome = "None"
  /\ closing = FALSE
  /\ Mpp!EncInit
  /\ Svt!SvtInit

EncoderAt == IF encoder = "mpp" THEN encAt ELSE svtAt

DecoderOnly == UNCHANGED << encoder, sinkVars, closing, mppVars, svtVars >>
MppOnly     == encoder = "mpp" /\ UNCHANGED << decVars, encoder, svtVars >>
SvtOnly     == encoder = "svt" /\ UNCHANGED << decVars, encoder, mppVars >>

(* The nodes are opened one after the other, and the workers are launched  *)
(* only if every open went well.                                           *)
OpenDecoder ==
  /\ Dec!DecOpen
  /\ outcome' = IF decAt' = "refused" THEN decStatus' ELSE outcome
  /\ UNCHANGED << encoder, delivered, closing, mppVars, svtVars >>
OpenEncoder ==
  /\ decAt = "pop"
  /\ (MppOnly /\ Mpp!EncOpenNode) \/ (SvtOnly /\ Svt!SvtOpen)

Refused  == "refused" \in {decAt, EncoderAt}
Launched == {decAt, EncoderAt} \cap {"closed", "refused", "gone"} = {}

DecoderWorks == Launched /\ Dec!DecStep /\ DecoderOnly
EncoderWorks == Launched /\ ((MppOnly /\ Mpp!EncStep) \/ (SvtOnly /\ Svt!SvtStep))
DecoderDevice == Dec!MppStep /\ DecoderOnly
EncoderDevice == MppOnly /\ Mpp!MppEncode
SvtLibrary    == SvtOnly /\ Svt!SvtEncode

(* Session::close() cancels the queues under the workers, first the output,*)
(* then the edge.                                                          *)
CloseOutput ==
  /\ Launched
  /\ ~closing
  /\ closing' = TRUE
  /\ UNCHANGED << edge, decVars, encoder, sinkVars, mppVars, svtVars >>

CloseEdge ==
  /\ closing
  /\ ~edge.end
  /\ edge' = Cancel(edge, "Canceled")
  /\ UNCHANGED << decVars, encoder, sinkVars, closing, mppVars, svtVars >>

(* No node is closed before every worker was joined, if there were any.    *)
Joined == \/ Refused \/ "gone" \in {decAt, EncoderAt}
          \/ decAt = "done" /\ EncoderAt = "done"
CloseNodes ==
  /\ Joined
  /\ (Dec!DecClose /\ DecoderOnly) \/ (MppOnly /\ Mpp!EncClose) \/ (SvtOnly /\ Svt!SvtClose)

SessionStep == OpenDecoder \/ OpenEncoder \/ CloseEdge \/ CloseNodes

TcNext ==
  \/ SessionStep
  \/ CloseOutput
  \/ DecoderWorks
  \/ EncoderWorks
  \/ DecoderDevice
  \/ EncoderDevice
  \/ SvtLibrary

(* The threads run; SVT, which is software, does its work; the hardware is *)
(* not trusted to do anything.                                             *)
TcFairness ==
  /\ WF_tcVars(SessionStep)
  /\ WF_tcVars(DecoderWorks)
  /\ WF_tcVars(EncoderWorks)
  /\ WF_tcVars(SvtLibrary)

Spec == TcInit /\ [][TcNext]_tcVars /\ TcFairness

-----------------------------------------------------------------------------
(* Properties.                                                             *)

Statuses == {"Ok", "Eof", "Hw", "Format", "Nomem", "Io", "Unsupported", "Invalid",
             "Canceled"}

(* The chain carries a stream: what comes out is the stream's pictures in  *)
(* order, none lost, doubled or read from the output buffer after it was   *)
(* written over, unless an error or the close cuts it off (encoder.cpp,    *)
(* the comment on drain_frame_packets: "the output buffer is reused by the *)
(* next frame").                                                           *)
Carrier == INSTANCE Stream WITH
  Cutting <- Statuses \ {"Ok", "Eof"}, accepted <- MaxPackets, sealed <- TRUE
ChainCarriesStream == Carrier!Spec

(* Whatever the hardware does, and if it stops for good, every call into a *)
(* codec returns, the stream ends for its reader, and the nodes are closed *)
(* with nothing left of the hardware's.                                    *)
CallsReturn ==
  <>(outcome # "None" /\ decAt = "gone" /\ EncoderAt = "gone" /\ encHas = {})

(* "Borrowed payload outlives the Frame" (frame.hpp:40): as long as a      *)
(* frame waits on the edge, its buffer holds the picture it was emitted    *)
(* with.                                                                   *)
PictureIntact ==
  \A k \in 1 .. Len(edge.buf) : content[edge.buf[k].buf] = edge.buf[k].pic
=============================================================================
