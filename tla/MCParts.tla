------------------------------- MODULE MCParts -------------------------------
(***************************************************************************)
(* The parts of the system that work alone, checked in one run: a          *)
(* behaviour takes one of them and works on it, and the others stay idle.  *)
(*   negotiation   the specifications of an edge are unified               *)
(*   context       plug-ins are found, models added, requests planned      *)
(*   stream        access units are muxed, and demuxed in pieces           *)
(*   entropy       values are encoded and decoded by the range coder       *)
(*   pixels        tensors and pictures move between layouts               *)
(***************************************************************************)
EXTENDS Negotiation, Context, ProgramStream, RangeCoder, PixelLayouts

VARIABLE part

partVars == << vars, ctxVars, psVars, rcVars, pxVars, part >>

-----------------------------------------------------------------------------
(* Context: two transforms of the same rank and a better one, spread over  *)
(* the libraries of two directories; a foreign library; a library with an  *)
(* id that is taken, by another and by a built-in factory; one that brings *)
(* an id twice.                                                            *)

MCIds == << "file.sink", "file.source", "mlvc.decode", "mlvc.encode", "mpp.decode", "mpp.encode",
            "rknn.upscale", "svt.encode", "test.identity", "test.other" >>
Lib(load, ids) == [status |-> load, ids |-> ids]
MCLibraries ==
  [mpp     |-> Lib("Ok", << "mpp.decode", "mpp.encode" >>),
   other   |-> Lib("Ok", << "test.other" >>),
   ident   |-> Lib("Ok", << "test.identity" >>),
   foreign |-> Lib("NotFound", << >>),
   stale   |-> Lib("Unsupported", << "svt.encode" >>),
   mixed   |-> Lib("Ok", << "mlvc.encode", "test.other", "mlvc.decode" >>),
   twice   |-> Lib("Ok", << "rknn.upscale", "rknn.upscale" >>),
   shadow  |-> Lib("Ok", << "svt.encode", "file.sink" >>)]
MCSearchPath == << {"mpp", "other", "ident", "foreign"}, {"stale", "mixed", "twice", "mpp", "shadow"} >>

Bundle(encoders, decoders, others, tables, broken) ==
  [opens |-> TRUE, encoders |-> encoders, decoders |-> decoders, others |-> others,
   tables |-> tables, broken |-> broken]
MCBundles ==
  {Bundle(<< "enc" >>, << "dec" >>, << >>, TRUE, FALSE),
   Bundle(<< >>, << >>, << "sr2", "sr3" >>, FALSE, FALSE),
   Bundle(<< >>, << "dec" >>, << "sr4" >>, TRUE, FALSE),
   Bundle(<< "enc" >>, << >>, << >>, FALSE, FALSE),
   Bundle(<< >>, << >>, << "sr5" >>, FALSE, TRUE)}

Req(operation, codec, policy, input, output, model) ==
  [operation |-> operation, codec |-> codec, policy |-> policy, input |-> input,
   output |-> output, model |-> model, valid |-> TRUE]
MCRequests ==
  {Req("Upscale", "Auto", "Realtime", "File", "FrameSink", "sr2"),
   Req("Upscale", "Auto", "Balanced", "FrameSink", "File", ""),
   Req("Transcode", "Hevc", "Realtime", "FrameSink", "FrameSink", ""),
   Req("Encode", "Av1", "Quality", "File", "Stream", ""),
   Req("Decode", "Mlvc", "Balanced", "FrameSink", "FrameSink", "dec"),
   [Req("Encode", "Mlvc", "Balanced", "FrameSink", "FrameSink", "") EXCEPT !.valid = FALSE]}

(* Stream: key units and others, one that does not begin with a start      *)
(* code, and lengths on both sides of a fragment's.                        *)
MCUnits ==
  [Avc  |-> {<< 0, 0, 1, 103, 9 >>, << 0, 0, 1, 65, 9, 9, 0, 0, 0 >>, << 9, 0, 0, 1, 65 >>},
   Hevc |-> {<< 0, 0, 1, 64, 9, 0, 0, 1, 2 >>, << 0, 0, 1, 2 >>}]

(* Entropy: both variants; distributions with an offset, with frequency    *)
(* one, and a sequence whose total is too large.                           *)
MCVariants ==
  {[unit |-> 3, lower |-> 7, units |-> 4], [unit |-> 6, lower |-> 5, units |-> 2]}
MCTables ==
  {<< [offset |-> 1, freqs |-> << 3, 4, 1 >>], [offset |-> 0, freqs |-> << 1, 5, 2 >>] >>,
   << [offset |-> 0, freqs |-> << 4, 5 >>] >>}
MCIndices == {-1, 0, 5}
MCValues  == {-9, -1, 0, 1, 2, 9}

(* Pixels: widths with and without a vector's tail, blocks that fit and    *)
(* blocks that do not, odd pictures, planar ones, and padded rows.         *)
Shape(c, h, w) == [c |-> c, h |-> h, w |-> w]
MCTensors == {Shape(8, 1, 9), Shape(4, 2, 2), Shape(16, 2, 8), Shape(3, 2, 3)}
MCBlocks  == {<< 8, 0 >>, << 2, 0 >>, << 8, 10 >>, << 4, -1 >>}
Image(w, h, pad, nv12) == [w |-> w, h |-> h, pad |-> pad, nv12 |-> nv12]
MCPictures ==
  {Image(4, 2, 1, TRUE), Image(4, 4, 0, FALSE), Image(3, 3, 1, TRUE), Image(4, 4, 2, TRUE)}
MCCores   == {[w |-> 1, h |-> 1], [w |-> 2, h |-> 1]}
MCLatents ==
  {[y |-> Shape(4, 5, 4), z |-> Shape(2, 2, 1)], [y |-> Shape(2, 9, 3), z |-> Shape(2, 2, 1)],
   [y |-> Shape(2, 9, 5), z |-> Shape(1, 3, 2)]}

-----------------------------------------------------------------------------
NegIdle ==
  /\ producer = BridgeIn
  /\ consumer = BridgeIn
  /\ resolved = << producer, consumer >>
  /\ result = "Open"

PartsInit ==
  /\ part \in {"negotiation", "context", "stream", "entropy", "pixels"}
  /\ IF part = "negotiation" THEN Init ELSE NegIdle
  /\ CtxIdle /\ (part # "context" => device)
  /\ PsIdle
  /\ RcIdle
  /\ PxIdle

PartsNext ==
  \/ part = "negotiation" /\ Next    /\ UNCHANGED << ctxVars, psVars, rcVars, pxVars, part >>
  \/ part = "context"     /\ CtxNext /\ UNCHANGED << vars, psVars, rcVars, pxVars, part >>
  \/ part = "stream"      /\ PsNext  /\ UNCHANGED << vars, ctxVars, rcVars, pxVars, part >>
  \/ part = "entropy"     /\ RcNext  /\ UNCHANGED << vars, ctxVars, psVars, pxVars, part >>
  \/ part = "pixels"      /\ PxNext  /\ UNCHANGED << vars, ctxVars, psVars, rcVars, part >>

PartsSpec == PartsInit /\ [][PartsNext]_partVars
=============================================================================
