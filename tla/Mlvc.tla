-------------------------------- MODULE Mlvc --------------------------------
(***************************************************************************)
(* The neural codec from end to end: the frame types and references of     *)
(* mlvc/src/encoder.cpp, the stream of records it writes, and the demuxer  *)
(* and decoder (container.cpp, decoder.cpp) that read this stream in       *)
(* pieces cut at any byte.                                                 *)
(*                                                                         *)
(* Both sides keep two reference features, ref_prev and ref_ltr, and       *)
(* nothing but the flags of the records keeps them equal.  A feature is    *)
(* named by the record that made it: decoding record n gives n if the      *)
(* decoder uses the reference and the quality the encoder used, and Drift  *)
(* otherwise.  The zero feature of a key frame is 0.                       *)
(*                                                                         *)
(* Positions in the stream are counted in units: a header, a record and a  *)
(* payload are each long enough to be cut.                                 *)
(***************************************************************************)
EXTENDS Integers, Sequences, FiniteSets

CONSTANTS LtrStart,    \* quality.ltr_start_idx
          LtrPeriod,   \* quality.ltr_period; 0 is off
          GopSizes,    \* what encode().gop_size may be; 0 keeps the period
          SessionQp,   \* the session's quality
          EncPatches,  \* qualities of the encoder model's patches
          DecPatches,  \* and of the decoder model's
          Dynamic,     \* TRUE: models whose quality is an input (qrows)
          Solved,      \* what the rate controller may ask for
          Payloads,    \* sizes of a coded frame
          HeaderSize, RecordSize,
          MaxFrames    \* bound: records of the stream

ASSUME LtrAssumption == LtrStart \in Nat /\ LtrPeriod \in Nat
ASSUME GopAssumption == GopSizes \subseteq Nat
ASSUME SizesAssumption ==
  /\ HeaderSize \in Nat \ {0} /\ RecordSize \in Nat \ {0}
  /\ Payloads \subseteq Nat \ {0}
ASSUME FramesAssumption == MaxFrames \in Nat
ASSUME DynamicAssumption == Dynamic \in BOOLEAN
ASSUME QualityAssumption ==
  /\ SessionQp \in 0 .. 63 /\ Solved \subseteq 0 .. 63 /\ 0 \in Solved
  /\ EncPatches \subseteq 0 .. 63 /\ DecPatches \subseteq 0 .. 63

(* collect_rungs(): a model without patches has the session's quality.     *)
RungsOf(patches, qp) == IF patches = {} THEN {qp} ELSE patches

EncRungs == RungsOf(EncPatches, SessionQp)
DecRungs == RungsOf(DecPatches, SessionQp)

(* bind_model() refuses an encoder whose rungs lack the session's quality. *)
ASSUME EncoderBinds == SessionQp \in EncRungs

(* "qp-dynamic forbids qppatch rungs", on both sides.                      *)
ASSUME DynamicRungs == Dynamic => EncPatches = {} /\ DecPatches = {}

Drift == -1
Features == 0 .. MaxFrames

VARIABLES
  encRefs,    \* the encoder's ref_prev, ref_ltr and have_ltr
  cur,        \* cur_frame_idx
  period,     \* iframe_period
  rc,         \* there is a rate controller
  pending,    \* have_pending_: update() is due for the frame solved last
  encoder,    \* "running" or "failed"
  log,        \* the records written; their number is frame_count
  trail,      \* history: the encoder's references after each record
  damaged,    \* the record that is damaged on its way, 0 for the header
  arrived,    \* units of the stream that were given to the decoder
  taken,      \* records that were consumed
  decoder,    \* "waiting" for data, in its "loop", or "failed"
  ready,      \* model_ready; the header was read
  decRefs,    \* the decoder's ref_prev, ref_ltr and have_ltr
  rung,       \* the decoder's active rung
  out         \* the pictures it has emitted

encVars == << encRefs, cur, period, rc, pending, encoder, log, trail >>
decVars == << taken, decoder, ready, decRefs, rung, out >>
vars == << encVars, damaged, arrived, decVars >>

Fresh == [prev |-> 0, ltr |-> 0, have |-> FALSE]
NoDamage == MaxFrames + 1

Init ==
  /\ encRefs = Fresh
  /\ cur = 0
  /\ period \in GopSizes
  /\ rc = FALSE
  /\ pending = FALSE
  /\ encoder = "running"
  /\ log = << >>
  /\ trail = << Fresh >>
  /\ damaged \in 0 .. NoDamage
  /\ arrived = 0
  /\ taken = 0
  /\ decoder = "waiting"
  /\ ready = FALSE
  /\ decRefs = Fresh
  /\ rung = SessionQp
  /\ out = << >>

-----------------------------------------------------------------------------
(* The encoder.                                                            *)

IsIdr(force, gop) ==
  \/ log = << >>
  \/ force
  \/ gop # 0 /\ cur > 0 /\ cur % gop = 0

MarksLtr(idr) ==
  /\ ~idr
  /\ LtrPeriod # 0
  /\ cur = LtrStart \/ (cur > LtrStart /\ cur % LtrPeriod = 0)

Recovers(mark) == mark /\ encRefs.have

(* A fault: a key frame leaves the long-term reference alone.              *)
ClearedButLtr(refs, idr) == IF idr THEN [refs EXCEPT !.prev = 0] ELSE refs

(* Another: it leaves the flag that there is one.                          *)
ClearedButHave(refs, idr) ==
  IF idr THEN [Fresh EXCEPT !.have = refs.have] ELSE refs

Cleared(refs, idr) == IF idr THEN Fresh ELSE refs

Reference(refs, recovery) ==
  IF recovery /\ refs.have THEN refs.ltr ELSE refs.prev

(* What the encoder keeps of the frame it has coded.                       *)
Kept(refs, n, mark) ==
  [prev |-> n, ltr |-> IF mark THEN n ELSE refs.ltr, have |-> refs.have \/ mark]

Distance(a, b) == IF a > b THEN a - b ELSE b - a

(* nearest_rung(): the first of the closest, the only member of the set.   *)
Nearest(q) ==
  {r \in EncRungs : \A s \in EncRungs :
    \/ Distance(r, q) < Distance(s, q)
    \/ Distance(r, q) = Distance(s, q) /\ r <= s}

UsedQp(q) == IF Dynamic THEN {q} ELSE Nearest(q)

WrittenBefore(k) == IF k = 0 THEN HeaderSize ELSE log[k].end

(* emit() of a record: frame_count counts it, and the references it leaves *)
(* go on record.                                                           *)
Write(r, refs) ==
  /\ log' = Append(log, r)
  /\ trail' = Append(trail, refs)

(* The frame's control block: gop size and whether a bitrate is asked for. *)
Controls(gop, bitrate) ==
  /\ period' = IF gop > 0 THEN gop ELSE period
  /\ rc' = (rc \/ bitrate)

DropRecord ==
  [drop |-> TRUE, q |-> -1, key |-> FALSE, mark |-> FALSE, recovery |-> FALSE,
   ref |-> 0, end |-> WrittenBefore(Len(log)) + RecordSize]

(* The controller drops a P frame: a record without payload, and no        *)
(* update() for the frame it has solved.                                   *)
DropFrame(gop, bitrate) ==
  /\ encoder = "running" /\ Len(log) < MaxFrames
  /\ Controls(gop, bitrate)
  /\ rc'
  /\ ~IsIdr(FALSE, period') /\ ~MarksLtr(FALSE)
  /\ Write(DropRecord, encRefs)
  /\ cur' = cur + 1
  /\ pending' = TRUE
  /\ UNCHANGED << encRefs, encoder, damaged, arrived, decVars >>

(* Any other frame is coded; one that must not be dropped with quality 0   *)
(* if the controller wants it dropped.                                     *)
CodeFrame(force, gop, bitrate, size) ==
  LET idr  == IsIdr(force, period')
      mark == MarksLtr(idr)
      recovery == Recovers(mark)
      refs == Cleared(encRefs, idr)
      n    == Len(log) + 1
  IN
  /\ encoder = "running" /\ Len(log) < MaxFrames
  /\ Controls(gop, bitrate)
  /\ encRefs' = Kept(refs, n, mark)
  /\ \E solved \in IF rc' THEN Solved ELSE {SessionQp} : \E q \in UsedQp(solved) :
       Write([drop |-> FALSE, q |-> q, key |-> idr, mark |-> mark,
              recovery |-> recovery, ref |-> Reference(refs, recovery),
              end |-> WrittenBefore(Len(log)) + RecordSize + size],
             encRefs')
  /\ cur' = IF idr THEN 1 ELSE cur + 1
  /\ pending' = FALSE
  /\ UNCHANGED << encoder, damaged, arrived, decVars >>

(* The NPU, the range coder or the queue ahead fails: process() returns,   *)
(* with the references cleared or of this frame already, or not yet.       *)
EncodeFails(force, gop, bitrate) ==
  LET idr  == IsIdr(force, period')
      mark == MarksLtr(idr)
  IN
  /\ encoder = "running" /\ Len(log) < MaxFrames
  /\ Controls(gop, bitrate)
  /\ encoder' = "failed"
  /\ encRefs' \in {encRefs, Cleared(encRefs, idr),
                   Kept(Cleared(encRefs, idr), Len(log) + 1, mark)}
  /\ pending' \in IF rc' THEN BOOLEAN ELSE {FALSE}
  /\ UNCHANGED << cur, log, trail, damaged, arrived, decVars >>

EncoderStep ==
  \E gop \in GopSizes, bitrate \in BOOLEAN :
    \/ DropFrame(gop, bitrate)
    \/ \E force \in BOOLEAN :
         \/ \E size \in Payloads : CodeFrame(force, gop, bitrate, size)
         \/ EncodeFails(force, gop, bitrate)

-----------------------------------------------------------------------------
(* The demuxer.                                                            *)

Written == IF log = << >> THEN 0 ELSE WrittenBefore(Len(log))

(* process() of a piece of the stream, cut wherever the transport likes.   *)
Arrive(n) ==
  /\ decoder = "waiting"
  /\ arrived' = arrived + n
  /\ decoder' = "loop"
  /\ UNCHANGED << encVars, damaged, taken, ready, decRefs, rung, out >>

Start == WrittenBefore(taken)
Record == log[taken + 1]

(* What Demuxer::next() says of the bytes that are there.                  *)
Malformed ==
  \/ arrived >= HeaderSize /\ damaged = 0
  \/ arrived >= Start + RecordSize /\ damaged = taken + 1
Complete ==
  /\ ~Malformed
  /\ arrived >= Start + RecordSize
  /\ arrived >= Record.end
Incomplete == ~Malformed /\ ~Complete

-----------------------------------------------------------------------------
(* The decoder: the loop of process().                                     *)

StreamIsMalformed ==
  /\ decoder = "loop"
  /\ Malformed
  /\ decoder' = "failed"
  /\ UNCHANGED << encVars, damaged, arrived, taken, ready, decRefs, rung, out >>

NeedMore ==
  /\ decoder = "loop"
  /\ Incomplete
  /\ ready \/ arrived < HeaderSize
  /\ decoder' = "waiting"
  /\ UNCHANGED << encVars, damaged, arrived, taken, ready, decRefs, rung, out >>

(* A fault: process() returns once the models are ready.                   *)
InitReturns == "waiting"

(* lazy_init() is followed by another look at the buffer.                  *)
AfterInit == "loop"

(* The rungs are in order, and the first is the active one.                *)
Lowest(S) == {r \in S : \A s \in S : r <= s}

(* The header has arrived: the models are made for its quality, which must *)
(* be one of theirs.                                                       *)
LazyInit ==
  /\ decoder = "loop"
  /\ ~Malformed
  /\ ~ready /\ arrived >= HeaderSize
  /\ \/ /\ SessionQp \in DecRungs
        /\ ready' = TRUE
        /\ rung' \in Lowest(DecRungs)
        /\ decRefs' = Fresh
        /\ decoder' = AfterInit
     \/ /\ decoder' = "failed"
        /\ ready' \in BOOLEAN
        /\ UNCHANGED << rung, decRefs >>
  /\ UNCHANGED << encVars, damaged, arrived, taken, out >>

InLoop == decoder = "loop" /\ ready /\ Complete

(* A dropped frame: the last picture once more, if there is one.           *)
RepeatFrame ==
  /\ InLoop
  /\ Record.drop
  /\ out' = IF out = << >> THEN out ELSE Append(out, out[Len(out)])
  /\ taken' = taken + 1
  /\ UNCHANGED << encVars, damaged, arrived, decoder, ready, decRefs, rung >>

(* The rung for a record: a model with a single one takes any record.      *)
HasRung(q) == Dynamic \/ q \in DecRungs \/ Cardinality(DecRungs) = 1
RungFor(q) == IF Dynamic \/ q \in DecRungs THEN q ELSE rung

(* What decoding gives: the picture of the record, if nothing differs.     *)
Picture(refs, r) ==
  IF Reference(refs, r.recovery) = r.ref /\ RungFor(r.q) = r.q
  THEN taken + 1 ELSE Drift

(* A fault: the mark is obeyed before the new reference is in place.       *)
KeptMarkFirst(refs, n, mark) ==
  [prev |-> n, ltr |-> IF mark THEN refs.prev ELSE refs.ltr,
   have |-> refs.have \/ mark]

(* What the decoder keeps of the frame it has decoded.                     *)
DecKept(refs, n, mark) ==
  [prev |-> n, ltr |-> IF mark THEN n ELSE refs.ltr, have |-> refs.have \/ mark]

DecodeFrame ==
  LET refs == Cleared(decRefs, Record.key)
      pic  == Picture(refs, Record)
  IN
  /\ InLoop
  /\ ~Record.drop
  /\ HasRung(Record.q)
  /\ rung' = RungFor(Record.q)
  /\ decRefs' = DecKept(refs, pic, Record.mark)
  /\ out' = Append(out, pic)
  /\ taken' = taken + 1
  /\ UNCHANGED << encVars, damaged, arrived, decoder, ready >>

(* No rung for the record, or the range decoder, the NPU or the queue      *)
(* ahead fails: process() returns and the session ends.                    *)
DecodeFails ==
  /\ InLoop
  /\ decoder' = "failed"
  /\ IF Record.drop
     THEN UNCHANGED << decRefs, rung >>
     ELSE \/ UNCHANGED << decRefs, rung >>
          \/ /\ HasRung(Record.q)
             /\ rung' = RungFor(Record.q)
             /\ decRefs' \in
                  LET refs == Cleared(decRefs, Record.key)
                  IN  {refs, DecKept(refs, Picture(refs, Record), Record.mark)}
  /\ UNCHANGED << encVars, damaged, arrived, taken, ready, out >>

DecoderStep ==
  \/ StreamIsMalformed
  \/ NeedMore
  \/ LazyInit
  \/ RepeatFrame
  \/ DecodeFrame
  \/ DecodeFails

Transport == \E n \in 1 .. Written - arrived : Arrive(n)

Next == EncoderStep \/ Transport \/ DecoderStep

Spec == Init /\ [][Next]_vars

-----------------------------------------------------------------------------
(* Properties.                                                             *)

RefsOf(S) == [prev : S, ltr : S, have : BOOLEAN]

RecordType == [drop : BOOLEAN, q : -1 .. 63, key : BOOLEAN, mark : BOOLEAN,
               recovery : BOOLEAN, ref : Features, end : Nat]

(* The types of the variables; a side has a long-term reference exactly    *)
(* when have_ltr says so.                                                  *)
TypeOK ==
  /\ encRefs \in RefsOf(Features) /\ decRefs \in RefsOf(Features \cup {Drift})
  /\ encRefs.have <=> encRefs.ltr # 0
  /\ decRefs.have <=> decRefs.ltr # 0
  /\ cur \in Nat /\ period \in GopSizes
  /\ rc \in BOOLEAN
  /\ pending \in BOOLEAN
  /\ encoder \in {"running", "failed"}
  /\ log \in Seq(RecordType) /\ Len(log) <= MaxFrames
  /\ trail \in Seq(RefsOf(Features))
  /\ damaged \in 0 .. NoDamage
  /\ arrived \in 0 .. Written
  /\ taken \in 0 .. Len(log)
  /\ decoder \in {"waiting", "loop", "failed"}
  /\ ready \in BOOLEAN
  /\ rung \in 0 .. 63
  /\ out \in Seq(Features \cup {Drift})

RungsAgree == DecRungs = EncRungs \/ Cardinality(DecRungs) > 1

(* The decoder that has consumed some records holds the references the     *)
(* encoder held when it had written them, whatever was dropped, marked,    *)
(* recovered or restarted on the way (mlvc-frame-types.md:81-82: on a key  *)
(* frame the decoder clears its slots as the encoder does).  With several rungs the  *)
(* decoder refuses the records of another one; with a single one it takes  *)
(* any record (decoder.cpp:310-312), and must have the encoder's.          *)
SameReferences ==
  RungsAgree /\ decoder # "failed" => decRefs = trail[taken + 1]

IsLastCoded(records, j, k) ==
  /\ j \in 1 .. k
  /\ ~records[j].drop
  /\ \A i \in j + 1 .. k : records[i].drop

(* Every record becomes one picture, in order: the picture that was coded, *)
(* or for a dropped frame the one before it (mlvc-frame-types.md:95).      *)
PicturesAreThoseCoded ==
  RungsAgree =>
    /\ Len(out) = taken
    /\ \A k \in 1 .. Len(out) : IsLastCoded(log, out[k], k)

(* However the stream is cut, the decoder reads no record before all of it *)
(* is there, and when process() returns for more it has read every record  *)
(* that is complete (decoder.cpp:454-476): none is left in the buffer.     *)
WholeRecordsAreRead ==
  /\ taken > 0 => log[taken].end <= arrived
  /\ decoder = "waiting" /\ taken < Len(log) => arrived < log[taken + 1].end

(* Decoding can begin at any key frame: no later record refers to anything *)
(* before it (mlvc-frame-types.md:81-83).                                  *)
KeyFramesAreEntryPoints ==
  \A k, n \in 1 .. Len(log) :
    k < n /\ log[k].key /\ ~log[n].drop /\ ~log[n].key => log[n].ref >= k

(* A recovery frame refers to the frame marked last, and none before a key *)
(* frame (mlvc-frame-types.md:90-92).                                      *)
RecoveryUsesLastMark ==
  \A n \in 1 .. Len(log) : log[n].recovery =>
    /\ log[n].ref \in 1 .. n - 1
    /\ log[log[n].ref].mark
    /\ \A j \in log[n].ref + 1 .. n - 1 : ~log[j].mark /\ ~log[j].key

(* "Dropped frames (solve returned kQDrop) pass payload_bits 0"            *)
(* (ratectl.hpp:33): the controller is told of every frame it has solved.  *)
EveryFrameIsReported == encoder = "running" => ~pending
=============================================================================
