---------------------------- MODULE ProgramStream ----------------------------
(***************************************************************************)
(* The program-stream muxer and demuxer of codecs/pspack/src/ps.cpp: each  *)
(* access unit becomes packets of at most PesChunk bytes, and the demuxer  *)
(* finds the access units again in bytes that arrive in pieces of any      *)
(* size, from the start or from somewhere in the middle of the stream.     *)
(*                                                                         *)
(* The wire is a sequence of bytes with the code's header lengths.  Clock, *)
(* rate, check sum and descriptors are Filler; time stamps wrap at         *)
(* PtsModulus (2^33 in the code) and fill the first of their five bytes.   *)
(***************************************************************************)
EXTENDS Integers, Sequences, FiniteSets

CONSTANTS PesChunk,    \* kPesChunk
          MaxPayload,  \* kMaxPayload
          MaxBuffered, \* kMaxBuffered
          PtsModulus,  \* the modulus of a time stamp
          Units,       \* the access units a stream is made of, per codec
          MaxUnits,    \* bound: access units of a stream
          Pieces,      \* the sizes in which bytes arrive
          Joins        \* the offsets at which a receiver may join

(* A packet's length fits two bytes; append() of nothing changes nothing.  *)
ASSUME StreamAssumption ==
  /\ PesChunk \in Nat \ {0} /\ PesChunk + 8 < 65536
  /\ MaxPayload \in Nat /\ PtsModulus \in Nat \ {0} /\ MaxUnits \in Nat
  /\ Pieces \subseteq Nat \ {0} /\ Joins \subseteq Nat

VARIABLES stream,  \* the access units muxed, each [codec, data, pts]
          wire,    \* the bytes they became
          join,    \* where the receiver joined
          got,     \* how many bytes have arrived, counted from the start
          demux,   \* the Demux object
          out,     \* the frames it has given out
          said     \* what its last call returned

psVars == << stream, wire, join, got, demux, out, said >>

Codecs == {"Avc", "Hevc"}
Filler == 255
Pack   == 186   \* 0xBA
System == 187   \* 0xBB
Map    == 188   \* 0xBC
Video  == 224   \* 0xE0

(* The first sequences joined, and all of them.                            *)
Joined(ss)  == LET joined[k \in 0 .. Len(ss)] == IF k = 0 THEN << >> ELSE joined[k - 1] \o ss[k]
               IN joined
Flatten(ss) == Joined(ss)[Len(ss)]
Fill(n)     == [k \in 1 .. n |-> Filler]
Smallest(S) == CHOOSE x \in S : \A y \in S : x <= y

-----------------------------------------------------------------------------
(* The muxer.                                                              *)

StreamType(codec) == IF codec = "Avc" THEN 27 ELSE 36
Wrapped(pts) == IF pts < 0 THEN 0 ELSE pts % PtsModulus
WrPts(pts)   == 32 + Wrapped(pts)
RdPts(b)     == b - 32

(* The bytes after each start code.                                        *)
NalHeaders(d) ==
  {d[i + 3] : i \in {j \in 1 .. Len(d) - 3 : SubSeq(d, j, j + 2) = << 0, 0, 1 >>}}

AvcType(b)  == b % 32
HevcType(b) == (b \div 2) % 64
IsKeyframe(codec, d) ==
  \E b \in NalHeaders(d) :
    IF codec = "Avc" THEN AvcType(b) \in {5, 7} ELSE HevcType(b) \in {32, 19, 20}

PackHeader == << 0, 0, 1, Pack >> \o Fill(10)
SystemHeader == << 0, 0, 1, System, 0, 9 >> \o Fill(9)
StreamMap(codec) ==
  << 0, 0, 1, Map, 0, 14, 192, 255, 0, 0, 0, 4, StreamType(codec), Video, 0, 0 >>
    \o Fill(4)

(* One packet: the first of a unit carries the time stamp and the mark     *)
(* that a unit starts.                                                     *)
PesHeader(first, pts, len) ==
  IF first THEN << 0, 0, 1, Video, (8 + len) \div 256, (8 + len) % 256, 132, 128, 5, WrPts(pts) >>
                  \o Fill(4)
           ELSE << 0, 0, 1, Video, (3 + len) \div 256, (3 + len) % 256, 128, 0, 0 >>

(* The n-th fragment of a unit, with what goes before it.                  *)
Chunk(d, n)  ==
  SubSeq(d, (n - 1) * PesChunk + 1, IF n * PesChunk > Len(d) THEN Len(d) ELSE n * PesChunk)
Fragments(d) == (Len(d) + PesChunk - 1) \div PesChunk
Marked(u, n) == n = 1 /\ IsKeyframe(u.codec, u.data)
Fragment(u, n) ==
  PackHeader
    \o (IF Marked(u, n) THEN SystemHeader \o StreamMap(u.codec) ELSE << >>)
    \o PesHeader(n = 1, u.pts, Len(Chunk(u.data, n)))
    \o Chunk(u.data, n)

(* A receiver that joins within a packet looks for start codes in what is  *)
(* left of it.  It finds none but those of NAL units, whose first byte has *)
(* its highest bit clear; the two zeros are the end of a header without a  *)
(* time stamp.  A receiver from the start needs no such assumption.        *)
NalsOnly(d) ==
  \A i \in 1 .. Len(d) - 3 : d[i] = 0 /\ d[i + 1] = 0 /\ d[i + 2] = 1 => d[i + 3] < 128
ASSUME UnitsAssumption ==
  \A codec \in Codecs : \A d \in Units[codec] :
    /\ d \in Seq(0 .. 255)
    /\ Joins \subseteq {0} \/ \A n \in 1 .. Fragments(d) : NalsOnly(<< 0, 0 >> \o Chunk(d, n))

(* mux_frame(): an empty or an oversized unit is refused.                  *)
Muxable(u) == u.data # << >> /\ Len(u.data) <= MaxPayload
MuxFrame(u) == Flatten([n \in 1 .. Fragments(u.data) |-> Fragment(u, n)])

-----------------------------------------------------------------------------
(* The demuxer: positions count from 0, as in the code.                    *)

EmptyDemux == [buf |-> << >>, cursor |-> 0, au |-> << >>, pts |-> 0,
               open |-> FALSE, psm |-> "none"]

FindSc(d, from) ==
  {i \in from .. Len(d) - 3 : d[i + 1] = 0 /\ d[i + 2] = 0 /\ d[i + 3] = 1}

U16(d, i) == 256 * d[i + 1] + d[i + 2]

(* HEVC first: an AVC header byte can look like an HEVC one.               *)
Sniff(d) ==
  CASE \E b \in NalHeaders(d) : HevcType(b) \in {32, 19, 20} -> "Hevc"
    [] OTHER -> IF \E b \in NalHeaders(d) : AvcType(b) \in {5, 7} THEN "Avc" ELSE "Hevc"

Codec(x) == IF x.psm # "none" THEN x.psm ELSE Sniff(x.au)

(* emit_au(): the unit that is open becomes a frame.                       *)
HasUnit(x) == x.open /\ x.au # << >>
FrameOf(x) == [codec |-> Codec(x), data |-> x.au, pts |-> x.pts,
               key |-> IsKeyframe(Codec(x), x.au)]

(* The entries of a stream map from q to its end; the last known type of a *)
(* video stream counts.                                                    *)
NextEntry(d, end, e) ==
  LET q == e.q
  IN IF q + 4 > end THEN e
     ELSE [q     |-> q + 4 + U16(d, q + 2),
           known |-> IF d[q + 2] \notin 224 .. 239 THEN e.known
                     ELSE IF d[q + 1] = 27 THEN "Avc"
                     ELSE IF d[q + 1] = 36 THEN "Hevc"
                     ELSE e.known]
Entries(d, q, end, known) ==
  LET entry[k \in 0 .. end] == IF k = 0 THEN [q |-> q, known |-> known]
                               ELSE NextEntry(d, end, entry[k - 1])
  IN entry
MapCodec(d, q, end, known) == Entries(d, q, end, known)[end].known

ReadMap(x, d, sc, end) ==
  LET q      == sc + 10 + (U16(d, sc + 8) % 32768)
      mapEnd == end - 4
  IN IF end >= sc + 10 /\ q + 2 <= mapEnd /\ q + 2 + U16(d, q) <= mapEnd
     THEN [x EXCEPT !.psm = MapCodec(d, q + 2, q + 2 + U16(d, q), @)]
     ELSE x

(* A call on its way through the bytes, and what it returns: the object    *)
(* after it, a status, and the frames.                                     *)
GoOn(x, pos) == [demux |-> x, pos |-> pos, status |-> "Scan", frames |-> << >>]
Answer(x, status, frames) ==
  [demux |-> x, pos |-> x.cursor, status |-> status, frames |-> frames]
Wait(x, k) == Answer([x EXCEPT !.cursor = k], "Again", << >>)

(* A fault: nothing is kept when no start code is in sight.                *)
KeepNothing(n) == n

(* The last bytes may be the beginning of a start code.                    *)
KeepTail(n) == IF n > 3 THEN n - 3 ELSE 0

(* A video packet starts a unit and hands out the one before, continues    *)
(* the open one, or is an orphan.                                          *)
Packet(x, id, flags, pts, body, end) ==
  IF id < Video \/ body = << >> THEN GoOn(x, end)
  ELSE IF (flags \div 4) % 2 = 1
       THEN LET y == [x EXCEPT !.au = body, !.open = TRUE, !.cursor = end, !.pts = pts]
            IN IF HasUnit(x) THEN Answer(y, "Ok", << FrameOf(x) >>) ELSE GoOn(y, end)
  ELSE IF ~x.open THEN GoOn(x, end)
  ELSE IF Len(x.au) + Len(body) > MaxPayload THEN Answer(x, "Format", << >>)
  ELSE GoOn([x EXCEPT !.au = @ \o body, !.cursor = end], end)

(* A packet without a length ends at the next start code; video has none   *)
(* such.                                                                   *)
Endless(x, sc, pay) ==
  IF x.buf[sc + 4] >= Video THEN Answer(x, "Format", << >>)
  ELSE IF FindSc(x.buf, pay) = {} THEN Wait(x, sc)
  ELSE GoOn(x, Smallest(FindSc(x.buf, pay)))

AtPes(x, sc) ==
  LET d    == x.buf
      n    == Len(d)
      len  == U16(d, sc + 4)
      hlen == d[sc + 9]
      pay  == sc + 9 + hlen
      end  == pay + len - 3 - hlen
      hasPts == d[sc + 8] >= 128
  IN IF sc + 9 > n \/ pay > n \/ (hasPts /\ sc + 14 > n) THEN Wait(x, sc)
     ELSE IF len = 0 THEN Endless(x, sc, pay)
     ELSE IF len < 3 + hlen THEN Answer(x, "Format", << >>)
     ELSE IF end > n THEN Wait(x, sc)
     ELSE Packet(x, d[sc + 4], d[sc + 7], IF hasPts THEN RdPts(d[sc + 10]) ELSE 0,
                 SubSeq(d, pay + 1, end), end)

AtPack(x, sc) == IF sc + 14 > Len(x.buf) THEN Wait(x, sc) ELSE GoOn(x, sc + 14)

(* System headers are passed over, stream maps are read.                   *)
AtHeader(x, sc) ==
  LET end == sc + 6 + U16(x.buf, sc + 4)
  IN IF sc + 6 > Len(x.buf) \/ end > Len(x.buf) THEN Wait(x, sc)
     ELSE GoOn(IF x.buf[sc + 4] = Map THEN ReadMap(x, x.buf, sc, end) ELSE x, end)

(* At a start code; unknown ones are passed over.                          *)
AtCode(x, sc) ==
  IF sc + 4 > Len(x.buf) THEN Wait(x, sc)
  ELSE LET id == x.buf[sc + 4]
       IN IF id = Pack THEN AtPack(x, sc)
          ELSE IF id \in {System, Map} THEN AtHeader(x, sc)
          ELSE IF id \in 189 .. 239 THEN AtPes(x, sc)
          ELSE GoOn(x, sc + 4)

Scan(s) ==
  IF s.status # "Scan" THEN s
  ELSE IF FindSc(s.demux.buf, s.pos) = {} THEN Wait(s.demux, KeepTail(Len(s.demux.buf)))
  ELSE AtCode(s.demux, Smallest(FindSc(s.demux.buf, s.pos)))

(* next(): every round of the loop gets further, so there are no more than *)
(* bytes.                                                                  *)
Rounds(x) ==
  LET round[k \in 0 .. Len(x.buf) + 1] == IF k = 0 THEN GoOn(x, 0) ELSE Scan(round[k - 1])
  IN round
Trimmed(x)  == [x EXCEPT !.buf = SubSeq(@, x.cursor + 1, Len(@)), !.cursor = 0]
NextCall(x) == Rounds(Trimmed(x))[Len(Trimmed(x).buf) + 1]

-----------------------------------------------------------------------------
(* A sender, and a receiver that appends what arrives and takes frames.    *)

PsIdle ==
  /\ stream = << >>
  /\ wire = << >>
  /\ join = 0
  /\ got = 0
  /\ demux = EmptyDemux
  /\ out = << >>
  /\ said = "None"

(* A stream of one codec is muxed, and the receiver joins.                 *)
Send ==
  /\ stream = << >>
  /\ \E codec \in Codecs, n \in 1 .. MaxUnits :
       \E ds \in [1 .. n -> Units[codec]] :
         /\ stream' = [k \in 1 .. n |-> [codec |-> codec, data |-> ds[k], pts |-> k - 2]]
         /\ \A k \in 1 .. n : Muxable(stream'[k])
         /\ wire' = Flatten([k \in 1 .. n |-> MuxFrame(stream'[k])])
  /\ \E j \in Joins : j < Len(wire') /\ join' = j /\ got' = j
  /\ UNCHANGED << demux, out, said >>

(* append() of the bytes that arrive next; refused when the buffer would   *)
(* grow too large.  The receiver has taken what there was before.          *)
Arrive ==
  /\ said \in {"None", "Again"}
  /\ \E k \in Pieces :
       /\ got + k <= Len(wire)
       /\ Len(demux.buf) + k <= MaxBuffered
       /\ demux' = [demux EXCEPT !.buf = @ \o SubSeq(wire, got + 1, got + k)]
       /\ got' = got + k
  /\ said' = "Appended"
  /\ UNCHANGED << stream, wire, join, out >>

Take ==
  /\ said \in {"Appended", "Ok"}
  /\ LET a == NextCall(demux) IN
       /\ demux' = a.demux
       /\ said' = a.status
       /\ out' = out \o a.frames
  /\ UNCHANGED << stream, wire, join, got >>

(* flush() at the end of the stream, and once more.                        *)
Flush ==
  /\ said \in {"Again", "Flushed"}
  /\ got = Len(wire)
  /\ out' = IF HasUnit(demux) THEN Append(out, FrameOf(demux)) ELSE out
  /\ said' = IF HasUnit(demux) THEN "Flushed" ELSE "Eof"
  /\ demux' = [demux EXCEPT !.au = << >>, !.open = FALSE]
  /\ UNCHANGED << stream, wire, join, got >>

PsNext == Send \/ Arrive \/ Take \/ Flush

PsSpec == PsIdle /\ [][PsNext]_psVars

-----------------------------------------------------------------------------
(* Properties.                                                             *)

Starts(k)   == Len(Flatten([i \in 1 .. k - 1 |-> MuxFrame(stream[i])]))
(* Where the first packet of a unit begins and ends on the wire.           *)
FirstPes(k) ==
  Starts(k) + 14 + (IF IsKeyframe(stream[k].codec, stream[k].data) THEN 35 ELSE 0)
FirstEnd(k) ==
  FirstPes(k) + 14
    + (IF Len(stream[k].data) > PesChunk THEN PesChunk ELSE Len(stream[k].data))

Seen == {k \in 1 .. Len(stream) : FirstPes(k) >= join /\ FirstEnd(k) <= got}
(* A stream map went by before unit k was handed out.                      *)
Labelled(k) ==
  \E i \in 1 .. k : /\ IsKeyframe(stream[i].codec, stream[i].data)
                    /\ Starts(i) + 29 >= join

(* What came out is what went in, unit by unit: whatever the pieces and    *)
(* wherever the receiver joined, it gets every unit that begins after that *)
(* point, whole, in order and with its time stamp, the last one a unit     *)
(* late ("emits AU N when AU N+1 begins (one-AU delay, PTS-correct), or on *)
(* flush()", ps.hpp), and with its codec once a stream map went by.        *)
FramesAreThoseMuxed ==
  /\ said \in {"Again", "Eof", "Flushed"} =>
       Len(out) = Cardinality(Seen) - (IF said = "Again" /\ Seen # {} THEN 1 ELSE 0)
  /\ said # "Format"
  /\ out # << >> =>
       \A k \in 1 .. Len(out) :
         LET u == Smallest(Seen) + k - 1 IN
           /\ out[k].data = stream[u].data
           /\ out[k].pts = Wrapped(stream[u].pts)
           /\ Labelled(u) => /\ out[k].codec = stream[u].codec
                             /\ out[k].key = IsKeyframe(stream[u].codec, stream[u].data)
=============================================================================
