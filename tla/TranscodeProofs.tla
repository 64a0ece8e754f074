--------------------------- MODULE TranscodeProofs ---------------------------
(***************************************************************************)
(* A transcode carries a stream: the pictures leave the session in order,  *)
(* none lost or doubled on the way through MPP's queues, the edge and      *)
(* either encoder.  Proved for every length of the stream, every number of *)
(* buffers, slots and pictures kept back, and every device failure.        *)
(***************************************************************************)
EXTENDS Transcode, SequenceTheorems, TLAPS

-----------------------------------------------------------------------------
(* The invariant.                                                          *)

Cuts == Statuses \ {"Ok", "Eof"}

FrameType  == [pic : Nat, buf : Buffers \cup {"none"}, eos : BOOLEAN, info : BOOLEAN]
ItemType   == [pic : Nat, buf : Buffers \cup {"none"}]
EdgeType   == [buf : Seq(ItemType), end : BOOLEAN, status : Cuts \cup {"Eof"}]
JobType    == [pic : Nat, left : Nat \ {0}, eos : BOOLEAN]
PacketType == [last : BOOLEAN, eos : BOOLEAN]

DecTypes ==
  /\ decAt \in {"closed", "pop", "put", "full", "drain", "flush", "done",
                "refused", "gone"}
  /\ fed \in Nat /\ fed <= MaxPackets
  /\ ready \in BOOLEAN
  /\ hand \in FrameType
  /\ devIn \in Seq(Nat)
  /\ kept \in Seq(FrameType)
  /\ devOut \in Seq(FrameType)
  /\ geometry \in {"unknown", "announced", "agreed"}

EncTypes ==
  /\ encoder \in {"mpp", "svt"}
  /\ encAt \in {"closed", "pop", "code", "eos", "done", "refused", "gone"}
  /\ jobs \in Seq(JobType)
  /\ outBuf \in Nat
  /\ packets \in Seq(PacketType)
  /\ svtAt \in {"closed", "pop", "drain", "flush", "done", "gone"}
  /\ svtReady \in BOOLEAN /\ eosSent \in BOOLEAN
  /\ inside \in Seq(Nat)
  /\ coded \in Seq(Nat)

EndTypes ==
  /\ edge \in EdgeType
  /\ delivered \in Seq(Nat)
  /\ outcome \in Statuses \cup {"None"}
  /\ closing \in BOOLEAN

(* Which threads are there, and what has been said of the end.             *)
Control ==
  /\ outcome # "None" <=> \/ EncoderAt \in {"done", "refused", "gone"}
                          \/ decAt \in {"refused", "gone"}
  /\ decAt = "closed" => EncoderAt = "closed"
  /\ hand # Dec!NoFrame => decAt \in {"full", "drain", "flush", "gone"}

(* The pictures the encoder has taken from the edge, and the pictures the  *)
(* decoder has put on it.                                                  *)
Taken ==
  IF encoder = "mpp"
  THEN Len(delivered) + (IF encAt = "code" THEN 1 ELSE 0)
  ELSE Len(delivered) + Len(coded) + Len(inside) - (IF eosSent THEN 1 ELSE 0)
Sent == Taken + Len(edge.buf)

InOrder == \A k \in 1 .. Len(delivered) : delivered[k] = k

(* What is on the edge follows what was taken; a clean end follows all.    *)
Follows(q) ==
  /\ \A k \in 1 .. Len(q.buf) : q.buf[k].pic = Taken + k
  /\ Taken + Len(q.buf) <= MaxPackets
  /\ q.end /\ q.status = "Eof" => Taken + Len(q.buf) = MaxPackets

(* The one picture inside the MPP encoder is the next to be delivered: its *)
(* packets are still to be made or the last one is among those ready.      *)
MppOrder ==
  outcome = "None" /\ encoder = "mpp" =>
    /\ encAt \in {"closed", "pop"} => jobs = << >> /\ packets = << >>
    /\ encAt = "code" =>
         /\ \A k \in 1 .. Len(packets) : ~packets[k].eos
         /\ \/ /\ Len(jobs) = 1
               /\ jobs[1].pic = Len(delivered) + 1
               /\ jobs[1].left >= 1 /\ ~jobs[1].eos
               /\ \A k \in 1 .. Len(packets) : ~packets[k].last
            \/ /\ jobs = << >> /\ packets # << >>
               /\ outBuf = Len(delivered) + 1
               /\ \A k \in 1 .. Len(packets) : packets[k].last <=> k = Len(packets)
    /\ encAt = "eos" =>
         /\ Len(delivered) = MaxPackets
         /\ \/ jobs = << [pic |-> 0, left |-> 1, eos |-> TRUE] >> /\ packets = << >>
            \/ jobs = << >> /\ packets = << [last |-> TRUE, eos |-> TRUE] >>

(* What is inside SVT follows what was delivered, the end behind it.       *)
SvtOrder ==
  outcome = "None" /\ encoder = "svt" =>
    /\ eosSent <=> svtAt = "flush"
    /\ ~svtReady => inside = << >> /\ coded = << >>
    /\ eosSent => Taken = MaxPackets /\ Len(coded) + Len(inside) > 0
    /\ \A k \in 1 .. Len(coded) :
         coded[k] = IF eosSent /\ k = Len(coded) + Len(inside) THEN 0
                                                  ELSE Len(delivered) + k
    /\ \A k \in 1 .. Len(inside) :
         inside[k] = IF eosSent /\ k = Len(inside) THEN 0
                     ELSE Len(delivered) + Len(coded) + k

(* The pictures among the frames MPP has ready: all but an announcement or *)
(* a last frame that only marks the end.                                   *)
Shown ==
  IF devOut # << >> /\ devOut[Len(devOut)].pic = 0
  THEN Len(devOut) - 1 ELSE Len(devOut)
InHand  == IF hand.pic = 0 THEN 0 ELSE 1
Decoded == Sent + InHand + Shown + Len(kept)
Unput   == IF decAt \in {"put", "full"} THEN 1 ELSE 0

Decoding == decAt \in {"closed", "pop", "put", "full", "drain", "flush"}

(* Each place inside the decoder holds the pictures behind those of the    *)
(* place after it; the end of the stream is the number behind the last.    *)
Places ==
  /\ hand.pic = 0 => hand = Dec!NoFrame
  /\ hand.pic # 0 => hand.pic = Sent + 1
  /\ \A k \in 1 .. Shown : devOut[k].pic = Sent + InHand + k
  /\ \A k \in 1 .. Len(kept) : kept[k].pic = Sent + InHand + Shown + k
  /\ \A k \in 1 .. Len(devIn) : devIn[k] = Decoded + k
  /\ Decoded + Len(devIn) = IF decAt = "flush" /\ devIn # << >>
                            THEN MaxPackets + 1 ELSE fed - Unput
  /\ decAt = "flush" => fed = MaxPackets
  /\ ~ready => fed = 0
  /\ decAt = "closed" => fed = 0

(* The marks on the frames: the end is behind everything else, and the     *)
(* geometry is announced before the first picture.                         *)
Marks ==
  /\ \A k \in 1 .. Len(kept) : ~kept[k].eos /\ ~kept[k].info
  /\ ~hand.info
  /\ hand.eos => decAt = "flush" /\ devIn = << >> /\ kept = << >> /\ devOut = << >>
  /\ \A k \in 1 .. Len(devOut) :
       /\ devOut[k].info => geometry = "announced"
       /\ devOut[k].eos => /\ decAt = "flush" /\ devIn = << >> /\ kept = << >>
                           /\ k = Len(devOut)
       /\ devOut[k].pic = 0 => devOut[k].info \/ devOut[k].eos
  /\ geometry = "unknown" => Decoded = 0
  /\ geometry = "announced" =>
       /\ devOut = << Dec!InfoFrame >> /\ Decoded = 0
       /\ devIn # << >> /\ devIn[1] # Dec!Eos

(* While the reader has not been told the end.  Afterwards nothing leaves. *)
Carrying ==
  /\ DecTypes /\ EncTypes /\ EndTypes
  /\ InOrder /\ Follows(edge)
  /\ MppOrder /\ SvtOrder
  /\ Decoding => Places /\ Marks
  /\ edge.end /\ edge.status = "Eof" => decAt = "done"

TcInv == Control /\ (outcome = "None" => Carrying)

-----------------------------------------------------------------------------
(* The queue, whichever node's actions use it.                             *)

LEMMA OneQueue ==
  /\ \A q, s : /\ Dec!Cancel(q, s) = Cancel(q, s)
               /\ Mpp!Cancel(q, s) = Cancel(q, s)
               /\ Svt!Cancel(q, s) = Cancel(q, s)
  /\ \A q : /\ Dec!Close(q) = Close(q)
            /\ Mpp!Dequeue(q) = Dequeue(q) /\ Svt!Dequeue(q) = Dequeue(q)
            /\ Dec!PushStatus(q) = PushStatus(q)
  /\ \A q, v : Dec!Enqueue(q, v) = Enqueue(q, v)
BY DEF Dec!Cancel, Mpp!Cancel, Svt!Cancel, Cancel, Dec!Benign, Mpp!Benign,
       Svt!Benign, Benign, Dec!End, Mpp!End, Svt!End, End, Dec!Close, Close,
       Mpp!Dequeue, Svt!Dequeue, Dequeue, Dec!PushStatus, PushStatus,
       Dec!Enqueue, Enqueue

LEMMA CutFacts ==
  /\ Cuts = {"Hw", "Format", "Nomem", "Io", "Unsupported", "Invalid", "Canceled"}
  /\ \A s \in Cuts : s \notin Benign /\ s \in Statuses /\ s # "Eof" /\ s # "None" /\ s # "Ok"
  /\ Statuses = Cuts \cup {"Ok", "Eof"} /\ "None" \notin Statuses
BY DEF Cuts, Statuses, Benign

LEMMA CancelFacts ==
  ASSUME NEW q \in EdgeType, NEW s \in Statuses
  PROVE  /\ Cancel(q, s) \in EdgeType /\ Cancel(q, s).buf = q.buf
         /\ s \notin Cuts => Cancel(q, s) = q
         /\ Cancel(q, s).end /\ Cancel(q, s).status = "Eof" =>
               q.end /\ q.status = "Eof"
<1>1. CASE s \in Cuts
  <2>1. Cancel(q, s) = IF q.end THEN q ELSE [q EXCEPT !.end = TRUE, !.status = s]
    BY <1>1, CutFacts DEF Cancel, End
  <2>2. QED
    BY <1>1, <2>1, CutFacts, ZenonT(60) DEF EdgeType
<1>2. CASE s \notin Cuts
  BY <1>2, CutFacts DEF Cancel, Benign
<1>3. QED
  BY <1>1, <1>2

LEMMA CloseFacts ==
  ASSUME NEW q \in EdgeType
  PROVE  Close(q) \in EdgeType /\ Close(q).buf = q.buf
BY DEF Close, End, EdgeType

WithItems(q, b) == [q EXCEPT !.buf = b]

LEMMA OtherItems ==
  ASSUME NEW q \in EdgeType, NEW b \in Seq(ItemType)
  PROVE  /\ WithItems(q, b) \in EdgeType /\ WithItems(q, b).end = q.end
         /\ WithItems(q, b).status = q.status /\ WithItems(q, b).buf = b
BY DEF EdgeType, WithItems

LEMMA EnqueueFacts ==
  ASSUME NEW q \in EdgeType, NEW v \in ItemType
  PROVE  LET r == Enqueue(q, v) IN
         /\ r \in EdgeType /\ r.end = q.end /\ r.status = q.status
         /\ Len(r.buf) = Len(q.buf) + 1
         /\ \A k \in 1 .. Len(q.buf) : r.buf[k] = q.buf[k]
         /\ r.buf[Len(q.buf) + 1] = v
<1>1. q.buf \in Seq(ItemType)
  BY DEF EdgeType
<1>2. Enqueue(q, v) = WithItems(q, Append(q.buf, v))
  BY DEF Enqueue, WithItems
<1>3. /\ Enqueue(q, v) \in EdgeType /\ Enqueue(q, v).end = q.end
      /\ Enqueue(q, v).status = q.status
      /\ Enqueue(q, v).buf = Append(q.buf, v)
  <2> DEFINE b == Append(q.buf, v)
  <2>1. b \in Seq(ItemType) /\ Enqueue(q, v) = WithItems(q, b)
    BY <1>1, <1>2
  <2>2. b = Append(q.buf, v)
    OBVIOUS
  <2> HIDE DEF b
  <2>3. /\ Enqueue(q, v) \in EdgeType /\ Enqueue(q, v).end = q.end
        /\ Enqueue(q, v).status = q.status /\ Enqueue(q, v).buf = b
    BY <2>1, OtherItems
  <2>4. QED
    BY <2>2, <2>3
<1>4. QED
  BY <1>1, <1>3

LEMMA DequeueFacts ==
  ASSUME NEW q \in EdgeType, q.buf # << >>
  PROVE  LET r == Dequeue(q) IN
         /\ r \in EdgeType /\ r.end = q.end /\ r.status = q.status
         /\ Len(r.buf) = Len(q.buf) - 1 /\ Len(q.buf) >= 1
         /\ \A k \in 1 .. Len(r.buf) : r.buf[k] = q.buf[k + 1]
         /\ Head(q.buf) = q.buf[1] /\ q.buf[1] \in ItemType
<1>1. q.buf \in Seq(ItemType)
  BY DEF EdgeType
<1>2. Dequeue(q) = WithItems(q, Tail(q.buf))
  BY DEF Dequeue, WithItems
<1>3. /\ Dequeue(q) \in EdgeType /\ Dequeue(q).end = q.end
      /\ Dequeue(q).status = q.status
      /\ Dequeue(q).buf = Tail(q.buf)
  <2> DEFINE b == Tail(q.buf)
  <2>1. b \in Seq(ItemType) /\ Dequeue(q) = WithItems(q, b)
    BY <1>1, <1>2
  <2>2. b = Tail(q.buf)
    OBVIOUS
  <2> HIDE DEF b
  <2>3. /\ Dequeue(q) \in EdgeType /\ Dequeue(q).end = q.end
        /\ Dequeue(q).status = q.status /\ Dequeue(q).buf = b
    BY <2>1, OtherItems
  <2>4. QED
    BY <2>2, <2>3
<1>4. QED
  BY <1>1, <1>3

-----------------------------------------------------------------------------
(* The decoder.                                                            *)

(* What its steps start from, while its reader has not been told an end.   *)
DecReady ==
  /\ DecTypes /\ edge \in EdgeType /\ Taken \in Nat
  /\ Decoding /\ Places /\ Marks
  /\ Follows(edge)
  /\ ~(edge.end /\ edge.status = "Eof")

(* What they lead to.                                                      *)
DecNext ==
  /\ DecTypes' /\ edge' \in EdgeType
  /\ Follows(edge)'
  /\ Decoding' => Places' /\ Marks'
  /\ edge'.end /\ edge'.status = "Eof" => decAt' = "done"
  /\ decAt' \notin {"closed", "refused", "gone"}

LEMMA DecCounts ==
  ASSUME DecReady
  PROVE  /\ Shown \in Nat /\ Shown <= Len(devOut) /\ InHand \in {0, 1}
         /\ Unput \in {0, 1} /\ Sent \in Nat /\ Decoded \in Nat
         /\ Decoded = Sent + InHand + Shown + Len(kept)
         /\ Len(kept) \in Nat /\ Len(devIn) \in Nat /\ Len(devOut) \in Nat
         /\ Sent <= MaxPackets /\ Sent = Taken + Len(edge.buf)
         /\ MaxPackets \in Nat
         /\ hand = Dec!NoFrame <=> hand.pic = 0
<1>1. /\ Len(kept) \in Nat /\ Len(devIn) \in Nat /\ Len(devOut) \in Nat
      /\ MaxPackets \in Nat
  BY BoundsAssumption DEF DecReady, DecTypes
<1>2. edge.buf \in Seq(ItemType) /\ Len(edge.buf) \in Nat
  BY DEF DecReady, EdgeType
<1>3. Sent \in Nat /\ Sent = Taken + Len(edge.buf) /\ Sent <= MaxPackets
  BY <1>2 DEF DecReady, Sent, Follows
<1>4. Shown \in Nat /\ Shown <= Len(devOut)
  BY <1>1, EmptySeq DEF Shown, DecReady, DecTypes
<1>5. InHand \in {0, 1} /\ Unput \in {0, 1}
  BY DEF InHand, Unput
<1>6. hand = Dec!NoFrame <=> hand.pic = 0
  BY DEF DecReady, Places, Dec!NoFrame, Dec!Picture
<1>7. QED
  BY <1>1, <1>3, <1>4, <1>5, <1>6 DEF Decoded

(* The worker's last step: it ends the edge behind everything on it.       *)
LEMMA DecFinishes ==
  ASSUME NEW q \in EdgeType, NEW s \in Cuts \cup {"Ok"}, Dec!EndsWith(s, q),
         Taken' = Taken, Follows(q), ~(q.end /\ q.status = "Eof"),
         s = "Ok" => Taken + Len(q.buf) = MaxPackets
  PROVE  decAt' = "done" /\ edge' \in EdgeType /\ Follows(edge)'
<1>1. decAt' = "done" /\ edge' = IF s = "Ok" THEN Close(q) ELSE Cancel(q, s)
  BY OneQueue DEF Dec!EndsWith
<1>2. CASE s = "Ok"
  BY <1>1, <1>2, CloseFacts DEF Follows
<1>3. CASE s # "Ok"
  BY <1>1, <1>3, CancelFacts, CutFacts DEF Follows
<1>4. QED
  BY <1>2, <1>3

LEMMA DecFails ==
  ASSUME DecReady, NEW s \in Cuts, Dec!DecEnds(s), Taken' = Taken, DecTypes'
  PROVE  DecNext
<1>1. decAt' = "done" /\ edge' \in EdgeType /\ Follows(edge)'
  BY DecFinishes, CutFacts DEF Dec!DecEnds, DecReady
<1>2. QED
  BY <1>1 DEF DecNext, Decoding

(* Nothing moves between the decoder's places.                             *)
Unmoved ==
  /\ edge' = edge /\ Taken' = Taken
  /\ hand' = hand /\ devOut' = devOut /\ kept' = kept /\ devIn' = devIn

LEMMA UnmovedCounts ==
  ASSUME Unmoved
  PROVE  /\ Sent' = Sent /\ InHand' = InHand /\ Shown' = Shown
         /\ Decoded' = Decoded /\ Follows(edge)' = Follows(edge)
BY DEF Unmoved, Sent, InHand, Shown, Decoded, Follows

LEMMA DecUnmoved ==
  ASSUME DecReady, Unmoved, DecTypes', geometry' = geometry,
         decAt' \in {"pop", "put", "full", "drain"}, decAt # "flush",
         fed' - Unput' = fed - Unput, ready' \/ fed' = 0
  PROVE  DecNext
<1>1. /\ Sent' = Sent /\ InHand' = InHand /\ Shown' = Shown
      /\ Decoded' = Decoded /\ Follows(edge)' = Follows(edge)
  BY UnmovedCounts
<1>2. Decoding' /\ decAt' # "flush" /\ decAt' # "closed"
  BY DEF Decoding
<1>3. Places'
  BY <1>1, <1>2 DEF Places, DecReady, Unmoved
<1>4. Marks'
  BY <1>1, <1>2 DEF Marks, DecReady, Unmoved
<1>5. QED
  BY <1>1, <1>2, <1>3, <1>4 DEF DecNext, DecReady, Unmoved

LEMMA DecTakes ==
  ASSUME DecReady, Dec!DecTake, Taken' = Taken
  PROVE  DecNext
<1>1. /\ decAt = "pop" /\ fed < MaxPackets /\ fed' = fed + 1
      /\ UNCHANGED << hand, devIn, kept, devOut, geometry, content >>
  BY DEF Dec!DecTake, Dec!deviceVars
<1>2. CASE decAt' = "put" /\ ready' = TRUE /\ UNCHANGED << edge, decStatus >>
  <2>1. DecTypes'
    BY <1>1, <1>2, BoundsAssumption DEF DecReady, DecTypes
  <2>2. fed' - Unput' = fed - Unput
    BY <1>1, <1>2 DEF Unput, DecReady, DecTypes
  <2>3. Unmoved
    BY <1>1, <1>2 DEF Unmoved
  <2>4. QED
    BY <1>1, <1>2, <2>1, <2>2, <2>3, DecUnmoved
<1>3. ASSUME NEW s \in Cuts, Dec!DecEnds(s), ready' = ready
      PROVE  DecNext
  <2>1. decAt' = "done"
    BY <1>3 DEF Dec!DecEnds, Dec!EndsWith
  <2>2. DecTypes'
    BY <1>1, <1>3, <2>1, BoundsAssumption DEF DecReady, DecTypes
  <2>3. QED
    BY <1>3, <2>2, DecFails
<1>4. {"Format", "Hw", "Nomem"} \subseteq Cuts
  BY CutFacts
<1>5. \/ decAt' = "put" /\ ready' = TRUE /\ UNCHANGED << edge, decStatus >>
      \/ \E s \in {"Format", "Hw", "Nomem"} : Dec!DecEnds(s) /\ ready' = ready
  BY DEF Dec!DecTake
<1>6. QED
  BY <1>2, <1>3, <1>4, <1>5

LEMMA AppendFacts ==
  ASSUME NEW S, NEW q \in Seq(S), NEW v \in S
  PROVE  /\ Append(q, v) \in Seq(S) /\ Len(Append(q, v)) = Len(q) + 1
         /\ Append(q, v) # << >>
         /\ \A k \in 1 .. Len(q) : Append(q, v)[k] = q[k]
         /\ Append(q, v)[Len(q) + 1] = v
OBVIOUS

LEMMA TailFacts ==
  ASSUME NEW S, NEW q \in Seq(S), q # << >>
  PROVE  /\ Tail(q) \in Seq(S) /\ Len(Tail(q)) = Len(q) - 1 /\ Len(q) >= 1
         /\ Head(q) = q[1] /\ q[1] \in S
         /\ \A k \in 1 .. Len(q) - 1 : Tail(q)[k] = q[k + 1]
OBVIOUS

(* A number goes into MPP's input: the next one, whether an access unit's  *)
(* or the end of the stream.                                               *)
LEMMA DecPuts ==
  ASSUME DecReady, NEW n \in Nat, devIn' = Append(devIn, n),
         n = Decoded + Len(devIn) + 1,
         \/ decAt = "put" /\ decAt' = "drain" /\ n = fed
         \/ decAt = "pop" /\ decAt' = "flush" /\ n = MaxPackets + 1 /\ fed = MaxPackets,
         edge' = edge, Taken' = Taken, ready \/ fed = 0,
         UNCHANGED << fed, ready, hand, kept, devOut, geometry >>
  PROVE  DecNext
<1>1. /\ devIn \in Seq(Nat) /\ devIn' \in Seq(Nat) /\ Len(devIn') = Len(devIn) + 1
      /\ devIn' # << >>
      /\ \A k \in 1 .. Len(devIn) : devIn'[k] = devIn[k]
      /\ devIn'[Len(devIn) + 1] = n
  BY AppendFacts DEF DecReady, DecTypes
<1>2. /\ Sent' = Sent /\ InHand' = InHand /\ Shown' = Shown
      /\ Decoded' = Decoded /\ Follows(edge)' = Follows(edge)
  BY DEF Sent, InHand, Shown, Decoded, Follows
<1>3. DecTypes'
  BY <1>1 DEF DecReady, DecTypes
<1>4. Decoding' /\ decAt' # "closed"
  BY DEF Decoding
<1>5. Decoded \in Nat /\ Len(devIn) \in Nat /\ fed \in Nat /\ MaxPackets \in Nat
  BY DecCounts DEF DecReady, DecTypes
<1>6. Places'
  <2>1. \A k \in 1 .. Len(devIn') : devIn'[k] = Decoded' + k
    <3>1. ASSUME NEW k \in 1 .. Len(devIn') PROVE devIn'[k] = Decoded' + k
      <4>1. k \in 1 .. Len(devIn) \/ k = Len(devIn) + 1
        BY <1>1, <1>5
      <4>2. k \in 1 .. Len(devIn) => devIn[k] = Decoded + k
        BY DEF Places, DecReady
      <4>3. k \in 1 .. Len(devIn) => devIn'[k] = devIn[k]
        BY <1>1
      <4>4. k = Len(devIn) + 1 => devIn'[k] = Decoded + k
        BY <1>1, <1>5
      <4>5. Decoded' = Decoded
        BY <1>2
      <4>6. QED
        BY <4>1, <4>2, <4>3, <4>4, <4>5
    <3>2. QED
      BY <3>1
  <2>2. Unput' = 0
    BY DEF Unput
  <2>3. Decoded' + Len(devIn') = IF decAt' = "flush" /\ devIn' # << >>
                            THEN MaxPackets + 1 ELSE fed' - Unput'
    BY <1>1, <1>2, <1>5, <2>2
  <2>4. QED
    BY <1>2, <2>1, <2>3 DEF Places, DecReady
<1>7. Marks'
  <2>1. geometry = "announced" => devIn'[1] = devIn[1]
    BY <1>1, EmptySeq DEF Marks, DecReady, DecTypes
  <2>2. hand.eos => FALSE
    BY DEF Marks, DecReady
  <2>3. \A k \in 1 .. Len(devOut) : ~devOut[k].eos
    BY DEF Marks, DecReady
  <2>4. QED
    BY <1>1, <1>2, <2>1, <2>2, <2>3 DEF Marks, DecReady
<1>8. QED
  BY <1>2, <1>3, <1>4, <1>6, <1>7 DEF DecNext, DecReady

LEMMA DecPutStep ==
  ASSUME DecReady, Dec!DecPut, Taken' = Taken
  PROVE  DecNext
<1>1. /\ decAt = "put"
      /\ UNCHANGED << fed, ready, naps, hand, kept, devOut, geometry, content >>
  BY DEF Dec!DecPut
<1>2. Unput = 1 /\ Decoded + Len(devIn) = fed - 1 /\ fed \in Nat
  BY <1>1 DEF Unput, DecReady, Places, DecTypes
<1>3. ready \/ fed = 0
  BY DEF DecReady, Places, DecTypes
<1>4. CASE devIn' = Append(devIn, fed) /\ decAt' = "drain" /\ edge' = edge
  <2>1. fed = Decoded + Len(devIn) + 1
    BY <1>2, DecCounts
  <2>2. QED
    BY <1>1, <1>2, <1>3, <1>4, <2>1, DecPuts
<1>5. CASE decAt' = "full" /\ edge' = edge /\ devIn' = devIn
  <2>1. DecTypes'
    BY <1>1, <1>5 DEF DecReady, DecTypes
  <2>2. fed' - Unput' = fed - Unput
    BY <1>1, <1>5 DEF Unput
  <2>3. Unmoved
    BY <1>1, <1>5 DEF Unmoved
  <2>4. QED
    BY <1>1, <1>3, <1>5, <2>1, <2>2, <2>3, DecUnmoved
<1>6. ASSUME NEW s \in {"Hw", "Nomem"}, Dec!DecEnds(s), devIn' = devIn
      PROVE  DecNext
  <2>1. decAt' = "done"
    BY <1>6 DEF Dec!DecEnds, Dec!EndsWith
  <2>2. DecTypes'
    BY <1>1, <1>6, <2>1 DEF DecReady, DecTypes
  <2>3. s \in Cuts
    BY CutFacts
  <2>4. QED
    BY <1>6, <2>2, <2>3, DecFails
<1>7. QED
  BY <1>4, <1>5, <1>6 DEF Dec!DecPut

LEMMA DecFlushes ==
  ASSUME DecReady, Dec!DecFlush, Taken' = Taken
  PROVE  DecNext
<1>1. /\ decAt = "pop" /\ fed = MaxPackets
      /\ UNCHANGED << fed, ready, naps, moved, hand, kept, devOut, geometry, content >>
  BY DEF Dec!DecFlush
<1>2. Unput = 0 /\ Decoded + Len(devIn) = MaxPackets
  BY <1>1, DecCounts DEF Unput, DecReady, Places, DecTypes
<1>3. ASSUME NEW s \in Cuts \cup {"Ok"}, Dec!DecEnds(s), devIn' = devIn,
             s = "Ok" => ~ready
      PROVE  DecNext
  <2>1. s = "Ok" => Taken + Len(edge.buf) = MaxPackets
    <3>1. ~ready => MaxPackets = 0
      BY <1>1 DEF DecReady, Places, DecTypes
    <3>2. QED
      BY <1>3, <3>1, DecCounts
  <2>2. decAt' = "done" /\ edge' \in EdgeType /\ Follows(edge)'
    BY <1>3, <2>1, DecFinishes DEF Dec!DecEnds, DecReady
  <2>3. DecTypes'
    BY <1>1, <1>3, <2>2 DEF DecReady, DecTypes
  <2>4. QED
    BY <2>2, <2>3 DEF DecNext, Decoding
<1>4. CASE devIn' = Append(devIn, Dec!Eos) /\ decAt' = "flush" /\ ready /\ edge' = edge
  <2>1. Dec!Eos = MaxPackets + 1 /\ Dec!Eos \in Nat
    BY BoundsAssumption DEF Dec!Eos
  <2>2. Dec!Eos = Decoded + Len(devIn) + 1
    BY <1>2, <2>1, DecCounts
  <2> QED
    BY <1>1, <1>4, <2>1, <2>2, DecPuts
<1>5. \/ Dec!DecEnds("Ok") /\ ~ready /\ devIn' = devIn
      \/ devIn' = Append(devIn, Dec!Eos) /\ decAt' = "flush" /\ ready /\ edge' = edge
      \/ Dec!DecEnds("Hw") /\ devIn' = devIn
  BY DEF Dec!DecFlush
<1>6. "Hw" \in Cuts /\ "Ok" # "Hw"
  BY CutFacts
<1>7. QED
  BY <1>3, <1>4, <1>5, <1>6

(* drain_decoder() comes back without having moved anything.               *)
LEMMA DecGetNoneStep ==
  ASSUME DecReady, Dec!DecGetNone, Taken' = Taken
  PROVE  DecNext
<1>1. /\ UNCHANGED << fed, ready, hand, devIn, kept, devOut, geometry, content >>
      /\ decAt \in {"full", "drain", "flush"}
  BY DEF Dec!DecGetNone, Dec!deviceVars, Dec!Draining
<1>2. ready \/ fed = 0
  BY DEF DecReady, Places, DecTypes
<1>3. CASE /\ edge' = edge
           /\ \/ decAt = "full" /\ decAt' = "put"
              \/ decAt = "drain" /\ decAt' = "pop"
  <2>1. DecTypes'
    BY <1>1, <1>3 DEF DecReady, DecTypes
  <2>2. fed' - Unput' = fed - Unput
    BY <1>1, <1>3 DEF Unput
  <2>3. Unmoved
    BY <1>1, <1>3 DEF Unmoved
  <2>4. QED
    BY <1>1, <1>2, <1>3, <2>1, <2>2, <2>3, DecUnmoved
<1>4. CASE Dec!DecEnds("Hw")
  <2>1. decAt' = "done"
    BY <1>4 DEF Dec!DecEnds, Dec!EndsWith
  <2>2. DecTypes'
    BY <1>1, <2>1 DEF DecReady, DecTypes
  <2>3. "Hw" \in Cuts
    BY CutFacts
  <2>4. QED
    BY <1>4, <2>2, <2>3, DecFails
<1>5. CASE decAt = "full"
  BY <1>3, <1>4, <1>5 DEF Dec!DecGetNone, Dec!NapOrGiveUp
<1>6. CASE decAt = "drain"
  BY <1>3, <1>6 DEF Dec!DecGetNone
<1>7. CASE decAt = "flush"
  BY <1>4, <1>7 DEF Dec!DecGetNone
<1>8. QED
  BY <1>1, <1>5, <1>6, <1>7

LEMMA NoneLeft ==
  ASSUME NEW S, NEW q \in Seq(S)
  PROVE  Len(q) \in Nat /\ (q = << >> <=> Len(q) = 0)
BY EmptySeq

LEMMA ShownTail ==
  ASSUME devOut \in Seq(FrameType), devOut # << >>, devOut' = Tail(devOut)
  PROVE  /\ devOut' \in Seq(FrameType)
         /\ devOut[1].pic # 0 => Shown >= 1 /\ Shown' = Shown - 1
         /\ Len(devOut) = 1 => devOut' = << >> /\ Shown' = 0
<1>1. /\ devOut' \in Seq(FrameType) /\ Len(devOut') = Len(devOut) - 1
      /\ Len(devOut) \in Nat /\ Len(devOut) >= 1
      /\ \A k \in 1 .. Len(devOut) - 1 : devOut'[k] = devOut[k + 1]
  BY TailFacts
<1>2. CASE Len(devOut) = 1
  <2>1. devOut' = << >>
    BY <1>1, <1>2, EmptySeq
  <2>2. Shown' = 0
    BY <1>1, <1>2, <2>1 DEF Shown
  <2>3. devOut[1].pic # 0 => Shown = 1
    BY <1>2 DEF Shown
  <2>4. QED
    BY <1>1, <2>1, <2>2, <2>3
<1>3. CASE Len(devOut) # 1
  <2>1. Len(devOut) - 1 \in 1 .. Len(devOut) - 1 /\ Len(devOut') >= 1
    BY <1>1, <1>3
  <2>2. devOut' # << >>
    <3>1. devOut' = << >> => Len(devOut') = 0
      BY <1>1, NoneLeft
    <3>2. QED
      BY <2>1, <3>1
  <2>3. devOut'[Len(devOut')] = devOut[Len(devOut)]
    BY <1>1, <2>1
  <2>4. Shown' = Shown - 1
    BY <1>1, <2>2, <2>3 DEF Shown
  <2>5. Shown >= 1
    BY <1>1, <2>1 DEF Shown
  <2>6. QED
    BY <1>1, <1>3, <2>4, <2>5
<1>4. QED
  BY <1>2, <1>3

(* Every frame MPP has ready is an announcement, a picture or the end.     *)
LEMMA FirstFrame ==
  ASSUME DecReady, devOut # << >>
  PROVE  /\ devOut[1] \in FrameType /\ Head(devOut) = devOut[1]
         /\ devOut[1].info => devOut = << Dec!InfoFrame >>
         /\ devOut[1].pic = 0 => Len(devOut) = 1 /\ (devOut[1].info \/ devOut[1].eos)
         /\ devOut[1].eos => Len(devOut) = 1
<1>1. /\ devOut \in Seq(FrameType) /\ Len(devOut) \in Nat /\ Len(devOut) >= 1
      /\ Head(devOut) = devOut[1] /\ devOut[1] \in FrameType
  BY TailFacts DEF DecReady, DecTypes
<1>2. devOut[1].info => devOut = << Dec!InfoFrame >>
  BY <1>1 DEF DecReady, Marks
<1>3. devOut[1].pic = 0 => Len(devOut) = 1
  <2>1. SUFFICES ASSUME devOut[1].pic = 0, Len(devOut) # 1 PROVE FALSE
    OBVIOUS
  <2>2. Shown >= 1 /\ Shown \in Nat /\ Sent \in Nat /\ InHand \in Nat
    <3>1. Sent \in Nat /\ InHand \in Nat
      BY DecCounts
    <3>2. Shown = Len(devOut) \/ Shown = Len(devOut) - 1
      BY DEF Shown
    <3>3. \A a \in Nat : a >= 1 /\ a # 1 => a >= 1 /\ a - 1 >= 1 /\ a - 1 \in Nat
      OBVIOUS
    <3>4. Len(devOut) - 1 >= 1 /\ Len(devOut) - 1 \in Nat
      BY <1>1, <2>1, <3>3
    <3>5. QED
      BY <1>1, <3>1, <3>2, <3>4
  <2>3. devOut[1].pic = Sent + InHand + 1
    <3>1. \A k \in 1 .. Shown : devOut[k].pic = Sent + InHand + k
      BY DEF DecReady, Places
    <3>2. QED
      BY <2>2, <3>1
  <2>4. devOut[1].pic # 0
    BY <2>2, <2>3
  <2>5. QED
    BY <2>1, <2>4
<1>4. devOut[1].eos => Len(devOut) = 1
  <2>1. \A k \in 1 .. Len(devOut) : devOut[k].eos => k = Len(devOut)
    BY DEF DecReady, Marks
  <2>2. 1 \in 1 .. Len(devOut)
    BY <1>1
  <2>3. QED
    BY <2>1, <2>2
<1>5. QED
  BY <1>1, <1>2, <1>3, <1>4 DEF DecReady, Marks

(* The announcement is acknowledged.                                       *)
LEMMA DecAgrees ==
  ASSUME DecReady, decAt # "closed", devOut # << >>, devOut[1].info,
         devOut' = Tail(devOut),
         geometry' = "agreed", Taken' = Taken,
         UNCHANGED << edge, decAt, hand, fed, ready, devIn, kept >>
  PROVE  DecNext
<1>1. /\ devOut = << Dec!InfoFrame >> /\ Len(devOut) = 1 /\ Dec!InfoFrame.pic = 0
      /\ ~Dec!InfoFrame.eos /\ geometry = "announced"
  BY FirstFrame DEF Dec!InfoFrame, Dec!NoFrame, Dec!Picture, DecReady, Marks
<1>2. devOut' = << >> /\ Shown' = 0 /\ Shown = 0
  BY <1>1, ShownTail DEF DecReady, DecTypes, Shown
<1>3. /\ Sent' = Sent /\ InHand' = InHand /\ Decoded' = Decoded
      /\ Follows(edge)' = Follows(edge) /\ Unput' = Unput
  BY <1>2 DEF Sent, InHand, Decoded, Follows, Unput
<1>4. DecTypes'
  BY <1>2, EmptySeq DEF DecReady, DecTypes
<1>5. Places'
  <2>1. \A k \in 1 .. Shown' : FALSE
    BY <1>2
  <2>2. Sent' + InHand' + Shown' = Sent + InHand + Shown
    BY <1>2, <1>3
  <2>3. \A k \in 1 .. Len(kept) : kept[k].pic = Sent' + InHand' + Shown' + k
    BY <2>2 DEF DecReady, Places
  <2>4. QED
    BY <1>3, <2>1, <2>3 DEF DecReady, Places
<1>6. Len(devOut') = 0
  BY <1>2, EmptySeq
<1>7. Marks'
  <2>1. 1 .. Len(devOut') = {}
    <3>1. 1 .. 0 = {}
      OBVIOUS
    <3>2. QED
      BY ONLY <1>6, <3>1
  <2>2. hand.eos => FALSE
    BY DEF DecReady, Marks
  <2>3. QED
    BY <1>3, <2>1, <2>2 DEF DecReady, Marks
<1>8. QED
  BY <1>3, <1>4, <1>5, <1>7 DEF DecNext, DecReady, Decoding

(* A picture is taken in hand.                                             *)
LEMMA DecPicksUp ==
  ASSUME DecReady, decAt # "closed", devOut # << >>, devOut[1].pic # 0,
         devOut' = Tail(devOut),
         hand = Dec!NoFrame, hand' = devOut[1], Taken' = Taken,
         UNCHANGED << edge, decAt, geometry, fed, ready, devIn, kept >>
  PROVE  DecNext
<1>1. /\ devOut \in Seq(FrameType) /\ Len(devOut') = Len(devOut) - 1
      /\ Len(devOut) \in Nat /\ Len(devOut) >= 1
      /\ \A k \in 1 .. Len(devOut) - 1 : devOut'[k] = devOut[k + 1]
      /\ devOut[1] \in FrameType
  BY TailFacts DEF DecReady, DecTypes
<1>2. /\ devOut' \in Seq(FrameType) /\ Shown >= 1 /\ Shown' = Shown - 1
      /\ Len(devOut) = 1 => devOut' = << >>
  BY <1>1, ShownTail
<1>3. Shown \in Nat /\ Sent \in Nat /\ InHand = 0 /\ Shown <= Len(devOut)
  BY DecCounts DEF InHand, Dec!NoFrame, Dec!Picture
<1>4. Sent' = Sent /\ InHand' = 1 /\ Follows(edge)' = Follows(edge) /\ Unput' = Unput
  BY DEF Sent, InHand, Follows, Unput
<1>5. Decoded' = Decoded /\ Sent' + InHand' + Shown' = Sent + InHand + Shown
  BY <1>2, <1>3, <1>4, DecCounts DEF Decoded
<1>6. DecTypes'
  BY <1>1, <1>2 DEF DecReady, DecTypes
<1>7. Places'
  <2>1. hand'.pic = Sent' + 1 /\ hand'.pic # 0
    <3>1. \A k \in 1 .. Shown : devOut[k].pic = Sent + InHand + k
      BY DEF DecReady, Places
    <3>2. QED
      BY <1>2, <1>3, <1>4, <3>1
  <2>2. ASSUME NEW k \in 1 .. Shown' PROVE devOut'[k].pic = Sent' + InHand' + k
    <3>1. k + 1 \in 1 .. Shown /\ k \in 1 .. Len(devOut) - 1
      BY <1>2, <1>3
    <3>2. devOut[k + 1].pic = Sent + InHand + (k + 1)
      BY <3>1 DEF DecReady, Places
    <3>3. QED
      BY <1>1, <1>3, <1>4, <3>1, <3>2
  <2>3. \A k \in 1 .. Len(kept) : kept'[k].pic = Sent' + InHand' + Shown' + k
    BY <1>5 DEF DecReady, Places
  <2>4. QED
    BY <1>4, <1>5, <2>1, <2>2, <2>3 DEF DecReady, Places
<1>8. Marks'
  <2>1. ~hand'.info
    <3>1. devOut[1].info => devOut[1].pic = 0
      BY FirstFrame DEF Dec!InfoFrame, Dec!NoFrame, Dec!Picture
    <3>2. QED
      BY <3>1
  <2>2. hand'.eos => decAt = "flush" /\ devIn = << >> /\ kept = << >> /\ devOut' = << >>
    <3>1. 1 \in 1 .. Len(devOut)
      BY <1>1
    <3>2. devOut[1].eos => decAt = "flush" /\ devIn = << >> /\ kept = << >>
      BY <3>1 DEF DecReady, Marks
    <3>3. devOut[1].eos => devOut' = << >>
      BY <1>2, FirstFrame
    <3>4. QED
      BY <3>2, <3>3
  <2>3. ASSUME NEW k \in 1 .. Len(devOut')
        PROVE  /\ devOut'[k].info => geometry = "announced"
               /\ devOut'[k].eos => /\ decAt = "flush" /\ devIn = << >> /\ kept = << >>
                                    /\ k = Len(devOut')
               /\ devOut'[k].pic = 0 => devOut'[k].info \/ devOut'[k].eos
    <3>1. k + 1 \in 1 .. Len(devOut) /\ devOut'[k] = devOut[k + 1]
      BY <1>1
    <3>2. /\ devOut[k + 1].info => geometry = "announced"
          /\ devOut[k + 1].eos => /\ decAt = "flush" /\ devIn = << >> /\ kept = << >>
                                  /\ k + 1 = Len(devOut)
          /\ devOut[k + 1].pic = 0 => devOut[k + 1].info \/ devOut[k + 1].eos
      BY <3>1, SMTT(40) DEF DecReady, Marks
    <3>3. k + 1 = Len(devOut) => k = Len(devOut')
      <4>1. \A a \in Nat : \A b \in 1 .. a - 1 : b + 1 = a => b = a - 1
        OBVIOUS
      <4>2. QED
        BY <1>1, <4>1
    <3>4. QED
      BY <3>1, <3>2, <3>3
  <2>4. geometry # "announced"
    <3>1. SUFFICES ASSUME geometry = "announced" PROVE FALSE
      OBVIOUS
    <3>2. devOut = << Dec!InfoFrame >>
      BY <3>1 DEF DecReady, Marks
    <3>3. devOut[1].pic = 0
      BY <3>2 DEF Dec!InfoFrame, Dec!NoFrame, Dec!Picture
    <3>4. QED
      BY <3>3
  <2>5. QED
    BY <1>5, <2>1, <2>2, <2>3, <2>4 DEF DecReady, Marks
<1>9. QED
  BY <1>4, <1>6, <1>7, <1>8 DEF DecNext, DecReady, Decoding

(* The end comes behind the last picture.                                  *)
LEMMA EndIsLast ==
  ASSUME DecReady, decAt = "flush", devIn = << >>, kept = << >>, Shown = 0
  PROVE  Sent + InHand = MaxPackets
<1>1. Decoded = fed - Unput /\ fed = MaxPackets
  <2>1. Len(devIn) = 0 /\ Decoded \in Nat
    BY DecCounts, EmptySeq
  <2>2. Decoded + Len(devIn) = fed - Unput /\ fed = MaxPackets
    BY DEF DecReady, Places
  <2>3. QED
    BY <2>1, <2>2
<1>2. Unput = 0 /\ Len(kept) = 0
  BY EmptySeq DEF Unput
<1>3. QED
  BY <1>1, <1>2, DecCounts

LEMMA DecGetStep ==
  ASSUME DecReady, Dec!DecGet, Taken' = Taken
  PROVE  DecNext
<1>1. /\ devOut # << >> /\ devOut' = Tail(devOut) /\ hand = Dec!NoFrame
      /\ decAt # "closed" /\ decAt \in {"full", "drain", "flush"}
      /\ UNCHANGED << fed, ready, naps, moved, devIn, kept, content >>
  BY DEF Dec!DecGet, Dec!Draining
<1>2. Head(devOut) = devOut[1] /\ devOut' \in Seq(FrameType)
  BY <1>1, FirstFrame, TailFacts DEF DecReady, DecTypes
<1> DEFINE f == devOut[1]
<1>3. CASE f.info /\ geometry' = "agreed" /\ UNCHANGED << edge, decAt, decStatus, hand >>
  BY <1>1, <1>3, DecAgrees
<1>4. CASE f.info /\ Dec!DecEnds("Hw") /\ UNCHANGED << geometry, hand >>
  <2>1. decAt' = "done"
    BY <1>4 DEF Dec!DecEnds, Dec!EndsWith
  <2>2. DecTypes'
    BY <1>1, <1>2, <1>4, <2>1 DEF DecReady, DecTypes
  <2>3. "Hw" \in Cuts
    BY CutFacts
  <2>4. QED
    BY <1>4, <2>2, <2>3, DecFails
<1>5. CASE f.pic # 0 /\ hand' = f /\ UNCHANGED << edge, decAt, decStatus, geometry >>
  BY <1>1, <1>5, DecPicksUp
<1>6. CASE /\ f.pic = 0 /\ ~f.info /\ UNCHANGED << geometry, hand >>
           /\ IF f.eos THEN Dec!DrainOk(edge) ELSE UNCHANGED << edge, decAt, decStatus >>
  <2>1. f.eos /\ Len(devOut) = 1
    BY <1>1, <1>6, FirstFrame
  <2>2. decAt = "flush" /\ devIn = << >> /\ kept = << >>
    <3>1. \A k \in 1 .. Len(devOut) : devOut[k].eos =>
            decAt = "flush" /\ devIn = << >> /\ kept = << >>
      BY DEF DecReady, Marks
    <3>2. 1 \in 1 .. Len(devOut)
      BY <2>1
    <3>3. QED
      BY <2>1, <3>1, <3>2
  <2>3. Shown = 0 /\ InHand = 0
    BY <1>1, <1>6, <2>1 DEF Shown, InHand, Dec!NoFrame, Dec!Picture
  <2>4. Taken + Len(edge.buf) = MaxPackets
    BY <2>2, <2>3, EndIsLast, DecCounts
  <2>5. Dec!EndsWith("Ok", edge)
    BY <1>6, <2>1, <2>2 DEF Dec!DrainOk
  <2>6. decAt' = "done" /\ edge' \in EdgeType /\ Follows(edge)'
    BY <2>4, <2>5, DecFinishes DEF DecReady
  <2>7. DecTypes'
    BY <1>1, <1>2, <1>6, <2>6 DEF DecReady, DecTypes
  <2>8. QED
    BY <2>6, <2>7 DEF DecNext, Decoding
<1>7. QED
  BY <1>1, <1>2, <1>3, <1>4, <1>5, <1>6 DEF Dec!DecGet

(* A picture in hand goes on the edge.                                     *)
LEMMA DecEmitStep ==
  ASSUME DecReady, Dec!DecEmit, Taken' = Taken
  PROVE  DecNext
<1> DEFINE v   == [pic |-> hand.pic, buf |-> hand.buf]
           out == Enqueue(edge, v)
<1>1. /\ hand # Dec!NoFrame /\ PushStatus(edge) = "Ok" /\ hand' = Dec!NoFrame
      /\ UNCHANGED << fed, ready, naps, devIn, kept, devOut, geometry, content >>
      /\ IF hand.eos THEN Dec!DrainOk(out)
                     ELSE edge' = out /\ UNCHANGED << decAt, decStatus >>
  BY OneQueue DEF Dec!DecEmit, Dec!deviceVars
<1>2. /\ hand.pic # 0 /\ InHand = 1 /\ hand.pic = Sent + 1 /\ hand \in FrameType
      /\ Sent = Taken + Len(edge.buf)
  BY <1>1, DecCounts DEF InHand, DecReady, Places, DecTypes
<1>3. v \in ItemType /\ v.pic = Sent + 1
  BY <1>2 DEF FrameType, ItemType
<1>4. ~edge.end /\ edge \in EdgeType /\ Len(edge.buf) \in Nat
  BY <1>1, CutFacts DEF PushStatus, DecReady, EdgeType
<1> HIDE DEF v
<1>5. /\ out \in EdgeType /\ ~out.end
      /\ Len(out.buf) = Len(edge.buf) + 1
      /\ \A k \in 1 .. Len(edge.buf) : out.buf[k] = edge.buf[k]
      /\ out.buf[Len(edge.buf) + 1] = v
  BY <1>3, <1>4, EnqueueFacts
<1> HIDE DEF out
<1>6. /\ Dec!NoFrame \in FrameType /\ Dec!NoFrame.pic = 0
      /\ ~Dec!NoFrame.eos /\ ~Dec!NoFrame.info
  BY DEF Dec!NoFrame, Dec!Picture, FrameType
<1>7. /\ Taken \in Nat /\ MaxPackets \in Nat /\ Shown \in Nat /\ Len(kept) \in Nat
      /\ Decoded = Sent + 1 + Shown + Len(kept) /\ Sent \in Nat /\ fed \in Nat
      /\ Len(devIn) \in Nat /\ Unput \in {0, 1} /\ Unput = (IF decAt \in {"put", "full"} THEN 1 ELSE 0)
  BY <1>2, DecCounts DEF DecReady, DecTypes, Unput
<1>8. Sent + 1 <= MaxPackets
  <2>1. \/ Decoded + Len(devIn) = MaxPackets + 1 /\ Len(devIn) >= 1
        \/ Decoded + Len(devIn) = fed - Unput
    <3>1. devIn # << >> => Len(devIn) >= 1
      BY <1>7, NoneLeft DEF DecReady, DecTypes
    <3>2. QED
      BY <3>1 DEF DecReady, Places
  <2>2. fed <= MaxPackets
    BY DEF DecReady, DecTypes
  <2>3. QED
    BY <1>7, <2>1, <2>2
<1>9. Follows(out)
  <2>1. ASSUME NEW k \in 1 .. Len(out.buf) PROVE out.buf[k].pic = Taken + k
    <3>1. k \in 1 .. Len(edge.buf) \/ k = Len(edge.buf) + 1
      BY <1>4, <1>5
    <3>2. k \in 1 .. Len(edge.buf) => edge.buf[k].pic = Taken + k
      BY DEF DecReady, Follows
    <3>3. k = Len(edge.buf) + 1 => out.buf[k].pic = Taken + k
      <4>1. k = Len(edge.buf) + 1 => out.buf[k].pic = Sent + 1
        BY <1>3, <1>5
      <4>2. k = Len(edge.buf) + 1 => Taken + k = Sent + 1
        BY <1>2, <1>4, <1>7
      <4>3. QED
        BY <4>1, <4>2
    <3>4. QED
      BY <1>5, <3>1, <3>2, <3>3
  <2>2. Taken + Len(out.buf) <= MaxPackets
    BY <1>2, <1>4, <1>5, <1>7, <1>8
  <2>3. QED
    BY <1>5, <2>1, <2>2 DEF Follows
<1>10. CASE hand.eos
  <2>1. decAt = "flush" /\ devIn = << >> /\ kept = << >> /\ devOut = << >>
    BY <1>10 DEF DecReady, Marks
  <2>2. Shown = 0
    BY <2>1, EmptySeq DEF Shown
  <2>3. Taken + Len(out.buf) = MaxPackets
    BY <1>2, <1>4, <1>5, <1>7, <2>1, <2>2, EndIsLast
  <2>4. Dec!EndsWith("Ok", out)
    BY <1>1, <1>10, <2>1 DEF Dec!DrainOk, out
  <2>5. decAt' = "done" /\ edge' \in EdgeType /\ Follows(edge)'
    BY <1>5, <1>9, <2>3, <2>4, DecFinishes
  <2>6. DecTypes'
    <3>1. DecTypes
      BY DEF DecReady
    <3>2. /\ UNCHANGED << fed, ready, devIn, kept, devOut, geometry >>
          /\ hand' = Dec!NoFrame
      BY <1>1
    <3>3. QED
      BY <1>6, <2>5, <3>1, <3>2 DEF DecTypes
  <2>7. QED
    BY <2>5, <2>6 DEF DecNext, Decoding
<1>11. CASE ~hand.eos
  <2>1. edge' = out /\ decAt' = decAt
    BY <1>1, <1>11 DEF out
  <2>2. /\ Sent' = Sent + 1 /\ InHand' = 0 /\ Shown' = Shown /\ Decoded' = Decoded
        /\ Follows(edge)' /\ Unput' = Unput
    <3>1. Sent' = Sent + 1
      <4>1. Sent' = Taken + Len(out.buf)
        BY <2>1 DEF Sent
      <4>2. QED
        BY <1>2, <1>4, <1>5, <1>7, <4>1
    <3>2. InHand' = 0
      BY <1>1, <1>6 DEF InHand
    <3>3. Shown' = Shown
      BY <1>1 DEF Shown
    <3>4. Decoded' = Decoded
      BY <1>1, <1>7, <3>1, <3>2, <3>3 DEF Decoded
    <3>5. Follows(edge)' /\ Unput' = Unput
      BY <1>9, <2>1 DEF Follows, Unput
    <3>6. QED
      BY <3>1, <3>2, <3>3, <3>4, <3>5
  <2>3. DecTypes'
    BY <1>1, <1>6, <2>1 DEF DecReady, DecTypes
  <2>4. decAt # "closed"
    <3>1. decAt = "closed" => Decoded + Len(devIn) = 0
      BY <1>7 DEF DecReady, Places, Unput
    <3>2. QED
      BY <1>7, <3>1
  <2>5. Places'
    <3>1. Sent' + InHand' = Sent + InHand
      BY <1>2, <1>7, <2>2
    <3>2. /\ \A k \in 1 .. Shown : devOut[k].pic = Sent' + InHand' + k
          /\ \A k \in 1 .. Len(kept) : kept[k].pic = Sent' + InHand' + Shown + k
      BY <3>1 DEF DecReady, Places
    <3>3. QED
      BY <1>1, <1>6, <2>1, <2>2, <3>2 DEF DecReady, Places
  <2>6. Marks'
    BY <1>1, <1>6, <2>1, <2>2 DEF DecReady, Marks
  <2>7. ~(edge'.end /\ edge'.status = "Eof")
    BY <1>5, <2>1
  <2>8. QED
    BY <1>5, <2>1, <2>2, <2>3, <2>4, <2>5, <2>6, <2>7 DEF DecNext, DecReady, Decoding
<1>12. QED
  BY <1>10, <1>11

LEMMA DecEmitFailsStep ==
  ASSUME DecReady, Dec!DecEmitFails, Taken' = Taken
  PROVE  DecNext
<1>1. /\ hand' = Dec!NoFrame
      /\ UNCHANGED << fed, ready, naps, moved, devIn, kept, devOut, geometry, content >>
      /\ \E s \in Cuts : Dec!DecEnds(s)
  <2>1. PushStatus(edge) # "Ok" => PushStatus(edge) \in Cuts
    BY CutFacts DEF PushStatus, DecReady, EdgeType
  <2>2. {"Unsupported", "Format", "Io", "Nomem"} \subseteq Cuts
    BY CutFacts
  <2>3. QED
    BY <2>1, <2>2, OneQueue DEF Dec!DecEmitFails, Dec!deviceVars
<1>2. PICK s \in Cuts : Dec!DecEnds(s)
  BY <1>1
<1>3. decAt' = "done" /\ Dec!NoFrame \in FrameType
  BY <1>2 DEF Dec!DecEnds, Dec!EndsWith, Dec!NoFrame, Dec!Picture, FrameType
<1>4. DecTypes'
  BY <1>1, <1>3 DEF DecReady, DecTypes
<1>5. QED
  BY <1>2, <1>4, DecFails

LEMMA DecoderStep ==
  ASSUME DecReady, Dec!DecStep, Taken' = Taken
  PROVE  DecNext
BY DecTakes, DecPutStep, DecFlushes, DecGetStep, DecGetNoneStep, DecEmitStep,
   DecEmitFailsStep DEF Dec!DecStep
-----------------------------------------------------------------------------
(* MPP's decoder, which moves at any time.                                 *)

LEMMA FrameFacts ==
  /\ Dec!InfoFrame \in FrameType /\ Dec!InfoFrame.pic = 0
  /\ Dec!InfoFrame.info /\ ~Dec!InfoFrame.eos
  /\ Dec!EosFrame \in FrameType /\ Dec!EosFrame.pic = 0
  /\ ~Dec!EosFrame.info /\ Dec!EosFrame.eos
  /\ \A n \in Nat, b \in Buffers :
       LET f == Dec!Picture(n, b, FALSE) IN
       f \in FrameType /\ f.pic = n /\ ~f.eos /\ ~f.info
  /\ \A f \in FrameType :
       LET g == [f EXCEPT !.eos = TRUE] IN
       g \in FrameType /\ g.pic = f.pic /\ g.eos /\ g.info = f.info
BY DEF Dec!InfoFrame, Dec!EosFrame, Dec!NoFrame, Dec!Picture, FrameType

LEMMA DeviceTypes ==
  ASSUME DecTypes, Dec!MppStep
  PROVE  DecTypes'
<1>1. UNCHANGED << decAt, fed, ready, hand >>
  BY DEF Dec!MppStep, Dec!MppAnnounce, Dec!MppDecode, Dec!MppDeliver, Dec!MppEnd,
         Dec!workerVars
<1>2. devIn \in Seq(Nat) /\ kept \in Seq(FrameType) /\ devOut \in Seq(FrameType)
  BY DEF DecTypes
<1>3. devIn # << >> => Tail(devIn) \in Seq(Nat) /\ Head(devIn) \in Nat
  BY <1>2, TailFacts
<1>4. kept # << >> => Tail(kept) \in Seq(FrameType) /\ Head(kept) \in FrameType
  BY <1>2, TailFacts
<1>5. CASE Dec!MppAnnounce
  <2>1. devOut' \in Seq(FrameType) /\ devIn' = devIn /\ kept' = kept
        /\ geometry' = "announced"
    BY <1>2, <1>5, FrameFacts, AppendFacts DEF Dec!MppAnnounce
  <2>2. QED
    BY <1>1, <2>1 DEF DecTypes
<1>6. CASE Dec!MppDecode
  <2>1. PICK b \in Buffers : kept' = Append(kept, Dec!Picture(Head(devIn), b, FALSE))
    BY <1>6 DEF Dec!MppDecode
  <2>2. devIn' \in Seq(Nat) /\ Head(devIn) \in Nat /\ devOut' = devOut
        /\ geometry' = geometry
    BY <1>3, <1>6 DEF Dec!MppDecode
  <2>3. kept' \in Seq(FrameType)
    <3>1. Dec!Picture(Head(devIn), b, FALSE) \in FrameType
      BY <2>2, FrameFacts
    <3>2. QED
      BY <1>2, <2>1, <3>1, AppendFacts
  <2>4. QED
    BY <1>1, <2>2, <2>3 DEF DecTypes
<1>7. CASE Dec!MppDeliver
  <2>1. kept' \in Seq(FrameType) /\ devOut' \in Seq(FrameType)
    BY <1>2, <1>4, <1>7, AppendFacts DEF Dec!MppDeliver
  <2>2. QED
    BY <1>1, <1>7, <2>1 DEF DecTypes, Dec!MppDeliver
<1>8. CASE Dec!MppEnd
  <2>1. (IF kept = << >> THEN Dec!EosFrame ELSE [Head(kept) EXCEPT !.eos = TRUE])
          \in FrameType
    BY <1>4, FrameFacts
  <2>2. devOut' \in Seq(FrameType) /\ devIn' \in Seq(Nat)
    BY <1>2, <1>3, <1>8, <2>1, AppendFacts DEF Dec!MppEnd
  <2>3. QED
    BY <1>1, <1>8, <2>2, EmptySeq DEF DecTypes, Dec!MppEnd
<1>9. QED
  BY <1>5, <1>6, <1>7, <1>8 DEF Dec!MppStep

(* While there is something to decode or kept back, every frame that is    *)
(* ready is a picture, and the end is still to come.                       *)
LEMMA NotYetEnded ==
  ASSUME DecReady, devIn # << >> \/ kept # << >>, geometry # "announced"
  PROVE  /\ ~hand.eos
         /\ \A k \in 1 .. Len(devOut) :
              ~devOut[k].eos /\ ~devOut[k].info /\ devOut[k].pic # 0
         /\ Shown = Len(devOut)
<1>1. ~hand.eos
  BY DEF DecReady, Marks
<1>2. \A k \in 1 .. Len(devOut) :
        ~devOut[k].eos /\ ~devOut[k].info /\ devOut[k].pic # 0
  BY DEF DecReady, Marks
<1>3. Shown = Len(devOut)
  <2>1. devOut # << >> => Len(devOut) \in 1 .. Len(devOut)
    BY TailFacts, DecCounts DEF DecReady, DecTypes
  <2>2. QED
    BY <1>2, <2>1 DEF Shown
<1>4. QED
  BY <1>1, <1>2, <1>3

LEMMA Announces ==
  ASSUME DecReady, Dec!MppAnnounce, Taken' = Taken
  PROVE  Places' /\ Marks'
<1>1. /\ devIn # << >> /\ Head(devIn) # Dec!Eos /\ geometry = "unknown"
      /\ geometry' = "announced" /\ devOut' = Append(devOut, Dec!InfoFrame)
      /\ UNCHANGED << edge, decAt, fed, ready, hand, devIn, kept >>
  BY DEF Dec!MppAnnounce, Dec!workerVars
<1>2. Shown = Len(devOut) /\ ~hand.eos
  BY <1>1, NotYetEnded
<1>3. Decoded = 0
  BY <1>1 DEF DecReady, Marks
<1>4. Len(devOut) = 0 /\ Len(kept) = 0 /\ Shown = 0
  BY <1>2, <1>3, DecCounts
<1>5. devOut = << >>
  BY <1>4, NoneLeft DEF DecReady, DecTypes
<1>6. devOut' = << Dec!InfoFrame >>
  BY <1>1, <1>5
<1>7. Shown' = 0 /\ Sent' = Sent /\ InHand' = InHand /\ Decoded' = Decoded /\ Unput' = Unput
  BY <1>1, <1>4, <1>6, FrameFacts DEF Shown, Sent, InHand, Decoded, Unput
<1>8. devIn[1] # Dec!Eos
  BY <1>1, TailFacts DEF DecReady, DecTypes
<1>9. Places'
  <2>1. \A k \in 1 .. Shown' : FALSE
    BY <1>7
  <2>2. Shown' = Shown
    BY <1>4, <1>7
  <2>3. QED
    BY <1>1, <1>7, <2>1, <2>2 DEF DecReady, Places
<1>10. Marks'
  <2>1. Len(devOut') = 1 /\ devOut'[1] = Dec!InfoFrame
    BY <1>6
  <2>2. ASSUME NEW k \in 1 .. Len(devOut') PROVE devOut'[k] = Dec!InfoFrame
    BY <2>1
  <2>3. /\ \A k \in 1 .. Len(kept) : ~kept[k].eos /\ ~kept[k].info
        /\ ~hand.info
    BY DEF DecReady, Marks
  <2>4. QED
    BY <1>1, <1>2, <1>3, <1>6, <1>7, <1>8, <2>2, <2>3, FrameFacts DEF Marks
<1>11. QED
  BY <1>9, <1>10
LEMMA Decodes ==
  ASSUME DecReady, Dec!MppDecode, Taken' = Taken
  PROVE  Places' /\ Marks'
<1>1. /\ devIn # << >> /\ Head(devIn) # Dec!Eos /\ geometry = "agreed"
      /\ devIn' = Tail(devIn)
      /\ UNCHANGED << edge, decAt, fed, ready, hand, devOut, geometry >>
      /\ \E b \in Buffers : kept' = Append(kept, Dec!Picture(Head(devIn), b, FALSE))
  BY DEF Dec!MppDecode, Dec!workerVars
<1>2. /\ devIn[1] = Head(devIn) /\ Len(devIn') = Len(devIn) - 1 /\ Len(devIn) >= 1
      /\ devIn[1] \in Nat /\ Len(devIn) \in Nat /\ devIn' \in Seq(Nat)
      /\ \A k \in 1 .. Len(devIn) - 1 : devIn'[k] = devIn[k + 1]
  BY <1>1, TailFacts DEF DecReady, DecTypes
<1>3. \A k \in 1 .. Len(devIn) : devIn[k] = Decoded + k
  BY DEF DecReady, Places
<1>4. /\ Decoded \in Nat /\ Decoded = Sent + InHand + Shown + Len(kept)
      /\ Sent \in Nat /\ InHand \in Nat /\ Shown \in Nat /\ Len(kept) \in Nat
      /\ MaxPackets \in Nat
  BY DecCounts
<1>5. devIn[1] = Decoded + 1
  <2>1. 1 \in 1 .. Len(devIn)
    BY <1>2
  <2>2. QED
    BY <1>3, <2>1
<1>6. PICK f \in FrameType : /\ kept' = Append(kept, f) /\ f.pic = devIn[1]
                             /\ ~f.eos /\ ~f.info
  <2>1. PICK b \in Buffers : kept' = Append(kept, Dec!Picture(Head(devIn), b, FALSE))
    BY <1>1
  <2>2. QED
    BY <1>2, <2>1, FrameFacts
<1>7. /\ Len(kept') = Len(kept) + 1 /\ kept' # << >>
      /\ \A k \in 1 .. Len(kept) : kept'[k] = kept[k]
      /\ kept'[Len(kept) + 1] = f
  <2>1. kept \in Seq(FrameType)
    BY DEF DecReady, DecTypes
  <2>2. QED
    BY <1>6, <2>1, AppendFacts
<1>8. /\ Sent' = Sent /\ InHand' = InHand /\ Shown' = Shown /\ Decoded' = Decoded + 1
      /\ Unput' = Unput
  <2>1. Sent' = Sent /\ InHand' = InHand /\ Shown' = Shown /\ Unput' = Unput
    BY <1>1 DEF Sent, InHand, Shown, Unput
  <2>2. QED
    BY <1>4, <1>7, <2>1 DEF Decoded
<1>9. Places'
  <2>1. ASSUME NEW k \in 1 .. Len(kept')
        PROVE  kept'[k].pic = Sent' + InHand' + Shown' + k
    <3>1. k \in 1 .. Len(kept) \/ k = Len(kept) + 1
      BY <1>4, <1>7
    <3>2. k \in 1 .. Len(kept) => kept[k].pic = Sent + InHand + Shown + k
      BY DEF DecReady, Places
    <3>3. k = Len(kept) + 1 => kept'[k].pic = Sent + InHand + Shown + k
      BY <1>4, <1>5, <1>6, <1>7
    <3>4. QED
      BY <1>7, <1>8, <3>1, <3>2, <3>3
  <2>2. ASSUME NEW k \in 1 .. Len(devIn') PROVE devIn'[k] = Decoded' + k
    <3>1. k \in 1 .. Len(devIn) - 1 /\ k + 1 \in 1 .. Len(devIn)
      BY <1>2
    <3>2. devIn'[k] = Decoded + (k + 1)
      BY <1>2, <1>3, <3>1
    <3>3. QED
      BY <1>4, <1>8, <3>1, <3>2
  <2>3. Decoded' + Len(devIn') = Decoded + Len(devIn)
    BY <1>2, <1>4, <1>8
  <2>4. decAt = "flush" => devIn' # << >>
    <3>1. SUFFICES ASSUME decAt = "flush", devIn' = << >> PROVE FALSE
      OBVIOUS
    <3>2. Len(devIn) = 1
      BY <1>2, <3>1, NoneLeft
    <3>3. Decoded + Len(devIn) = MaxPackets + 1
      BY <1>1, <3>1 DEF DecReady, Places
    <3>4. devIn[1] = Dec!Eos
      BY <1>4, <1>5, <3>2, <3>3 DEF Dec!Eos
    <3>5. QED
      BY <1>1, <1>2, <3>4
  <2>5. /\ hand.pic = 0 => hand = Dec!NoFrame
        /\ hand.pic # 0 => hand.pic = Sent + 1
        /\ \A k \in 1 .. Shown : devOut[k].pic = Sent + InHand + k
        /\ Decoded + Len(devIn) = IF decAt = "flush" THEN MaxPackets + 1 ELSE fed - Unput
        /\ decAt = "flush" => fed = MaxPackets
        /\ ~ready => fed = 0
        /\ decAt = "closed" => fed = 0
    BY <1>1 DEF DecReady, Places
  <2>6. QED
    BY <1>1, <1>8, <2>1, <2>2, <2>3, <2>4, <2>5 DEF Places
<1>10. Marks'
  <2>1. /\ ~hand.eos
        /\ \A k \in 1 .. Len(devOut) :
             ~devOut[k].eos /\ ~devOut[k].info /\ devOut[k].pic # 0
    BY <1>1, NotYetEnded
  <2>2. ~hand.info /\ \A k \in 1 .. Len(kept) : ~kept[k].eos /\ ~kept[k].info
    BY DEF DecReady, Marks
  <2>3. ASSUME NEW k \in 1 .. Len(kept') PROVE ~kept'[k].eos /\ ~kept'[k].info
    <3>1. k \in 1 .. Len(kept) \/ k = Len(kept) + 1
      BY <1>4, <1>7
    <3>2. QED
      BY <1>6, <1>7, <2>2, <3>1
  <2>4. QED
    BY <1>1, <2>1, <2>2, <2>3 DEF Marks
<1>11. QED
  BY <1>9, <1>10

LEMMA Delivers ==
  ASSUME DecReady, Dec!MppDeliver, Taken' = Taken
  PROVE  Places' /\ Marks'
<1>1. /\ kept # << >> /\ kept' = Tail(kept) /\ devOut' = Append(devOut, Head(kept))
      /\ UNCHANGED << edge, decAt, fed, ready, hand, devIn, geometry >>
  BY DEF Dec!MppDeliver, Dec!workerVars
<1>2. /\ kept[1] = Head(kept) /\ Len(kept') = Len(kept) - 1 /\ Len(kept) >= 1
      /\ kept[1] \in FrameType /\ Len(kept) \in Nat /\ kept' \in Seq(FrameType)
      /\ \A k \in 1 .. Len(kept) - 1 : kept'[k] = kept[k + 1]
      /\ 1 \in 1 .. Len(kept)
  BY <1>1, TailFacts DEF DecReady, DecTypes
<1>3. /\ Decoded \in Nat /\ Decoded = Sent + InHand + Shown + Len(kept)
      /\ Sent \in Nat /\ InHand \in Nat /\ Shown \in Nat /\ Len(devOut) \in Nat
  BY DecCounts
<1>4. geometry # "unknown" /\ geometry # "announced"
  <2>1. Decoded # 0
    BY <1>2, <1>3
  <2>2. QED
    BY <2>1 DEF DecReady, Marks
<1>5. /\ ~hand.eos /\ Shown = Len(devOut)
      /\ \A k \in 1 .. Len(devOut) :
           ~devOut[k].eos /\ ~devOut[k].info /\ devOut[k].pic # 0
  BY <1>1, <1>4, NotYetEnded
<1>6. kept[1].pic = Sent + InHand + Shown + 1 /\ ~kept[1].eos /\ ~kept[1].info
  BY <1>2 DEF DecReady, Places, Marks
<1>7. /\ Len(devOut') = Len(devOut) + 1 /\ devOut' # << >>
      /\ \A k \in 1 .. Len(devOut) : devOut'[k] = devOut[k]
      /\ devOut'[Len(devOut) + 1] = kept[1]
  BY <1>1, <1>2, AppendFacts, SMTT(40) DEF DecReady, DecTypes
<1>8. devOut'[Len(devOut')].pic # 0
  BY <1>3, <1>6, <1>7
<1>9. /\ Sent' = Sent /\ InHand' = InHand /\ Shown' = Shown + 1 /\ Decoded' = Decoded
      /\ Unput' = Unput
  <2>1. Sent' = Sent /\ InHand' = InHand /\ Unput' = Unput
    BY <1>1 DEF Sent, InHand, Unput
  <2>2. Shown' = Shown + 1
    BY <1>5, <1>7, <1>8 DEF Shown
  <2>3. QED
    BY <1>2, <1>3, <2>1, <2>2 DEF Decoded
<1>10. ASSUME NEW k \in 1 .. Len(devOut')
       PROVE  /\ devOut'[k].pic = Sent + InHand + k
              /\ ~devOut'[k].eos /\ ~devOut'[k].info /\ devOut'[k].pic # 0
  <2>1. k \in 1 .. Len(devOut) \/ k = Len(devOut) + 1
    BY <1>3, <1>7
  <2>2. k \in 1 .. Len(devOut) => devOut[k].pic = Sent + InHand + k
    BY <1>5 DEF DecReady, Places
  <2>3. k = Len(devOut) + 1 => kept[1].pic = Sent + InHand + k
    <3>1. \A a, b, c, d \in Nat : c = d => a + b + c + 1 = a + b + (d + 1)
      OBVIOUS
    <3>2. Sent + InHand + Shown + 1 = Sent + InHand + (Len(devOut) + 1)
      BY <1>3, <1>5, <3>1
    <3>3. QED
      BY <1>6, <3>2
  <2>4. kept[1].pic # 0
    BY <1>3, <1>6
  <2>5. QED
    BY <1>5, <1>6, <1>7, <2>1, <2>2, <2>3, <2>4
<1>11. Places'
  <2>1. ASSUME NEW k \in 1 .. Len(kept')
        PROVE  kept'[k].pic = Sent' + InHand' + Shown' + k
    <3>1. k \in 1 .. Len(kept) - 1 /\ k + 1 \in 1 .. Len(kept)
      BY <1>2
    <3>2. kept[k + 1].pic = Sent + InHand + Shown + (k + 1)
      BY <3>1 DEF DecReady, Places
    <3>3. \A a, b, c \in Nat, d \in 1 .. Len(kept') :
            a + b + c + (d + 1) = a + b + (c + 1) + d
      BY <1>2
    <3>4. Sent + InHand + Shown + (k + 1) = Sent + InHand + (Shown + 1) + k
      BY <1>3, <3>3
    <3>5. QED
      BY <1>2, <1>9, <3>1, <3>2, <3>4
  <2>2. Shown' = Len(devOut')
    BY <1>5, <1>7, <1>9
  <2>3. \A k \in 1 .. Shown' : devOut'[k].pic = Sent' + InHand' + k
    BY <1>9, <1>10, <2>2
  <2>4. QED
    BY <1>1, <1>9, <2>1, <2>3 DEF DecReady, Places
<1>12. Marks'
  <2>1. ASSUME NEW k \in 1 .. Len(kept') PROVE ~kept'[k].eos /\ ~kept'[k].info
    <3>1. k \in 1 .. Len(kept) - 1 /\ k + 1 \in 1 .. Len(kept)
      BY <1>2
    <3>2. QED
      BY <1>2, <3>1 DEF DecReady, Marks
  <2>2. ~hand.info
    BY DEF DecReady, Marks
  <2>3. QED
    BY <1>1, <1>4, <1>5, <1>10, <2>1, <2>2 DEF Marks
<1>13. QED
  BY <1>11, <1>12
LEMMA Ends ==
  ASSUME DecReady, Dec!MppEnd, Taken' = Taken
  PROVE  Places' /\ Marks'
<1>1. /\ devIn # << >> /\ Head(devIn) = Dec!Eos /\ Len(kept) <= 1
      /\ devOut' = Append(devOut, IF kept = << >> THEN Dec!EosFrame
                                  ELSE [Head(kept) EXCEPT !.eos = TRUE])
      /\ kept' = << >> /\ devIn' = Tail(devIn)
      /\ UNCHANGED << edge, decAt, fed, ready, hand, geometry >>
  BY DEF Dec!MppEnd, Dec!workerVars
<1>2. /\ devIn[1] = MaxPackets + 1 /\ Len(devIn') = Len(devIn) - 1 /\ Len(devIn) >= 1
      /\ Len(devIn) \in Nat /\ devIn' \in Seq(Nat) /\ 1 \in 1 .. Len(devIn)
  BY <1>1, TailFacts DEF DecReady, DecTypes, Dec!Eos
<1>3. /\ Decoded \in Nat /\ Decoded = Sent + InHand + Shown + Len(kept)
      /\ Sent \in Nat /\ InHand \in Nat /\ Shown \in Nat /\ Len(devOut) \in Nat
      /\ Len(kept) \in Nat /\ MaxPackets \in Nat
  BY DecCounts
<1>4. Decoded = MaxPackets
  <2>1. devIn[1] = Decoded + 1
    BY <1>2 DEF DecReady, Places
  <2>2. QED
    BY <1>2, <1>3, <2>1
<1>5. decAt = "flush" /\ devIn' = << >>
  <2>1. /\ Decoded + Len(devIn) = IF decAt = "flush" THEN MaxPackets + 1 ELSE fed - Unput
        /\ fed \in Nat /\ fed <= MaxPackets /\ Unput \in {0, 1}
    BY <1>1, DecCounts DEF DecReady, Places, DecTypes
  <2>2. decAt = "flush"
    BY <1>2, <1>3, <1>4, <2>1
  <2>3. Len(devIn') = 0
    BY <1>2, <1>3, <1>4, <2>1, <2>2
  <2>4. QED
    BY <1>2, <2>2, <2>3, NoneLeft
<1>6. geometry # "announced" /\ (geometry = "unknown" => Decoded = 0)
  BY <1>1, <1>2 DEF DecReady, Marks, Dec!Eos
<1>7. /\ ~hand.eos /\ Shown = Len(devOut)
      /\ \A k \in 1 .. Len(devOut) :
           ~devOut[k].eos /\ ~devOut[k].info /\ devOut[k].pic # 0
  BY <1>1, <1>6, NotYetEnded
<1>8. PICK f \in FrameType :
        /\ devOut' = Append(devOut, f) /\ f.eos /\ ~f.info
        /\ kept = << >> => f.pic = 0
        /\ kept # << >> => f.pic = Sent + InHand + Shown + 1
  <2>1. CASE kept = << >>
    BY <1>1, <2>1, FrameFacts
  <2>2. CASE kept # << >>
    <3>1. Head(kept) = kept[1] /\ kept[1] \in FrameType /\ 1 \in 1 .. Len(kept)
      BY <2>2, TailFacts DEF DecReady, DecTypes
    <3>2. kept[1].pic = Sent + InHand + Shown + 1 /\ ~kept[1].info
      BY <3>1 DEF DecReady, Places, Marks
    <3> DEFINE g == [kept[1] EXCEPT !.eos = TRUE]
    <3>3. g \in FrameType /\ g.pic = kept[1].pic /\ g.eos /\ g.info = kept[1].info
      BY <3>1, FrameFacts
    <3>4. devOut' = Append(devOut, g)
      BY <1>1, <2>2, <3>1
    <3> HIDE DEF g
    <3>5. QED
      BY <2>2, <3>2, <3>3, <3>4
  <2>3. QED
    BY <2>1, <2>2
<1>9. /\ Len(devOut') = Len(devOut) + 1 /\ devOut' # << >>
      /\ \A k \in 1 .. Len(devOut) : devOut'[k] = devOut[k]
      /\ devOut'[Len(devOut) + 1] = f
  <2>1. devOut \in Seq(FrameType)
    BY DEF DecReady, DecTypes
  <2>2. QED
    BY <1>8, <2>1, AppendFacts
<1>10. /\ Shown' = Shown + Len(kept) /\ Len(kept') = 0
       /\ f.pic # 0 => Len(kept) = 1 /\ f.pic = Sent + InHand + Shown + 1
  <2>1. devOut'[Len(devOut')] = f
    BY <1>9
  <2>2. CASE kept = << >>
    <3>1. Len(kept) = 0
      BY <2>2, EmptySeq
    <3>2. Shown' = Len(devOut') - 1
      BY <1>8, <1>9, <2>1, <2>2 DEF Shown
    <3>3. QED
      BY <1>1, <1>3, <1>7, <1>8, <1>9, <2>2, <3>1, <3>2
  <2>3. CASE kept # << >>
    <3>1. Len(kept) = 1
      <4>1. Len(kept) # 0
        BY <2>3, NoneLeft DEF DecReady, DecTypes
      <4>2. \A a \in Nat : a # 0 /\ a <= 1 => a = 1
        OBVIOUS
      <4>3. QED
        BY <1>1, <1>3, <4>1, <4>2
    <3>2. f.pic # 0
      BY <1>3, <1>8, <2>3
    <3>3. Shown' = Len(devOut')
      BY <1>9, <2>1, <3>2 DEF Shown
    <3>4. Len(kept') = 0
      BY <1>1, EmptySeq
    <3>5. QED
      BY <1>3, <1>7, <1>8, <1>9, <2>3, <3>1, <3>3, <3>4
  <2>4. QED
    BY <2>2, <2>3
<1>11. Sent' = Sent /\ InHand' = InHand /\ Decoded' = Decoded /\ Unput' = Unput
  <2>1. Sent' = Sent /\ InHand' = InHand /\ Unput' = Unput
    BY <1>1 DEF Sent, InHand, Unput
  <2>2. QED
    BY <1>3, <1>10, <2>1 DEF Decoded
<1>12. Places'
  <2>1. ASSUME NEW k \in 1 .. Shown' PROVE devOut'[k].pic = Sent + InHand + k
    <3>1. k \in 1 .. Len(devOut) \/ (k = Len(devOut) + 1 /\ Len(kept) = 1)
      <4>1. \A a, b \in Nat : b <= 1 =>
              \A j \in 1 .. (a + b) : j \in 1 .. a \/ (j = a + 1 /\ b = 1)
        OBVIOUS
      <4>2. k \in 1 .. (Len(devOut) + Len(kept))
        BY <1>7, <1>10
      <4>3. QED
        BY <1>1, <1>3, <4>1, <4>2
    <3>2. k \in 1 .. Len(devOut) => devOut[k].pic = Sent + InHand + k
      BY <1>7 DEF DecReady, Places
    <3>3. k = Len(devOut) + 1 /\ Len(kept) = 1 => f.pic = Sent + InHand + k
      <4>1. \A a, b, c, d \in Nat : c = d => a + b + c + 1 = a + b + (d + 1)
        OBVIOUS
      <4>2. Sent + InHand + Shown + 1 = Sent + InHand + (Len(devOut) + 1)
        BY <1>3, <1>7, <4>1
      <4>3. Len(kept) = 1 => kept # << >>
        <5>1. kept = << >> <=> Len(kept) = 0
          BY NoneLeft DEF DecReady, DecTypes
        <5>2. QED
          BY <1>3, <5>1
      <4>4. QED
        BY <1>8, <4>2, <4>3
    <3>4. QED
      BY <1>9, <3>1, <3>2, <3>3
  <2>2. 1 .. Len(kept') = {} /\ 1 .. Len(devIn') = {}
    <3>1. 1 .. 0 = {} /\ Len(devIn') = 0
      BY <1>5, EmptySeq
    <3>2. QED
      BY ONLY <1>10, <3>1
  <2>3. Decoded' + Len(devIn') = fed - Unput
    <3>1. Len(devIn') = 0 /\ Unput = 0 /\ fed = MaxPackets
      BY <1>5, EmptySeq DEF Unput, DecReady, Places
    <3>2. QED
      BY <1>3, <1>4, <1>11, <3>1
  <2>4. QED
    BY <1>1, <1>5, <1>11, <2>1, <2>2, <2>3 DEF DecReady, Places
<1>13. Marks'
  <2>1. 1 .. Len(kept') = {}
    <3>1. 1 .. 0 = {}
      OBVIOUS
    <3>2. QED
      BY ONLY <1>10, <3>1
  <2>2. ASSUME NEW k \in 1 .. Len(devOut')
        PROVE  /\ ~devOut'[k].info
               /\ devOut'[k].eos => k = Len(devOut')
               /\ devOut'[k].pic = 0 => devOut'[k].eos
    <3>1. k \in 1 .. Len(devOut) \/ k = Len(devOut) + 1
      BY <1>3, <1>9
    <3>2. QED
      BY <1>7, <1>8, <1>9, <3>1
  <2>3. ~hand.info
    BY DEF DecReady, Marks
  <2>4. QED
    BY <1>1, <1>5, <1>6, <1>7, <1>11, <2>1, <2>2, <2>3 DEF Marks
<1>14. QED
  BY <1>12, <1>13

LEMMA DeviceStep ==
  ASSUME DecReady, Dec!MppStep, Taken' = Taken
  PROVE  DecTypes' /\ Places' /\ Marks'
BY Announces, Decodes, Delivers, Ends, DeviceTypes DEF Dec!MppStep, DecReady
-----------------------------------------------------------------------------
(* The encoders.                                                           *)

EncTold == EncTypes /\ EndTypes /\ InOrder

(* What their steps start from.                                            *)
EncReady ==
  /\ EncTold /\ outcome = "None"
  /\ MppOrder /\ SvtOrder /\ Follows(edge)

(* What they lead to: a step of the stream, or none.                       *)
StreamStep ==
  \/ Carrier!Deliver
  \/ \E s \in Statuses : Carrier!Conclude(s)
  \/ delivered' = delivered /\ outcome' = outcome

EncNext ==
  /\ EncTypes' /\ InOrder'
  /\ edge' \in EdgeType /\ delivered' \in Seq(Nat) /\ outcome' \in Statuses \cup {"None"}
  /\ edge'.end /\ edge'.status = "Eof" => edge.end /\ edge.status = "Eof"
  /\ MppOrder' /\ SvtOrder'
  /\ outcome' = "None" => Follows(edge)' /\ Sent' = Sent
  /\ outcome' # "None" <=> EncoderAt' \in {"done", "refused", "gone"}
  /\ StreamStep

LEMMA TakenFacts ==
  ASSUME EncReady
  PROVE  /\ Taken \in Nat /\ Len(delivered) \in Nat /\ Len(delivered) <= Taken
         /\ Len(edge.buf) \in Nat /\ edge \in EdgeType /\ Sent = Taken + Len(edge.buf)
         /\ MaxPackets \in Nat /\ Sent \in Nat /\ Sent <= MaxPackets
         /\ edge.end /\ edge.status = "Eof" => Sent = MaxPackets
<1>1. /\ Len(delivered) \in Nat /\ Len(coded) \in Nat /\ Len(inside) \in Nat
      /\ Len(edge.buf) \in Nat /\ edge \in EdgeType
  BY DEF EncReady, EncTold, EncTypes, EndTypes, EdgeType
<1>2. Taken \in Nat /\ Len(delivered) <= Taken
  <2>1. CASE encoder = "mpp"
    <3>1. Taken = Len(delivered) + 1 \/ Taken = Len(delivered) + 0
      BY <2>1 DEF Taken
    <3>2. QED
      BY <1>1, <3>1
  <2>2. CASE encoder # "mpp"
    <3>1. eosSent => Len(coded) + Len(inside) > 0
      BY <2>2 DEF EncReady, EncTold, EncTypes, SvtOrder
    <3>2. /\ eosSent => Taken = Len(delivered) + Len(coded) + Len(inside) - 1
          /\ ~eosSent => Taken = Len(delivered) + Len(coded) + Len(inside) - 0
      BY <2>2 DEF Taken
    <3>3. CASE eosSent
      BY <1>1, <3>1, <3>2, <3>3
    <3>4. CASE ~eosSent
      BY <1>1, <3>2, <3>4
    <3>5. QED
      BY <3>3, <3>4
  <2>3. QED
    BY <2>1, <2>2
<1>3. QED
  BY <1>1, <1>2, BoundsAssumption DEF Sent, EncReady, Follows

(* The stream ends.                                                        *)
LEMMA Concludes ==
  ASSUME EncReady, NEW s \in Cuts \cup {"Ok"}, NEW q \in EdgeType,
         outcome' = CASE closing -> "Canceled" [] s = "Ok" -> "Eof" [] OTHER -> s,
         edge' = Cancel(q, s), q.end = edge.end, q.status = edge.status,
         s = "Ok" => Len(delivered) = MaxPackets,
         delivered' = delivered, EncTypes', EncoderAt' = "done"
  PROVE  EncNext
<1>1. outcome' \in Cuts \/ (outcome' = "Eof" /\ Len(delivered) = MaxPackets)
  <2>1. CASE closing
    BY <2>1, CutFacts
  <2>2. CASE ~closing /\ s = "Ok"
    BY <2>2
  <2>3. CASE ~closing /\ s # "Ok"
    BY <2>3, CutFacts
  <2>4. closing \in BOOLEAN
    BY DEF EncReady, EncTold, EndTypes
  <2>5. QED
    BY <2>1, <2>2, <2>3
<1>2. outcome' \in Statuses /\ outcome' # "None"
  BY <1>1, CutFacts
<1>3. Carrier!Conclude(outcome')
  BY <1>1 DEF Carrier!Conclude, EncReady, Cuts
<1>4. /\ edge' \in EdgeType
      /\ edge'.end /\ edge'.status = "Eof" => edge.end /\ edge.status = "Eof"
  <2>1. s \in Statuses
    BY CutFacts
  <2>2. QED
    BY <2>1, CancelFacts
<1>5. InOrder' /\ delivered' \in Seq(Nat)
  BY DEF InOrder, EncReady, EncTold, EndTypes
<1>6. QED
  BY <1>2, <1>3, <1>4, <1>5 DEF EncNext, MppOrder, SvtOrder, StreamStep

(* A picture is taken from the edge.                                       *)
LEMMA Takes ==
  ASSUME EncReady, edge.buf # << >>, edge' = Dequeue(edge),
         Taken' = Taken + 1, UNCHANGED sinkVars
  PROVE  /\ Follows(edge)' /\ Sent' = Sent /\ InOrder'
         /\ edge' \in EdgeType /\ delivered' \in Seq(Nat) /\ outcome' = "None"
         /\ edge'.end /\ edge'.status = "Eof" => edge.end /\ edge.status = "Eof"
         /\ StreamStep
         /\ Head(edge.buf).pic = Taken + 1 /\ Head(edge.buf).pic \in Nat
<1>1. /\ edge' \in EdgeType /\ edge'.end = edge.end /\ edge'.status = edge.status
      /\ Len(edge'.buf) = Len(edge.buf) - 1 /\ Len(edge.buf) >= 1
      /\ \A k \in 1 .. Len(edge'.buf) : edge'.buf[k] = edge.buf[k + 1]
      /\ Head(edge.buf) = edge.buf[1] /\ edge.buf[1] \in ItemType
  BY TakenFacts, DequeueFacts
<1>2. Taken \in Nat /\ Len(edge.buf) \in Nat /\ Sent = Taken + Len(edge.buf)
  BY TakenFacts
<1>3. \A k \in 1 .. Len(edge.buf) : edge.buf[k].pic = Taken + k
  BY DEF EncReady, Follows
<1>4. 1 \in 1 .. Len(edge.buf)
  BY <1>1, <1>2
<1>5. Head(edge.buf).pic = Taken + 1
  BY <1>1, <1>3, <1>4
<1>6. ASSUME NEW k \in 1 .. Len(edge'.buf) PROVE edge'.buf[k].pic = Taken' + k
  <2>1. k + 1 \in 1 .. Len(edge.buf)
    BY <1>1, <1>2
  <2>2. edge'.buf[k].pic = Taken + (k + 1)
    BY <1>1, <1>3, <2>1
  <2>3. Taken + (k + 1) = (Taken + 1) + k
    BY <1>2, <2>1
  <2>4. QED
    BY <2>2, <2>3
<1>7. Taken' + Len(edge'.buf) = Taken + Len(edge.buf)
  <2>1. \A a, b \in Nat : (a + 1) + (b - 1) = a + b
    OBVIOUS
  <2>2. QED
    BY <1>1, <1>2, <2>1
<1>8. Sent' = Sent
  BY <1>2, <1>7 DEF Sent
<1>9. Follows(edge)'
  BY <1>1, <1>6, <1>7 DEF Follows, EncReady
<1>10. delivered' = delivered /\ outcome' = outcome
  BY DEF sinkVars
<1>11. QED
  BY <1>1, <1>5, <1>8, <1>9, <1>10 DEF StreamStep, EncReady, EncTold, EndTypes, InOrder,
     ItemType

(* Nothing is taken and the edge is as it was.                             *)
LEMMA Stays ==
  ASSUME EncReady, edge' = edge, Taken' = Taken, outcome' = outcome
  PROVE  /\ Follows(edge)' /\ Sent' = Sent
         /\ edge' \in EdgeType /\ outcome' \in Statuses \cup {"None"}
         /\ outcome' = "None"
BY DEF EncReady, EncTold, EndTypes, Follows, Sent

(* A picture leaves.                                                       *)
LEMMA Leaves ==
  ASSUME EncReady, Len(delivered) + 1 <= MaxPackets,
         delivered' = Append(delivered, Len(delivered) + 1), outcome' = outcome
  PROVE  /\ InOrder' /\ delivered' \in Seq(Nat) /\ StreamStep
         /\ Len(delivered') = Len(delivered) + 1
<1>1. /\ delivered \in Seq(Nat) /\ Len(delivered) \in Nat /\ MaxPackets \in Nat
      /\ outcome = "None"
  BY BoundsAssumption DEF EncReady, EncTold, EndTypes
<1>2. /\ delivered' \in Seq(Nat) /\ Len(delivered') = Len(delivered) + 1
      /\ \A k \in 1 .. Len(delivered) : delivered'[k] = delivered[k]
      /\ delivered'[Len(delivered) + 1] = Len(delivered) + 1
  BY <1>1, AppendFacts
<1>3. ASSUME NEW k \in 1 .. Len(delivered') PROVE delivered'[k] = k
  <2>1. k \in 1 .. Len(delivered) \/ k = Len(delivered) + 1
    BY <1>1, <1>2
  <2>2. QED
    BY <1>2, <2>1 DEF EncReady, EncTold, InOrder
<1>4. Carrier!Deliver
  BY <1>1 DEF Carrier!Deliver
<1>5. QED
  BY <1>2, <1>3, <1>4 DEF InOrder, StreamStep
(* The hardware encoder.                                                   *)

MppReady == EncReady /\ encoder = "mpp" /\ encAt \in {"pop", "code", "eos"}
MppStays == UNCHANGED << encoder, svtVars >>

LEMMA MppFails ==
  ASSUME MppReady, MppStays, NEW s \in Cuts \cup {"Ok"}, NEW q \in EdgeType,
         Mpp!EncEnds(s, q), q.end = edge.end, q.status = edge.status,
         s = "Ok" => Len(delivered) = MaxPackets,
         delivered' = delivered, jobs' \in Seq(JobType), packets' \in Seq(PacketType),
         outBuf' = outBuf
  PROVE  EncNext
<1>1. /\ encAt' = "done" /\ edge' = Cancel(q, s)
      /\ outcome' = CASE closing -> "Canceled" [] s = "Ok" -> "Eof" [] OTHER -> s
  BY OneQueue DEF Mpp!EncEnds
<1>2. EncTypes'
  BY <1>1 DEF MppReady, MppStays, EncReady, EncTold, EncTypes, svtVars
<1>3. EncoderAt' = "done"
  BY <1>1 DEF EncoderAt, MppReady, MppStays
<1>4. QED
  BY <1>1, <1>2, <1>3, Concludes DEF MppReady

LEMMA MppTakes ==
  ASSUME MppReady, MppStays, Mpp!EncTake
  PROVE  EncNext
<1>1. /\ encAt = "pop" /\ edge.buf # << >> /\ edge' = Dequeue(edge) /\ encAt' = "code"
      /\ UNCHANGED << delivered, outcome, closing, outBuf, packets >>
      /\ \E n \in 1 .. Parts :
           jobs' = Append(jobs, [pic |-> Head(edge.buf).pic, left |-> n, eos |-> FALSE])
  BY OneQueue DEF Mpp!EncTake, Mpp!sinkVars
<1>2. jobs = << >> /\ packets = << >>
  BY <1>1 DEF MppReady, EncReady, MppOrder
<1>3. Taken = Len(delivered) /\ Taken' = Taken + 1
  <2>1. Len(delivered) \in Nat
    BY TakenFacts DEF MppReady
  <2>2. Taken = Len(delivered) + 0 /\ Taken' = Len(delivered) + 1
    BY <1>1 DEF Taken, MppReady, MppStays
  <2>3. QED
    BY <2>1, <2>2
<1>4. /\ Follows(edge)' /\ Sent' = Sent /\ InOrder'
      /\ edge' \in EdgeType /\ delivered' \in Seq(Nat) /\ outcome' = "None"
      /\ edge'.end /\ edge'.status = "Eof" => edge.end /\ edge.status = "Eof"
      /\ StreamStep
      /\ Head(edge.buf).pic = Taken + 1 /\ Head(edge.buf).pic \in Nat
  BY <1>1, <1>3, Takes DEF MppReady, sinkVars
<1>5. PICK j \in JobType : /\ jobs' = << j >> /\ ~j.eos
                           /\ j.pic = Len(delivered) + 1 /\ j.left >= 1
  <2>1. PICK n \in 1 .. Parts :
          jobs' = Append(jobs, [pic |-> Head(edge.buf).pic, left |-> n, eos |-> FALSE])
    BY <1>1
  <2> DEFINE j == [pic |-> Head(edge.buf).pic, left |-> n, eos |-> FALSE]
  <2>2. n \in Nat \ {0} /\ n >= 1
    BY BoundsAssumption
  <2>3. /\ j \in JobType /\ ~j.eos /\ j.pic = Len(delivered) + 1 /\ j.left >= 1
    BY <1>3, <1>4, <2>2 DEF JobType
  <2>4. jobs' = << j >>
    BY <1>2, <2>1
  <2>5. QED
    BY <2>3, <2>4
<1>6. EncTypes'
  <2>1. jobs' \in Seq(JobType)
    BY <1>5
  <2>2. EncTypes
    BY DEF MppReady, EncReady, EncTold
  <2>3. /\ UNCHANGED << encoder, svtVars, outBuf, packets >>
        /\ encAt' = "code"
    BY <1>1 DEF MppStays
  <2>4. QED
    BY <2>1, <2>2, <2>3 DEF EncTypes, svtVars
<1>7. MppOrder' /\ SvtOrder'
  <2>1. Len(jobs') = 1 /\ jobs'[1] = j
    BY <1>5
  <2>2. 1 .. Len(packets') = {}
    <3>1. Len(packets') = 0 /\ 1 .. 0 = {}
      BY <1>1, <1>2, EmptySeq
    <3>2. QED
      BY ONLY <3>1
  <2>3. delivered' = delivered /\ encAt' = "code" /\ encoder' = "mpp"
    BY <1>1 DEF MppReady, MppStays
  <2>4. QED
    BY <1>5, <2>1, <2>2, <2>3 DEF MppOrder, SvtOrder
<1>8. EncoderAt' \notin {"done", "refused", "gone"}
  BY <1>1 DEF EncoderAt, MppReady, MppStays
<1>9. QED
  BY <1>4, <1>6, <1>7, <1>8 DEF EncNext

LEMMA MppRefuses ==
  ASSUME MppReady, MppStays, Mpp!EncRefuse
  PROVE  EncNext
<1>1. /\ encAt = "pop" /\ edge.buf # << >>
      /\ UNCHANGED << delivered, closing, jobs, outBuf, packets >>
      /\ \E s \in Cuts : Mpp!EncEnds(s, Dequeue(edge))
  BY OneQueue, CutFacts DEF Mpp!EncRefuse, Mpp!InitFails, Mpp!ControlFailures,
     Mpp!RoiFailures, Mpp!PacketFailures, Mpp!CopyFailures, Mpp!ImportFailures
<1>2. PICK s \in Cuts : Mpp!EncEnds(s, Dequeue(edge))
  BY <1>1
<1>3. /\ Dequeue(edge) \in EdgeType /\ Dequeue(edge).end = edge.end
      /\ Dequeue(edge).status = edge.status
  BY <1>1, TakenFacts, DequeueFacts DEF MppReady
<1>4. s # "Ok" /\ jobs' \in Seq(JobType) /\ packets' \in Seq(PacketType)
  BY <1>1, CutFacts DEF MppReady, EncReady, EncTold, EncTypes
<1>5. QED
  BY <1>1, <1>2, <1>3, <1>4, MppFails

LEMMA MppStalls ==
  ASSUME MppReady, MppStays, Mpp!EncStalled
  PROVE  EncNext
<1>1. /\ UNCHANGED << delivered, closing, jobs, outBuf, packets >>
      /\ Mpp!EncEnds("Hw", edge)
  BY DEF Mpp!EncStalled, Mpp!GiveUp
<1>2. jobs' \in Seq(JobType) /\ packets' \in Seq(PacketType) /\ edge \in EdgeType
  BY <1>1 DEF MppReady, EncReady, EncTold, EncTypes, EndTypes
<1>3. "Hw" \in Cuts /\ "Hw" # "Ok"
  BY CutFacts
<1>4. QED
  BY <1>1, <1>2, <1>3, MppFails

LEMMA MppEmitRefused ==
  ASSUME MppReady, MppStays, Mpp!EncEmitRefused
  PROVE  EncNext
<1>1. /\ packets # << >> /\ packets' = Tail(packets)
      /\ UNCHANGED << delivered, closing, jobs, outBuf >>
      /\ Mpp!EncEnds("Canceled", edge) \/ Mpp!EncEnds("Nomem", edge)
  BY DEF Mpp!EncEmitRefused
<1>2. jobs' \in Seq(JobType) /\ packets' \in Seq(PacketType) /\ edge \in EdgeType
  BY <1>1, TailFacts DEF MppReady, EncReady, EncTold, EncTypes, EndTypes
<1>3. {"Canceled", "Nomem"} \subseteq Cuts /\ "Canceled" # "Ok" /\ "Nomem" # "Ok"
  BY CutFacts
<1>4. QED
  BY <1>1, <1>2, <1>3, MppFails

LEMMA MppEdgeEnded ==
  ASSUME MppReady, MppStays, Mpp!EncEdgeEnded
  PROVE  EncNext
<1>1. /\ encAt = "pop" /\ edge.buf = << >> /\ edge.end
      /\ UNCHANGED << delivered, closing, outBuf, packets >>
  BY DEF Mpp!EncEdgeEnded
<1>2. /\ jobs = << >> /\ packets = << >> /\ edge \in EdgeType
      /\ packets' \in Seq(PacketType) /\ jobs \in Seq(JobType)
  BY <1>1, EmptySeq DEF MppReady, EncReady, EncTold, EncTypes, EndTypes, MppOrder
<1>3. edge.status = "Eof" => Len(delivered) = MaxPackets
  <2>1. Taken = Len(delivered) + 0 /\ Len(delivered) \in Nat
    BY <1>1, TakenFacts DEF Taken, MppReady
  <2>2. Len(edge.buf) = 0
    BY <1>1, EmptySeq
  <2>3. edge.status = "Eof" => Taken + Len(edge.buf) = MaxPackets
    BY <1>1 DEF MppReady, EncReady, Follows
  <2>4. QED
    BY <2>1, <2>2, <2>3
<1>4. CASE edge.status # "Eof" /\ Mpp!EncEnds(edge.status, edge) /\ jobs' = jobs
  <2>1. edge.status \in Cuts /\ edge.status # "Ok"
    BY <1>2, <1>4, CutFacts DEF EdgeType
  <2>2. QED
    BY <1>1, <1>2, <1>4, <2>1, MppFails
<1>5. CASE edge.status = "Eof" /\ Mpp!EncEnds("Ok", edge) /\ jobs' = jobs
  BY <1>1, <1>2, <1>3, <1>5, MppFails
<1>6. CASE Mpp!EncEnds("Hw", edge) /\ jobs' = jobs
  <2>1. "Hw" \in Cuts /\ "Hw" # "Ok"
    BY CutFacts
  <2>2. QED
    BY <1>1, <1>2, <1>6, <2>1, MppFails
<1>7. CASE /\ edge.status = "Eof" /\ encAt' = "eos" /\ UNCHANGED << edge, outcome >>
           /\ jobs' = Append(jobs, [pic |-> 0, left |-> 1, eos |-> TRUE])
  <2>1. jobs' = << [pic |-> 0, left |-> 1, eos |-> TRUE] >>
    BY <1>2, <1>7
  <2>2. jobs' \in Seq(JobType)
    <3>1. [pic |-> 0, left |-> 1, eos |-> TRUE] \in JobType
      BY DEF JobType
    <3>2. QED
      BY <2>1, <3>1
  <2>3. EncTypes'
    BY <1>1, <1>2, <1>7, <2>2 DEF MppReady, MppStays, EncReady, EncTold, EncTypes, svtVars
  <2>4. Taken' = Taken
    BY <1>1, <1>7 DEF Taken, MppReady, MppStays
  <2>5. MppOrder' /\ SvtOrder'
    BY <1>1, <1>2, <1>3, <1>7, <2>1 DEF MppOrder, SvtOrder, MppReady, MppStays
  <2>6. /\ Follows(edge)' /\ Sent' = Sent /\ edge' \in EdgeType
        /\ outcome' \in Statuses \cup {"None"} /\ outcome' = "None"
    BY <1>7, <2>4, Stays DEF MppReady
  <2>7. InOrder' /\ delivered' \in Seq(Nat) /\ StreamStep
    BY <1>1, <1>7 DEF InOrder, StreamStep, MppReady, EncReady, EncTold, EndTypes
  <2>8. EncoderAt' \notin {"done", "refused", "gone"}
    BY <1>7 DEF EncoderAt, MppReady, MppStays
  <2>9. QED
    BY <1>7, <2>3, <2>5, <2>6, <2>7, <2>8 DEF EncNext
<1>8. QED
  BY <1>4, <1>5, <1>6, <1>7 DEF Mpp!EncEdgeEnded
(* A packet of the picture leaves; with the last one the picture has left. *)
LEMMA MppGets ==
  ASSUME MppReady, MppStays, Mpp!EncGet
  PROVE  EncNext
<1>1. /\ encAt = "code" /\ packets # << >>
      /\ delivered' = Mpp!Emitted(Head(packets)) /\ packets' = Tail(packets)
      /\ encAt' = IF Head(packets).last THEN "pop" ELSE "code"
      /\ UNCHANGED << edge, outcome, closing, jobs, outBuf >>
  BY DEF Mpp!EncGet
<1>2. packets \in Seq(PacketType)
  BY DEF MppReady, EncReady, EncTold, EncTypes
<1>3. /\ packets' \in Seq(PacketType) /\ Len(packets') = Len(packets) - 1
      /\ Len(packets) >= 1 /\ Head(packets) = packets[1] /\ packets[1] \in PacketType
      /\ \A k \in 1 .. Len(packets) - 1 : packets'[k] = packets[k + 1]
      /\ Len(packets) \in Nat /\ 1 \in 1 .. Len(packets)
  BY <1>1, <1>2, TailFacts
<1>4. \A k \in 1 .. Len(packets) : ~packets[k].eos
  BY <1>1 DEF MppReady, EncReady, MppOrder
<1>5. EncTypes'
  BY <1>1, <1>3 DEF MppReady, MppStays, EncReady, EncTold, EncTypes, svtVars
<1>6. \A k \in 1 .. Len(packets') : k \in 1 .. Len(packets) - 1 /\ k + 1 \in 1 .. Len(packets)
  BY <1>3
<1>7. \A k \in 1 .. Len(packets') : ~packets'[k].eos
  BY <1>3, <1>4, <1>6
<1>8. EncoderAt' \notin {"done", "refused", "gone"} /\ SvtOrder'
  BY <1>1 DEF EncoderAt, MppReady, MppStays, SvtOrder
<1>9. Taken = Len(delivered) + 1 /\ Len(delivered) \in Nat
  BY <1>1, TakenFacts DEF Taken, MppReady
<1>10. CASE /\ Len(jobs) = 1
            /\ jobs[1].pic = Len(delivered) + 1
            /\ jobs[1].left >= 1 /\ ~jobs[1].eos
            /\ \A k \in 1 .. Len(packets) : ~packets[k].last
  <2>1. encAt' = "code" /\ delivered' = delivered
    BY <1>1, <1>3, <1>10 DEF Mpp!Emitted
  <2>2. \A k \in 1 .. Len(packets') : ~packets'[k].last
    BY <1>3, <1>6, <1>10
  <2>3. MppOrder'
    BY <1>1, <1>7, <1>10, <2>1, <2>2 DEF MppOrder
  <2>4. Taken' = Taken
    BY <1>1, <2>1 DEF Taken, MppReady, MppStays
  <2>5. /\ Follows(edge)' /\ Sent' = Sent /\ edge' \in EdgeType
        /\ outcome' \in Statuses \cup {"None"} /\ outcome' = "None"
    BY <1>1, <2>4, Stays DEF MppReady
  <2>6. InOrder' /\ delivered' \in Seq(Nat) /\ StreamStep
    BY <1>1, <2>1 DEF InOrder, StreamStep, MppReady, EncReady, EncTold, EndTypes
  <2>7. QED
    BY <1>1, <1>5, <1>8, <2>3, <2>5, <2>6 DEF EncNext
<1>11. CASE /\ jobs = << >>
            /\ outBuf = Len(delivered) + 1
            /\ \A k \in 1 .. Len(packets) : packets[k].last <=> k = Len(packets)
  <2>1. \A k \in 1 .. Len(packets') : packets'[k].last <=> k = Len(packets')
    <3>1. \A k \in 1 .. Len(packets') : k + 1 = Len(packets) <=> k = Len(packets')
      BY <1>3
    <3>2. QED
      BY <1>3, <1>6, <1>11, <3>1
  <2>2. CASE Len(packets) = 1
    <3>1. Head(packets).last /\ ~Head(packets).eos
      BY <1>3, <1>4, <1>11, <2>2
    <3>2. delivered' = Append(delivered, Len(delivered) + 1) /\ encAt' = "pop"
      BY <1>1, <1>11, <3>1 DEF Mpp!Emitted
    <3>3. packets' = << >>
      <4>1. Len(packets') = 0
        BY <1>3, <2>2
      <4>2. QED
        BY <1>3, <4>1, NoneLeft
    <3>4. MppOrder'
      BY <1>1, <1>11, <3>2, <3>3 DEF MppOrder
    <3>5. Len(delivered) + 1 <= MaxPackets
      <4>1. /\ Sent = Taken + Len(edge.buf) /\ Len(edge.buf) \in Nat
            /\ Taken \in Nat /\ Sent <= MaxPackets /\ MaxPackets \in Nat
        BY TakenFacts DEF MppReady
      <4>2. Taken <= MaxPackets
        BY <4>1
      <4>3. QED
        BY <1>9, <4>2
    <3>6. /\ InOrder' /\ delivered' \in Seq(Nat) /\ StreamStep
          /\ Len(delivered') = Len(delivered) + 1
      BY <1>1, <3>2, <3>5, Leaves DEF MppReady
    <3>7. Taken' = Taken
      <4>1. Taken' = Len(delivered') + 0
        BY <3>2 DEF Taken, MppReady, MppStays
      <4>2. QED
        BY <1>9, <3>6, <4>1
    <3>8. /\ Follows(edge)' /\ Sent' = Sent /\ edge' \in EdgeType
          /\ outcome' \in Statuses \cup {"None"} /\ outcome' = "None"
      BY <1>1, <3>7, Stays DEF MppReady
    <3>9. QED
      BY <1>1, <1>5, <1>8, <3>4, <3>6, <3>8 DEF EncNext
  <2>3. CASE Len(packets) # 1
    <3>1. ~Head(packets).last
      BY <1>3, <1>11, <2>3
    <3>2. delivered' = delivered /\ encAt' = "code"
      BY <1>1, <3>1 DEF Mpp!Emitted
    <3>3. packets' # << >>
      <4>1. Len(packets') # 0
        BY <1>3, <2>3
      <4>2. QED
        BY <1>3, <4>1, NoneLeft
    <3>4. MppOrder'
      BY <1>1, <1>7, <1>11, <2>1, <3>2, <3>3 DEF MppOrder
    <3>5. Taken' = Taken
      BY <1>1, <3>2 DEF Taken, MppReady, MppStays
    <3>6. /\ Follows(edge)' /\ Sent' = Sent /\ edge' \in EdgeType
          /\ outcome' \in Statuses \cup {"None"} /\ outcome' = "None"
      BY <1>1, <3>5, Stays DEF MppReady
    <3>7. InOrder' /\ delivered' \in Seq(Nat) /\ StreamStep
      BY <1>1, <3>2 DEF InOrder, StreamStep, MppReady, EncReady, EncTold, EndTypes
    <3>8. QED
      BY <1>1, <1>5, <1>8, <3>4, <3>6, <3>7 DEF EncNext
  <2>4. QED
    BY <2>2, <2>3
<1>12. QED
  BY <1>1, <1>10, <1>11 DEF MppReady, EncReady, MppOrder

LEMMA MppGetsEos ==
  ASSUME MppReady, MppStays, Mpp!EncGetEos
  PROVE  EncNext
<1>1. /\ encAt = "eos" /\ packets # << >>
      /\ delivered' = Mpp!Emitted(Head(packets)) /\ packets' = Tail(packets)
      /\ Head(packets).eos => Mpp!EncEnds("Ok", edge)
      /\ UNCHANGED << closing, jobs, outBuf >>
  BY DEF Mpp!EncGetEos
<1>2. Len(delivered) = MaxPackets /\ packets = << [last |-> TRUE, eos |-> TRUE] >>
  BY <1>1 DEF MppReady, EncReady, MppOrder
<1>3. Head(packets).eos
  BY <1>2
<1>4. Mpp!EncEnds("Ok", edge) /\ delivered' = delivered
  BY <1>1, <1>3 DEF Mpp!Emitted
<1>5. jobs' \in Seq(JobType) /\ packets' \in Seq(PacketType) /\ edge \in EdgeType
  BY <1>1, TailFacts DEF MppReady, EncReady, EncTold, EncTypes, EndTypes
<1>6. QED
  BY <1>1, <1>2, <1>4, <1>5, MppFails

LEMMA MppEncoderStep ==
  ASSUME MppReady, MppStays, Mpp!EncStep
  PROVE  EncNext
BY MppTakes, MppRefuses, MppGets, MppGetsEos, MppStalls, MppEmitRefused, MppEdgeEnded
   DEF Mpp!EncStep

(* MPP writes a packet, whatever the worker does.                          *)
LEMMA MppEncodes ==
  ASSUME EncTypes, MppOrder, encoder = "mpp", MppStays, Mpp!MppEncode
  PROVE  EncTypes' /\ MppOrder' /\ Taken' = Taken
<1> DEFINE job == jobs[1]
<1>1. /\ jobs # << >> /\ outBuf' = job.pic
      /\ packets' = Append(packets, [last |-> job.left = 1, eos |-> job.eos])
      /\ jobs' = IF job.left = 1 THEN Tail(jobs)
                                 ELSE << [job EXCEPT !.left = @ - 1] >> \o Tail(jobs)
      /\ UNCHANGED << edge, delivered, outcome, closing, encAt >>
  BY TailFacts DEF Mpp!MppEncode, Mpp!sinkVars, EncTypes
<1>2. /\ jobs \in Seq(JobType) /\ packets \in Seq(PacketType)
      /\ job \in JobType /\ Tail(jobs) \in Seq(JobType)
      /\ Len(jobs) >= 1 /\ Len(Tail(jobs)) = Len(jobs) - 1 /\ Len(jobs) \in Nat
  BY <1>1, TailFacts DEF EncTypes
<1>3. job.left \in Nat \ {0} /\ job.pic \in Nat /\ job.eos \in BOOLEAN
  BY <1>2 DEF JobType
<1> DEFINE less == [job EXCEPT !.left = @ - 1]
           p    == [last |-> job.left = 1, eos |-> job.eos]
<1>4. /\ job.left # 1 => less \in JobType
      /\ less.pic = job.pic /\ less.eos = job.eos /\ less.left = job.left - 1
  BY <1>2, <1>3 DEF JobType
<1>5. /\ p \in PacketType /\ p.last = (job.left = 1) /\ p.eos = job.eos
  BY <1>3 DEF PacketType
<1> HIDE DEF less, p
<1>6. packets' = Append(packets, p) /\ jobs' = IF job.left = 1 THEN Tail(jobs)
                                               ELSE << less >> \o Tail(jobs)
  BY <1>1 DEF less, p
<1>7. /\ packets' \in Seq(PacketType) /\ Len(packets') = Len(packets) + 1
      /\ packets' # << >> /\ Len(packets) \in Nat
      /\ \A k \in 1 .. Len(packets) : packets'[k] = packets[k]
      /\ packets'[Len(packets) + 1] = p
  BY <1>2, <1>5, <1>6, AppendFacts
<1>8. jobs' \in Seq(JobType)
  <2>1. job.left # 1 => << less >> \in Seq(JobType)
    BY <1>4
  <2>2. QED
    BY <1>2, <1>6, <2>1
<1>9. EncTypes'
  BY <1>1, <1>3, <1>7, <1>8 DEF EncTypes, MppStays, svtVars
<1>10. Taken' = Taken
  BY <1>1 DEF Taken, MppStays
<1>11. ASSUME NEW k \in 1 .. Len(packets') PROVE k \in 1 .. Len(packets) \/ k = Len(packets) + 1
  BY <1>7
<1>12. MppOrder'
  <2>1. SUFFICES ASSUME outcome = "None" PROVE MppOrder'
    BY <1>1 DEF MppOrder
  <2>2. encAt \notin {"closed", "pop"}
    BY <1>1, <2>1 DEF MppOrder
  <2>3. CASE encAt = "code"
    <3>1. /\ Len(jobs) = 1 /\ job.pic = Len(delivered) + 1 /\ job.left >= 1 /\ ~job.eos
          /\ \A k \in 1 .. Len(packets) : ~packets[k].last /\ ~packets[k].eos
      BY <1>1, <2>1, <2>3 DEF MppOrder
    <3>2. \A k \in 1 .. Len(packets') : ~packets'[k].eos
      BY <1>5, <1>7, <1>11, <3>1
    <3>3. Len(Tail(jobs)) = 0 /\ Tail(jobs) = << >>
      <4>1. Len(Tail(jobs)) = 0
        BY <1>2, <3>1
      <4>2. QED
        BY <1>2, <4>1, NoneLeft
    <3>4. CASE job.left = 1
      <4>1. jobs' = << >>
        BY <1>6, <3>3, <3>4
      <4>2. \A k \in 1 .. Len(packets') : packets'[k].last <=> k = Len(packets')
        BY <1>5, <1>7, <1>11, <3>1, <3>4
      <4>3. outBuf' = Len(delivered') + 1
        BY <1>1, <3>1
      <4>4. QED
        BY <1>1, <1>7, <2>3, <3>2, <4>1, <4>2, <4>3 DEF MppOrder
    <3>5. CASE job.left # 1
      <4>1. jobs' = << less >>
        <5>1. jobs' = << less >> \o << >>
          BY <1>6, <3>3, <3>5
        <5>2. << less >> \o << >> = << less >>
          OBVIOUS
        <5>3. QED
          BY <5>1, <5>2
      <4>2. Len(jobs') = 1 /\ jobs'[1] = less
        BY <4>1
      <4>3. less.left >= 1
        BY <1>3, <1>4, <3>5
      <4>4. \A k \in 1 .. Len(packets') : ~packets'[k].last
        BY <1>5, <1>7, <1>11, <3>1, <3>5
      <4>5. less.pic = Len(delivered') + 1 /\ ~less.eos
        BY <1>1, <1>4, <3>1
      <4>6. QED
        BY <1>1, <2>3, <3>2, <4>2, <4>3, <4>4, <4>5 DEF MppOrder
    <3>6. QED
      BY <2>3, <3>4, <3>5
  <2>4. CASE encAt = "eos"
    <3>1. /\ Len(delivered) = MaxPackets /\ packets = << >>
          /\ jobs = << [pic |-> 0, left |-> 1, eos |-> TRUE] >>
      BY <1>1, <2>1, <2>4 DEF MppOrder
    <3>2. job.left = 1 /\ job.eos /\ Tail(jobs) = << >>
      BY <3>1
    <3>3. packets' = << [last |-> TRUE, eos |-> TRUE] >> /\ jobs' = << >>
      <4>1. [last |-> job.left = 1, eos |-> job.eos] = [last |-> TRUE, eos |-> TRUE]
        BY <3>1
      <4>2. QED
        BY <1>1, <3>1, <3>2, <4>1
    <3>4. QED
      BY <1>1, <2>4, <3>1, <3>3 DEF MppOrder
  <2>5. CASE encAt \notin {"code", "eos"}
    BY <1>1, <2>2, <2>5 DEF MppOrder
  <2>6. QED
    BY <2>3, <2>4, <2>5
<1>13. QED
  BY <1>9, <1>10, <1>12
(* The software encoder.                                                   *)

SvtReady == EncReady /\ encoder = "svt" /\ svtAt \in {"pop", "drain", "flush"}
SvtStays == UNCHANGED << encoder, mppVars >>

LEMMA SvtFails ==
  ASSUME SvtReady, SvtStays, NEW s \in Cuts \cup {"Ok"}, NEW q \in EdgeType,
         Svt!SvtEnds(s, q), q.end = edge.end, q.status = edge.status,
         s = "Ok" => Len(delivered) = MaxPackets,
         delivered' = delivered, svtReady' \in BOOLEAN, eosSent' = eosSent,
         inside' = inside, coded' \in Seq(Nat)
  PROVE  EncNext
<1>1. /\ svtAt' = "done" /\ edge' = Cancel(q, s)
      /\ outcome' = CASE closing -> "Canceled" [] s = "Ok" -> "Eof" [] OTHER -> s
  BY OneQueue DEF Svt!SvtEnds
<1>2. EncTypes'
  BY <1>1 DEF SvtReady, SvtStays, EncReady, EncTold, EncTypes, mppVars
<1>3. EncoderAt' = "done"
  BY <1>1 DEF EncoderAt, SvtReady, SvtStays
<1>4. QED
  BY <1>1, <1>2, <1>3, Concludes DEF SvtReady

LEMMA SvtCounts ==
  ASSUME SvtReady
  PROVE  /\ inside \in Seq(Nat) /\ coded \in Seq(Nat)
         /\ Len(delivered) \in Nat /\ Len(coded) \in Nat /\ Len(inside) \in Nat
         /\ ~eosSent => Taken = Len(delivered) + Len(coded) + Len(inside)
         /\ eosSent => Taken = Len(delivered) + Len(coded) + Len(inside) - 1
         /\ eosSent <=> svtAt = "flush"
         /\ eosSent => Taken = MaxPackets /\ Len(coded) + Len(inside) > 0
         /\ \A k \in 1 .. Len(coded) :
              coded[k] = IF eosSent /\ k = Len(coded) + Len(inside) THEN 0
                         ELSE Len(delivered) + k
         /\ \A k \in 1 .. Len(inside) :
              inside[k] = IF eosSent /\ k = Len(inside) THEN 0
                          ELSE Len(delivered) + Len(coded) + k
         /\ ~svtReady => inside = << >> /\ coded = << >>
         /\ edge \in EdgeType
<1>1. /\ inside \in Seq(Nat) /\ coded \in Seq(Nat) /\ eosSent \in BOOLEAN
      /\ Len(delivered) \in Nat /\ Len(coded) \in Nat /\ Len(inside) \in Nat
      /\ edge \in EdgeType
  BY DEF SvtReady, EncReady, EncTold, EncTypes, EndTypes
<1>2. /\ ~eosSent => Taken = Len(delivered) + Len(coded) + Len(inside) - 0
      /\ eosSent => Taken = Len(delivered) + Len(coded) + Len(inside) - 1
  BY DEF Taken, SvtReady
<1>3. ~eosSent => Taken = Len(delivered) + Len(coded) + Len(inside)
  BY <1>1, <1>2
<1>4. QED
  BY <1>1, <1>2, <1>3 DEF SvtReady, EncReady, SvtOrder

LEMMA SvtTakes ==
  ASSUME SvtReady, SvtStays, Svt!SvtTake
  PROVE  EncNext
<1>1. /\ svtAt = "pop" /\ edge.buf # << >> /\ edge' = Dequeue(edge) /\ svtAt' = "drain"
      /\ svtReady' = TRUE /\ inside' = Append(inside, Head(edge.buf).pic)
      /\ UNCHANGED << delivered, outcome, closing, eosSent, coded >>
  BY OneQueue DEF Svt!SvtTake, Svt!sinkVars, Svt!InitLocked
<1>2. ~eosSent
  BY <1>1, SvtCounts
<1>3. /\ Len(delivered) \in Nat /\ Len(coded) \in Nat /\ Len(inside) \in Nat
      /\ inside \in Seq(Nat) /\ Taken = Len(delivered) + Len(coded) + Len(inside)
      /\ \A k \in 1 .. Len(coded) : coded[k] = Len(delivered) + k
      /\ \A k \in 1 .. Len(inside) : inside[k] = Len(delivered) + Len(coded) + k
  BY <1>2, SvtCounts
<1> DEFINE n == Head(edge.buf).pic
<1>4. /\ n \in Nat => Len(inside') = Len(inside) + 1 /\ inside' \in Seq(Nat)
      /\ n \in Nat => \A k \in 1 .. Len(inside) : inside'[k] = inside[k]
      /\ n \in Nat => inside'[Len(inside) + 1] = n
  BY <1>1, <1>3, AppendFacts
<1>5. Taken' = Taken + 1
  <2>1. Len(inside') = Len(inside) + 1
    BY <1>1, <1>3
  <2>2. Taken' = Len(delivered) + Len(coded) + Len(inside') - 0
    BY <1>1, <1>2 DEF Taken, SvtReady, SvtStays
  <2>3. QED
    BY <1>3, <2>1, <2>2
<1>6. /\ Follows(edge)' /\ Sent' = Sent /\ InOrder'
      /\ edge' \in EdgeType /\ delivered' \in Seq(Nat) /\ outcome' = "None"
      /\ edge'.end /\ edge'.status = "Eof" => edge.end /\ edge.status = "Eof"
      /\ StreamStep /\ n = Taken + 1 /\ n \in Nat
  BY <1>1, <1>5, Takes DEF SvtReady, sinkVars
<1> HIDE DEF n
<1>7. ASSUME NEW k \in 1 .. Len(inside')
      PROVE  inside'[k] = Len(delivered) + Len(coded) + k
  <2>1. k \in 1 .. Len(inside) \/ k = Len(inside) + 1
    BY <1>3, <1>4, <1>6, SMTT(40)
  <2>2. n = Len(delivered) + Len(coded) + (Len(inside) + 1)
    BY <1>3, <1>6
  <2>3. QED
    BY <1>3, <1>4, <1>6, <2>1, <2>2
<1>8. SvtOrder' /\ MppOrder'
  BY <1>1, <1>2, <1>3, <1>7 DEF SvtOrder, MppOrder, SvtReady, SvtStays
<1>9. EncTypes'
  BY <1>1, <1>4, <1>6 DEF SvtReady, SvtStays, EncReady, EncTold, EncTypes, mppVars
<1>10. EncoderAt' \notin {"done", "refused", "gone"}
  BY <1>1 DEF EncoderAt, SvtReady, SvtStays
<1>11. QED
  BY <1>6, <1>8, <1>9, <1>10 DEF EncNext

LEMMA SvtRefuses ==
  ASSUME SvtReady, SvtStays, Svt!SvtRefuse
  PROVE  EncNext
<1>1. /\ edge.buf # << >> /\ svtReady' \in {svtReady, TRUE}
      /\ UNCHANGED << delivered, closing, eosSent, inside, coded >>
      /\ \E s \in Cuts : Svt!SvtEnds(s, Dequeue(edge))
  BY OneQueue, CutFacts DEF Svt!SvtRefuse
<1>2. PICK s \in Cuts : Svt!SvtEnds(s, Dequeue(edge))
  BY <1>1
<1>3. /\ Dequeue(edge) \in EdgeType /\ Dequeue(edge).end = edge.end
      /\ Dequeue(edge).status = edge.status
  BY <1>1, SvtCounts, DequeueFacts
<1>4. s # "Ok" /\ coded' \in Seq(Nat) /\ svtReady' \in BOOLEAN
  BY <1>1, CutFacts DEF SvtReady, EncReady, EncTold, EncTypes
<1>5. QED
  BY <1>1, <1>2, <1>3, <1>4, SvtFails

LEMMA SvtGetsNone ==
  ASSUME SvtReady, SvtStays, Svt!SvtGetFails
  PROVE  EncNext
<1>1. /\ UNCHANGED << delivered, closing, svtReady, eosSent, inside, coded >>
      /\ \E s \in Cuts : Svt!SvtEnds(s, edge)
  BY CutFacts DEF Svt!SvtGetFails
<1>2. PICK s \in Cuts : Svt!SvtEnds(s, edge)
  BY <1>1
<1>3. s # "Ok" /\ coded' \in Seq(Nat) /\ svtReady' \in BOOLEAN /\ edge \in EdgeType
  BY <1>1, CutFacts DEF SvtReady, EncReady, EncTold, EncTypes, EndTypes
<1>4. QED
  BY <1>1, <1>2, <1>3, SvtFails

(* A step that moves nothing but the worker.                               *)
LEMMA SvtUnmoved ==
  ASSUME SvtReady, SvtStays, EncTypes', SvtOrder', Taken' = Taken,
         edge' = edge, delivered' = delivered, outcome' = outcome,
         svtAt' \notin {"done", "refused", "gone"}
  PROVE  EncNext
<1>1. /\ Follows(edge)' /\ Sent' = Sent /\ edge' \in EdgeType
      /\ outcome' \in Statuses \cup {"None"} /\ outcome' = "None"
  BY Stays DEF SvtReady
<1>2. InOrder' /\ delivered' \in Seq(Nat) /\ StreamStep
  BY DEF InOrder, StreamStep, SvtReady, EncReady, EncTold, EndTypes
<1>3. EncoderAt' \notin {"done", "refused", "gone"} /\ MppOrder'
  BY DEF EncoderAt, SvtReady, SvtStays, MppOrder
<1>4. QED
  BY <1>1, <1>2, <1>3 DEF EncNext

LEMMA SvtPolls ==
  ASSUME SvtReady, SvtStays, Svt!SvtPollEmpty
  PROVE  EncNext
<1>1. /\ svtAt \in {"drain", "flush"} /\ ~eosSent
      /\ svtAt = "drain" => svtAt' = "pop" /\ UNCHANGED << edge, outcome >>
      /\ UNCHANGED << delivered, closing, svtReady, eosSent, inside, coded >>
  BY DEF Svt!SvtPollEmpty, Svt!PollEnds
<1>2. svtAt = "drain" /\ svtAt' = "pop"
  BY <1>1, SvtCounts
<1>3. Taken' = Taken
  BY <1>1 DEF Taken, SvtReady, SvtStays
<1>4. EncTypes'
  BY <1>1, <1>2 DEF SvtReady, SvtStays, EncReady, EncTold, EncTypes, mppVars
<1>5. SvtOrder'
  BY <1>1, <1>2, <1>3 DEF SvtOrder, SvtReady, SvtStays, EncReady
<1>6. QED
  BY <1>1, <1>2, <1>3, <1>4, <1>5, SvtUnmoved
(* A packet leaves, or the one that only marks the end.                    *)
LEMMA SvtGets ==
  ASSUME SvtReady, SvtStays, Svt!SvtGet
  PROVE  EncNext
<1> DEFINE D == Len(delivered)
           N == Len(coded) + Len(inside)
<1>1. /\ coded # << >> /\ coded' = Tail(coded)
      /\ delivered' = IF Head(coded) = 0 THEN delivered ELSE Append(delivered, Head(coded))
      /\ IF Head(coded) = 0 THEN Svt!SvtEnds("Ok", edge)
                            ELSE UNCHANGED << edge, outcome, svtAt >>
      /\ UNCHANGED << closing, svtReady, eosSent, inside >>
  BY DEF Svt!SvtGet, Svt!Eos
<1>2. /\ coded' \in Seq(Nat) /\ Len(coded') = Len(coded) - 1 /\ Len(coded) >= 1
      /\ Head(coded) = coded[1] /\ 1 \in 1 .. Len(coded)
      /\ \A k \in 1 .. Len(coded) - 1 : coded'[k] = coded[k + 1]
  BY <1>1, SvtCounts, TailFacts
<1>3. D \in Nat /\ Len(coded) \in Nat /\ Len(inside) \in Nat /\ eosSent \in BOOLEAN
  BY SvtCounts DEF SvtReady, EncReady, EncTold, EncTypes
<1>4. \A k \in 1 .. Len(coded) : coded[k] = IF eosSent /\ k = N THEN 0 ELSE D + k
  BY SvtCounts
<1>5. \A k \in 1 .. Len(inside) :
        inside[k] = IF eosSent /\ k = Len(inside) THEN 0 ELSE D + Len(coded) + k
  BY SvtCounts
<1>6. CASE eosSent /\ N = 1
  <2>1. Head(coded) = 0
    BY <1>2, <1>4, <1>6
  <2>2. Taken = D + Len(coded) + Len(inside) - 1 /\ Taken = MaxPackets
    BY <1>6, SvtCounts
  <2>3. D = MaxPackets
    <3>1. D + Len(coded) + Len(inside) - 1 = D + (N - 1)
      BY <1>3
    <3>2. QED
      BY <1>3, <1>6, <2>2, <3>1
  <2>4. Svt!SvtEnds("Ok", edge) /\ delivered' = delivered /\ edge \in EdgeType
    BY <1>1, <2>1, SvtCounts
  <2>5. svtReady' \in BOOLEAN
    BY <1>1 DEF SvtReady, EncReady, EncTold, EncTypes
  <2>6. QED
    BY <1>1, <1>2, <2>3, <2>4, <2>5, SvtFails
<1>7. CASE ~(eosSent /\ N = 1)
  <2>1. coded[1] = D + 1 /\ D + 1 # 0
    BY <1>2, <1>3, <1>4, <1>7
  <2>2. /\ delivered' = Append(delivered, D + 1)
        /\ UNCHANGED << edge, outcome, svtAt >>
    BY <1>1, <1>2, <2>1
  <2>3. D + 1 <= MaxPackets
    <3>1. /\ Sent = Taken + Len(edge.buf) /\ Len(edge.buf) \in Nat
          /\ Taken \in Nat /\ Sent <= MaxPackets /\ MaxPackets \in Nat
      BY TakenFacts DEF SvtReady
    <3>2. Taken <= MaxPackets
      BY <3>1
    <3>3. CASE eosSent
      <4>1. Taken = D + Len(coded) + Len(inside) - 1 /\ N > 0
        BY <3>3, SvtCounts
      <4>2. N >= 2
        BY <1>3, <1>7, <3>3, <4>1
      <4>3. QED
        BY <1>3, <3>1, <3>2, <4>1, <4>2
    <3>4. CASE ~eosSent
      <4>1. Taken = D + Len(coded) + Len(inside)
        BY <3>4, SvtCounts
      <4>2. QED
        BY <1>2, <1>3, <3>1, <3>2, <4>1
    <3>5. QED
      BY <3>3, <3>4
  <2>4. /\ InOrder' /\ delivered' \in Seq(Nat) /\ StreamStep
        /\ Len(delivered') = D + 1
    BY <2>2, <2>3, Leaves DEF SvtReady
  <2>5. Taken' = Taken
    <3>1. /\ eosSent => Taken' = Len(delivered') + Len(coded') + Len(inside) - 1
          /\ ~eosSent => Taken' = Len(delivered') + Len(coded') + Len(inside) - 0
      BY <1>1 DEF Taken, SvtReady, SvtStays
    <3>2. Len(delivered') + Len(coded') + Len(inside) = D + Len(coded) + Len(inside)
      BY <1>2, <1>3, <2>4
    <3>3. /\ ~eosSent => Taken = D + Len(coded) + Len(inside)
          /\ eosSent => Taken = D + Len(coded) + Len(inside) - 1
      BY SvtCounts
    <3>4. D + Len(coded) + Len(inside) - 0 = D + Len(coded) + Len(inside)
      BY <1>3
    <3>5. QED
      BY <3>1, <3>2, <3>3, <3>4
  <2>6. ASSUME NEW k \in 1 .. Len(coded')
        PROVE  coded'[k] = IF eosSent /\ k = Len(coded') + Len(inside) THEN 0
                           ELSE Len(delivered') + k
    <3>1. k \in 1 .. Len(coded) - 1 /\ k + 1 \in 1 .. Len(coded)
      BY <1>2, <1>3
    <3>2. coded'[k] = IF eosSent /\ k + 1 = N THEN 0 ELSE D + (k + 1)
      BY <1>2, <1>4, <3>1
    <3>3. k + 1 = N <=> k = Len(coded') + Len(inside)
      BY <1>2, <1>3
    <3>4. D + (k + 1) = Len(delivered') + k
      BY <1>2, <1>3, <2>4
    <3>5. QED
      BY <3>2, <3>3, <3>4
  <2>7. ASSUME NEW k \in 1 .. Len(inside)
        PROVE  inside[k] = IF eosSent /\ k = Len(inside) THEN 0
                           ELSE Len(delivered') + Len(coded') + k
    <3>1. Len(delivered') + Len(coded') + k = D + Len(coded) + k
      BY <1>2, <1>3, <2>4
    <3>2. QED
      BY <1>5, <3>1
  <2>8. eosSent => Len(coded') + Len(inside) > 0
    <3>1. eosSent => N > 0
      BY SvtCounts
    <3>2. eosSent => N >= 2
      BY <1>3, <1>7, <3>1
    <3>3. QED
      BY <1>2, <1>3, <3>2
  <2>9. svtReady
    BY <1>1, SvtCounts
  <2>10. eosSent => Taken = MaxPackets
    BY SvtCounts
  <2>11. eosSent <=> svtAt = "flush"
    BY SvtCounts
  <2>12. SvtOrder' /\ MppOrder'
    BY <1>1, <2>2, <2>5, <2>6, <2>7, <2>8, <2>9, <2>10, <2>11
       DEF SvtOrder, MppOrder, SvtReady, SvtStays
  <2>13. EncTypes'
    BY <1>1, <1>2, <2>2 DEF SvtReady, SvtStays, EncReady, EncTold, EncTypes, mppVars
  <2>14. /\ Follows(edge)' /\ Sent' = Sent /\ edge' \in EdgeType
         /\ outcome' \in Statuses \cup {"None"} /\ outcome' = "None"
    BY <2>2, <2>5, Stays DEF SvtReady
  <2>15. EncoderAt' \notin {"done", "refused", "gone"}
    BY <2>2 DEF EncoderAt, SvtReady, SvtStays
  <2>16. QED
    BY <2>2, <2>4, <2>12, <2>13, <2>14, <2>15 DEF EncNext
<1>8. QED
  BY <1>6, <1>7

LEMMA SvtEdgeEnded ==
  ASSUME SvtReady, SvtStays, Svt!SvtEdgeEnded
  PROVE  EncNext
<1>1. /\ svtAt = "pop" /\ edge.buf = << >> /\ edge.end /\ edge \in EdgeType
      /\ UNCHANGED << delivered, closing, svtReady, coded >> /\ ~eosSent
  BY SvtCounts DEF Svt!SvtEdgeEnded
<1>2. /\ coded' \in Seq(Nat) /\ svtReady' \in BOOLEAN
  BY <1>1 DEF SvtReady, EncReady, EncTold, EncTypes
<1>3. /\ Len(delivered) \in Nat /\ Len(coded) \in Nat /\ Len(inside) \in Nat
      /\ inside \in Seq(Nat) /\ Taken = Len(delivered) + Len(coded) + Len(inside)
      /\ \A k \in 1 .. Len(coded) : coded[k] = Len(delivered) + k
      /\ \A k \in 1 .. Len(inside) : inside[k] = Len(delivered) + Len(coded) + k
  BY <1>1, SvtCounts
<1>4. edge.status = "Eof" => Taken = MaxPackets
  <2>1. Len(edge.buf) = 0
    BY <1>1, EmptySeq
  <2>2. edge.status = "Eof" => Taken + Len(edge.buf) = MaxPackets
    BY <1>1 DEF SvtReady, EncReady, Follows
  <2>3. Taken \in Nat
    BY <1>3
  <2>4. QED
    BY <2>1, <2>2, <2>3
<1>5. CASE edge.status # "Eof" /\ Svt!SvtEnds(edge.status, edge) /\ UNCHANGED << eosSent, inside >>
  <2>1. edge.status \in Cuts /\ edge.status # "Ok"
    BY <1>1, <1>5, CutFacts DEF EdgeType
  <2>2. QED
    BY <1>1, <1>2, <1>5, <2>1, SvtFails
<1>6. CASE edge.status = "Eof" /\ ~svtReady /\ Svt!SvtEnds("Ok", edge)
           /\ UNCHANGED << eosSent, inside >>
  <2>1. Len(coded) = 0 /\ Len(inside) = 0
    BY <1>6, SvtCounts, EmptySeq
  <2>2. Len(delivered) = MaxPackets
    BY <1>3, <1>4, <1>6, <2>1
  <2>3. QED
    BY <1>1, <1>2, <1>6, <2>2, SvtFails
<1>7. CASE Svt!SvtEnds("Hw", edge) /\ UNCHANGED << eosSent, inside >>
  <2>1. "Hw" \in Cuts /\ "Hw" # "Ok"
    BY CutFacts
  <2>2. QED
    BY <1>1, <1>2, <1>7, <2>1, SvtFails
<1>8. CASE /\ edge.status = "Eof" /\ svtReady /\ svtAt' = "flush" /\ eosSent' = TRUE
           /\ inside' = Append(inside, 0) /\ UNCHANGED << edge, outcome >>
  <2>1. /\ inside' \in Seq(Nat) /\ Len(inside') = Len(inside) + 1
        /\ \A k \in 1 .. Len(inside) : inside'[k] = inside[k]
        /\ inside'[Len(inside) + 1] = 0
    BY <1>3, <1>8, AppendFacts
  <2>2. Taken' = Taken
    <3>1. Taken' = Len(delivered) + Len(coded) + Len(inside') - 1
      BY <1>1, <1>8 DEF Taken, SvtReady, SvtStays
    <3>2. QED
      BY <1>3, <2>1, <3>1
  <2>3. ASSUME NEW k \in 1 .. Len(coded)
        PROVE  coded[k] = IF k = Len(coded) + Len(inside') THEN 0 ELSE Len(delivered) + k
    <3>1. k # Len(coded) + Len(inside')
      BY <1>3, <2>1
    <3>2. QED
      BY <1>3, <3>1
  <2>4. ASSUME NEW k \in 1 .. Len(inside')
        PROVE  inside'[k] = IF k = Len(inside') THEN 0 ELSE Len(delivered) + Len(coded) + k
    <3>1. k \in 1 .. Len(inside) \/ k = Len(inside) + 1
      BY <1>3, <2>1
    <3>2. k \in 1 .. Len(inside) => k # Len(inside')
      BY <1>3, <2>1
    <3>3. QED
      BY <1>3, <2>1, <3>1, <3>2
  <2>5. Len(coded) + Len(inside') > 0
    BY <1>3, <2>1
  <2>6. EncTypes'
    BY <1>1, <1>2, <1>8, <2>1 DEF SvtReady, SvtStays, EncReady, EncTold, EncTypes, mppVars
  <2>7. SvtOrder'
    BY <1>1, <1>4, <1>8, <2>2, <2>3, <2>4, <2>5 DEF SvtOrder
  <2>8. QED
    BY <1>1, <1>8, <2>2, <2>6, <2>7, SvtUnmoved
<1>9. QED
  BY <1>5, <1>6, <1>7, <1>8 DEF Svt!SvtEdgeEnded, Svt!Eos

LEMMA SvtEncoderStep ==
  ASSUME SvtReady, SvtStays, Svt!SvtStep
  PROVE  EncNext
BY SvtTakes, SvtRefuses, SvtGets, SvtGetsNone, SvtPolls, SvtEdgeEnded DEF Svt!SvtStep

(* SVT finishes a picture, whatever the worker does.                       *)
LEMMA SvtEncodes ==
  ASSUME EncTypes, SvtOrder, encoder = "svt", SvtStays, Svt!SvtEncode
  PROVE  /\ EncTypes'
         /\ delivered \in Seq(Nat) => SvtOrder' /\ Taken' = Taken
<1>1. /\ inside # << >> /\ coded' = Append(coded, Head(inside)) /\ inside' = Tail(inside)
      /\ UNCHANGED << edge, delivered, outcome, closing, svtAt, svtReady, eosSent >>
  BY DEF Svt!SvtEncode, Svt!sinkVars
<1>2. /\ inside \in Seq(Nat) /\ coded \in Seq(Nat)
      /\ Len(inside) \in Nat /\ Len(coded) \in Nat
  BY DEF EncTypes
<1>3. /\ inside' \in Seq(Nat) /\ Len(inside') = Len(inside) - 1 /\ Len(inside) >= 1
      /\ Head(inside) = inside[1] /\ inside[1] \in Nat
      /\ \A k \in 1 .. Len(inside) - 1 : inside'[k] = inside[k + 1]
  BY <1>1, <1>2, TailFacts
<1>4. /\ coded' \in Seq(Nat) /\ Len(coded') = Len(coded) + 1
      /\ \A k \in 1 .. Len(coded) : coded'[k] = coded[k]
      /\ coded'[Len(coded) + 1] = inside[1]
  BY <1>1, <1>2, <1>3, AppendFacts
<1>5. EncTypes'
  BY <1>1, <1>3, <1>4 DEF EncTypes, SvtStays, mppVars
<1>6. SUFFICES ASSUME delivered \in Seq(Nat) PROVE SvtOrder' /\ Taken' = Taken
  BY <1>5
<1>7. Len(coded') + Len(inside') = Len(coded) + Len(inside)
  BY <1>2, <1>3, <1>4
<1>8. Len(delivered) \in Nat
  BY <1>6
<1>9. Taken' = Taken
  <2>1. Len(delivered) + Len(coded') + Len(inside') = Len(delivered) + Len(coded) + Len(inside)
    BY <1>2, <1>3, <1>4, <1>8
  <2>2. QED
    BY <1>1, <2>1 DEF Taken, SvtStays
<1>10. SvtOrder'
  <2>1. SUFFICES ASSUME outcome = "None" PROVE SvtOrder'
    BY <1>1 DEF SvtOrder
  <2>2. /\ eosSent <=> svtAt = "flush"
        /\ ~svtReady => inside = << >> /\ coded = << >>
        /\ eosSent => Taken = MaxPackets /\ Len(coded) + Len(inside) > 0
        /\ \A k \in 1 .. Len(coded) :
             coded[k] = IF eosSent /\ k = Len(coded) + Len(inside) THEN 0
                        ELSE Len(delivered) + k
        /\ \A k \in 1 .. Len(inside) :
             inside[k] = IF eosSent /\ k = Len(inside) THEN 0
                         ELSE Len(delivered) + Len(coded) + k
    BY <2>1 DEF SvtOrder
  <2>3. ASSUME NEW k \in 1 .. Len(coded')
        PROVE  coded'[k] = IF eosSent /\ k = Len(coded) + Len(inside) THEN 0
                           ELSE Len(delivered) + k
    <3>1. k \in 1 .. Len(coded) \/ k = Len(coded) + 1
      BY <1>2, <1>4
    <3>2. CASE k \in 1 .. Len(coded)
      BY <1>4, <2>2, <3>2
    <3>3. CASE k = Len(coded) + 1
      <4>1. 1 \in 1 .. Len(inside)
        BY <1>2, <1>3
      <4>2. inside[1] = IF eosSent /\ 1 = Len(inside) THEN 0
                        ELSE Len(delivered) + Len(coded) + 1
        BY <2>2, <4>1
      <4>3. 1 = Len(inside) <=> Len(coded) + 1 = Len(coded) + Len(inside)
        <5>1. \A a, b \in Nat : 1 = b <=> a + 1 = a + b
          OBVIOUS
        <5>2. QED
          BY <1>2, <5>1
      <4>4. Len(delivered) + Len(coded) + 1 = Len(delivered) + (Len(coded) + 1)
        BY <1>2, <1>8
      <4>5. QED
        BY <1>4, <3>3, <4>2, <4>3, <4>4
    <3>4. QED
      BY <3>1, <3>2, <3>3
  <2>4. ASSUME NEW k \in 1 .. Len(inside')
        PROVE  inside'[k] = IF eosSent /\ k = Len(inside') THEN 0
                            ELSE Len(delivered) + Len(coded') + k
    <3>1. k \in 1 .. Len(inside) - 1 /\ k + 1 \in 1 .. Len(inside)
      BY <1>2, <1>3
    <3>2. inside'[k] = IF eosSent /\ k + 1 = Len(inside) THEN 0
                       ELSE Len(delivered) + Len(coded) + (k + 1)
      BY <1>3, <2>2, <3>1
    <3>3. k + 1 = Len(inside) <=> k = Len(inside')
      BY <1>2, <1>3
    <3>4. Len(delivered) + Len(coded) + (k + 1) = Len(delivered) + Len(coded') + k
      BY <1>2, <1>4, <1>8, <3>1
    <3>5. QED
      BY <3>2, <3>3, <3>4
  <2>5. svtReady
    BY <1>1, <2>2
  <2>6. QED
    BY <1>1, <1>7, <1>9, <2>2, <2>3, <2>4, <2>5 DEF SvtOrder, SvtStays
<1>11. QED
  BY <1>9, <1>10
-----------------------------------------------------------------------------
(* The whole.                                                              *)

LEMMA MppOpens ==
  ASSUME EncReady, encoder = "mpp", MppStays, Mpp!EncOpenNode
  PROVE  EncNext
<1>1. /\ encAt = "closed" /\ edge' = edge
      /\ UNCHANGED << delivered, closing, jobs, outBuf, packets >>
      /\ \/ encAt' = "pop" /\ outcome' = outcome
         \/ encAt' = "refused" /\ outcome' \in {"Format", "Hw"}
  BY DEF Mpp!EncOpenNode
<1>2. EncTypes' /\ InOrder' /\ delivered' \in Seq(Nat) /\ edge' \in EdgeType
  BY <1>1 DEF EncReady, EncTold, EncTypes, EndTypes, InOrder, MppStays, svtVars
<1>3. CASE encAt' = "pop" /\ outcome' = outcome
  <2>1. Taken' = Taken
    BY <1>1, <1>3 DEF Taken, MppStays
  <2>2. MppOrder' /\ SvtOrder'
    BY <1>1, <1>3 DEF EncReady, MppOrder, SvtOrder, MppStays
  <2>3. /\ Follows(edge)' /\ Sent' = Sent /\ edge' \in EdgeType
        /\ outcome' \in Statuses \cup {"None"} /\ outcome' = "None"
    BY <1>1, <1>3, <2>1, Stays
  <2>4. EncoderAt' \notin {"done", "refused", "gone"} /\ StreamStep
    BY <1>1, <1>3 DEF EncoderAt, MppStays, StreamStep
  <2>5. QED
    BY <1>1, <1>2, <2>2, <2>3, <2>4 DEF EncNext
<1>4. CASE encAt' = "refused" /\ outcome' \in {"Format", "Hw"}
  <2>1. outcome' \in Cuts /\ outcome' \in Statuses /\ outcome' # "None"
    BY <1>4, CutFacts
  <2>2. Carrier!Conclude(outcome')
    BY <1>1, <2>1 DEF Carrier!Conclude, EncReady, Cuts
  <2>3. EncoderAt' = "refused"
    BY <1>4 DEF EncoderAt, MppStays
  <2>4. QED
    BY <1>1, <1>2, <2>1, <2>2, <2>3 DEF EncNext, MppOrder, SvtOrder, StreamStep
<1>5. QED
  BY <1>1, <1>3, <1>4

LEMMA SvtOpens ==
  ASSUME EncReady, encoder = "svt", SvtStays, Svt!SvtOpen
  PROVE  EncNext
<1>1. /\ svtAt = "closed" /\ svtAt' = "pop"
      /\ UNCHANGED << edge, delivered, outcome, closing, svtReady, eosSent, inside, coded >>
  BY DEF Svt!SvtOpen, Svt!sinkVars
<1>2. EncTypes' /\ InOrder' /\ delivered' \in Seq(Nat) /\ edge' \in EdgeType
  BY <1>1 DEF EncReady, EncTold, EncTypes, EndTypes, InOrder, SvtStays, mppVars
<1>3. Taken' = Taken
  BY <1>1 DEF Taken, SvtStays
<1>4. MppOrder' /\ SvtOrder'
  BY <1>1, <1>3 DEF EncReady, MppOrder, SvtOrder, SvtStays
<1>5. /\ Follows(edge)' /\ Sent' = Sent /\ edge' \in EdgeType
      /\ outcome' \in Statuses \cup {"None"} /\ outcome' = "None"
  BY <1>1, <1>3, Stays
<1>6. EncoderAt' \notin {"done", "refused", "gone"} /\ StreamStep
  BY <1>1 DEF EncoderAt, SvtStays, StreamStep
<1>7. QED
  BY <1>1, <1>2, <1>4, <1>5, <1>6 DEF EncNext

(* A device works for either encoder.                                      *)
LEMMA EncodersWork ==
  ASSUME EncReady, EncoderAt \notin {"done", "refused", "gone"},
         \/ encoder = "mpp" /\ MppStays /\ Mpp!MppEncode
         \/ encoder = "svt" /\ SvtStays /\ Svt!SvtEncode
  PROVE  EncNext
<1>1. UNCHANGED << edge, delivered, outcome, encoder, closing, encAt, svtAt >>
  BY DEF Mpp!MppEncode, Mpp!sinkVars, Svt!SvtEncode, Svt!sinkVars, MppStays, SvtStays,
         mppVars, svtVars
<1>2. EncTypes' /\ MppOrder' /\ SvtOrder' /\ Taken' = Taken
  <2>1. CASE encoder = "mpp" /\ MppStays /\ Mpp!MppEncode
    <3>1. EncTypes' /\ MppOrder' /\ Taken' = Taken
      BY <2>1, MppEncodes DEF EncReady, EncTold
    <3>2. SvtOrder'
      BY <1>1, <2>1 DEF SvtOrder
    <3>3. QED
      BY <3>1, <3>2
  <2>2. CASE encoder = "svt" /\ SvtStays /\ Svt!SvtEncode
    <3>1. EncTypes' /\ SvtOrder' /\ Taken' = Taken
      BY <2>2, SvtEncodes DEF EncReady, EncTold, EndTypes
    <3>2. MppOrder'
      BY <1>1, <2>2 DEF MppOrder
    <3>3. QED
      BY <3>1, <3>2
  <2>3. QED
    BY <2>1, <2>2
<1>3. /\ Follows(edge)' /\ Sent' = Sent /\ edge' \in EdgeType
      /\ outcome' \in Statuses \cup {"None"} /\ outcome' = "None"
  BY <1>1, <1>2, Stays
<1>4. InOrder' /\ delivered' \in Seq(Nat) /\ StreamStep
  BY <1>1 DEF InOrder, StreamStep, EncReady, EncTold, EndTypes
<1>5. EncoderAt' \notin {"done", "refused", "gone"}
  BY <1>1 DEF EncoderAt
<1>6. QED
  BY <1>1, <1>2, <1>3, <1>4, <1>5 DEF EncNext

(* The decoder sees of an encoder's step only that nothing is lost.        *)
LEMMA AfterEncoder ==
  ASSUME TcInv, outcome = "None", UNCHANGED decVars, closing' \in BOOLEAN,
         decAt = "closed" => EncoderAt' = "closed", EncNext
  PROVE  TcInv'
<1>1. /\ decAt' = decAt /\ hand' = hand /\ devIn' = devIn /\ kept' = kept
      /\ devOut' = devOut /\ geometry' = geometry /\ fed' = fed /\ ready' = ready
  BY DEF decVars
<1>2. decAt \notin {"refused", "gone"}
  BY DEF TcInv, Control
<1>3. Control'
  BY <1>1, <1>2 DEF TcInv, Control, EncNext
<1>4. ASSUME outcome' = "None" PROVE Carrying'
  <2>1. Sent' = Sent /\ Follows(edge)'
    BY <1>4 DEF EncNext
  <2>2. DecTypes' /\ EncTypes' /\ EndTypes' /\ InOrder' /\ MppOrder' /\ SvtOrder'
    BY <1>1 DEF TcInv, Carrying, EncNext, DecTypes, EndTypes
  <2>3. Shown' = Shown /\ InHand' = InHand /\ Decoded' = Decoded /\ Unput' = Unput
        /\ (Decoding' <=> Decoding)
    BY <1>1, <2>1 DEF Shown, InHand, Decoded, Unput, Decoding
  <2>4. Decoding' => Places'
    BY <1>1, <2>1, <2>3 DEF TcInv, Carrying, Places
  <2>5. Decoding' => Marks'
    BY <1>1, <2>1, <2>3 DEF TcInv, Carrying, Marks
  <2>6. edge'.end /\ edge'.status = "Eof" => decAt' = "done"
    BY <1>1 DEF TcInv, Carrying, EncNext
  <2>7. QED
    BY <2>1, <2>2, <2>4, <2>5, <2>6 DEF Carrying
<1>5. QED
  BY <1>3, <1>4 DEF TcInv

(* An encoder sees of the decoder's step what it has put on the edge.      *)
LEMMA AfterDecoder ==
  ASSUME TcInv, outcome = "None", DecoderOnly, DecTypes', edge' \in EdgeType,
         Follows(edge)', Decoding' => Places' /\ Marks',
         edge'.end /\ edge'.status = "Eof" => decAt' = "done",
         decAt' \notin {"closed", "refused", "gone"} \/ decAt' = decAt,
         hand' # Dec!NoFrame => decAt' \in {"full", "drain", "flush"}
  PROVE  TcInv'
<1>1. /\ encoder' = encoder /\ delivered' = delivered /\ outcome' = outcome
      /\ closing' = closing /\ encAt' = encAt /\ jobs' = jobs /\ outBuf' = outBuf
      /\ packets' = packets /\ svtAt' = svtAt /\ svtReady' = svtReady
      /\ eosSent' = eosSent /\ inside' = inside /\ coded' = coded
  BY DEF DecoderOnly, sinkVars, mppVars, svtVars
<1>2. EncoderAt' = EncoderAt /\ Taken' = Taken
  BY <1>1 DEF EncoderAt, Taken
<1>3. Control'
  BY <1>1, <1>2 DEF TcInv, Control
<1>4. EncTypes' /\ EndTypes' /\ InOrder' /\ MppOrder'
  BY <1>1 DEF TcInv, Carrying, EncTypes, EndTypes, InOrder, MppOrder
<1>5. SvtOrder'
  BY <1>1, <1>2 DEF TcInv, Carrying, SvtOrder
<1>6. QED
  BY <1>3, <1>4, <1>5 DEF TcInv, Carrying

LEMMA ReadyToEncode ==
  ASSUME TcInv, outcome = "None"
  PROVE  EncReady
BY DEF TcInv, Carrying, EncReady, EncTold

LEMMA ReadyToDecode ==
  ASSUME TcInv, outcome = "None", Decoding
  PROVE  DecReady
<1>1. Taken \in Nat
  BY ReadyToEncode, TakenFacts
<1>2. QED
  BY <1>1 DEF TcInv, Carrying, DecReady, EndTypes, Decoding
(* The worker alone takes a frame in hand, and lets go of it before it     *)
(* does anything else.                                                     *)
LEMMA HandStep ==
  ASSUME Dec!DecStep, decAt \notin {"closed", "refused", "gone"},
         hand # Dec!NoFrame => decAt \in {"full", "drain", "flush", "gone"}
  PROVE  /\ Decoding
         /\ hand' # Dec!NoFrame => decAt' \in {"full", "drain", "flush"}
         /\ decAt' # "closed"
<1>1. CASE Dec!DecTake
  BY <1>1 DEF Dec!DecTake, Dec!DecEnds, Dec!EndsWith, Decoding
<1>2. CASE Dec!DecPut
  BY <1>2 DEF Dec!DecPut, Dec!DecEnds, Dec!EndsWith, Decoding
<1>3. CASE Dec!DecFlush
  BY <1>3 DEF Dec!DecFlush, Dec!DecEnds, Dec!EndsWith, Decoding
<1>4. CASE Dec!DecGet
  <2>1. /\ decAt \in {"full", "drain", "flush"} /\ hand = Dec!NoFrame
        /\ \/ decAt' = decAt
           \/ hand' = hand /\ (Dec!DecEnds("Hw") \/ Dec!DrainOk(edge))
    BY <1>4 DEF Dec!DecGet, Dec!Draining
  <2>2. Dec!DrainOk(edge) \/ Dec!DecEnds("Hw") => decAt' \in {"done", "put", "pop"}
    BY DEF Dec!DrainOk, Dec!DecEnds, Dec!EndsWith
  <2>3. QED
    BY <2>1, <2>2 DEF Decoding
<1>5. CASE Dec!DecGetNone
  <2>1. decAt \in {"full", "drain", "flush"} /\ hand' = hand /\ hand = Dec!NoFrame
    BY <1>5 DEF Dec!DecGetNone, Dec!Draining
  <2>2. decAt' \in {"done", "put", "pop"}
    BY <1>5, <2>1 DEF Dec!DecGetNone, Dec!NapOrGiveUp, Dec!DecEnds, Dec!EndsWith
  <2>3. QED
    BY <2>1, <2>2 DEF Decoding
<1>6. CASE Dec!DecEmit
  <2>1. decAt \in {"full", "drain", "flush"} /\ hand' = Dec!NoFrame
    BY <1>6 DEF Dec!DecEmit
  <2>2. decAt' \in {"done", "put", "pop"} \/ decAt' = decAt
    BY <1>6 DEF Dec!DecEmit, Dec!DrainOk, Dec!EndsWith
  <2>3. QED
    BY <2>1, <2>2 DEF Decoding
<1>7. CASE Dec!DecEmitFails
  <2>1. decAt \in {"full", "drain", "flush"} /\ hand' = Dec!NoFrame
    BY <1>7 DEF Dec!DecEmitFails
  <2>2. decAt' = "done"
    BY <1>7 DEF Dec!DecEmitFails, Dec!DecEnds, Dec!EndsWith
  <2>3. QED
    BY <2>1, <2>2 DEF Decoding
<1>8. QED
  BY <1>1, <1>2, <1>3, <1>4, <1>5, <1>6, <1>7 DEF Dec!DecStep

LEMMA DecoderWorksStep ==
  ASSUME TcInv, DecoderWorks
  PROVE  TcInv' /\ StreamStep
<1>1. /\ Dec!DecStep /\ DecoderOnly /\ decAt \notin {"closed", "refused", "gone"}
      /\ EncoderAt \notin {"closed", "refused", "gone"}
  BY DEF DecoderWorks, Launched
<1>2. /\ Decoding /\ decAt' # "closed"
      /\ hand' # Dec!NoFrame => decAt' \in {"full", "drain", "flush"}
  BY <1>1, HandStep DEF TcInv, Control
<1>3. /\ delivered' = delivered /\ outcome' = outcome
      /\ EncoderAt' = EncoderAt /\ Taken' = Taken
  BY <1>1 DEF DecoderOnly, sinkVars, mppVars, svtVars, EncoderAt, Taken
<1>4. CASE outcome = "None"
  <2>1. DecNext
    BY <1>1, <1>2, <1>3, <1>4, ReadyToDecode, DecoderStep
  <2>2. TcInv'
    BY <1>1, <1>2, <1>4, <2>1, AfterDecoder DEF DecNext
  <2>3. QED
    BY <1>3, <2>2 DEF StreamStep
<1>5. CASE outcome # "None"
  BY <1>1, <1>2, <1>3, <1>5 DEF TcInv, Control, StreamStep
<1>6. QED
  BY <1>4, <1>5

LEMMA DecoderDeviceStep ==
  ASSUME TcInv, DecoderDevice
  PROVE  TcInv' /\ StreamStep
<1>1. Dec!MppStep /\ DecoderOnly
  BY DEF DecoderDevice
<1>2. UNCHANGED << edge, decAt, hand >>
  BY <1>1 DEF Dec!MppStep, Dec!MppAnnounce, Dec!MppDecode, Dec!MppDeliver, Dec!MppEnd,
         Dec!workerVars
<1>3. /\ delivered' = delivered /\ outcome' = outcome
      /\ EncoderAt' = EncoderAt /\ Taken' = Taken
  BY <1>1 DEF DecoderOnly, sinkVars, mppVars, svtVars, EncoderAt, Taken
<1>4. CASE outcome = "None"
  <2>1. DecTypes' /\ Follows(edge)' /\ edge' \in EdgeType
    BY <1>1, <1>2, <1>3, <1>4, DeviceTypes DEF TcInv, Carrying, EndTypes, Follows
  <2>2. Decoding' => Decoding
    BY <1>2 DEF Decoding
  <2>3. Decoding' => Places' /\ Marks'
    BY <1>1, <1>3, <1>4, <2>2, ReadyToDecode, DeviceStep
  <2>4. decAt # "gone"
    BY <1>4 DEF TcInv, Control
  <2>5. /\ edge'.end /\ edge'.status = "Eof" => decAt' = "done"
        /\ hand' # Dec!NoFrame => decAt' \in {"full", "drain", "flush"}
    BY <1>2, <1>4, <2>4 DEF TcInv, Control, Carrying
  <2>6. TcInv'
    BY <1>1, <1>2, <1>4, <2>1, <2>3, <2>5, AfterDecoder
  <2>7. QED
    BY <1>3, <2>6 DEF StreamStep
<1>5. CASE outcome # "None"
  BY <1>2, <1>3, <1>5 DEF TcInv, Control, StreamStep
<1>6. QED
  BY <1>4, <1>5

LEMMA OpenDecoderStep ==
  ASSUME TcInv, OpenDecoder
  PROVE  TcInv' /\ StreamStep
<1>1. /\ decAt = "closed" /\ Dec!DecOpen
      /\ outcome' = IF decAt' = "refused" THEN decStatus' ELSE outcome
      /\ UNCHANGED << encoder, delivered, closing, mppVars, svtVars >>
      /\ UNCHANGED << edge, fed, naps, moved, hand, devIn, kept, devOut, geometry, content >>
  BY DEF OpenDecoder, Dec!DecOpen, Dec!deviceVars
<1>2. EncoderAt = "closed" /\ outcome = "None" /\ hand = Dec!NoFrame
  BY <1>1 DEF TcInv, Control
<1>3. EncoderAt' = EncoderAt /\ Taken' = Taken
  BY <1>1 DEF mppVars, svtVars, EncoderAt, Taken
<1>4. CASE decAt' = "pop" /\ ready' \in BOOLEAN
  <2>1. DecReady /\ fed = 0
    BY <1>1, <1>2, ReadyToDecode DEF Decoding, DecReady, Places
  <2>2. DecTypes'
    BY <1>1, <1>4, <2>1 DEF DecReady, DecTypes
  <2>3. fed' - Unput' = fed - Unput /\ Unmoved
    BY <1>1, <1>3, <1>4 DEF Unput, Unmoved
  <2>4. DecNext
    BY <1>1, <1>4, <2>1, <2>2, <2>3, DecUnmoved
  <2>5. outcome' = outcome /\ DecoderOnly
    BY <1>1, <1>4 DEF DecoderOnly, sinkVars
  <2>6. TcInv'
    BY <1>1, <1>2, <1>4, <2>4, <2>5, AfterDecoder DEF DecNext
  <2>7. QED
    BY <1>1, <2>5, <2>6 DEF StreamStep
<1>5. CASE decAt' = "refused" /\ decStatus' = "Hw"
  <2>1. outcome' = "Hw" /\ "Hw" \in Cuts /\ "Hw" \in Statuses /\ outcome' # "None"
    BY <1>1, <1>5, CutFacts
  <2>2. Carrier!Conclude("Hw")
    BY <1>1, <1>2, <2>1 DEF Carrier!Conclude, Cuts
  <2>3. TcInv'
    BY <1>1, <1>2, <1>3, <1>5, <2>1 DEF TcInv, Control
  <2>4. QED
    BY <2>1, <2>2, <2>3 DEF StreamStep
<1>6. QED
  BY <1>1, <1>4, <1>5 DEF Dec!DecOpen

(* An encoder's worker runs only as long as its reader waits.              *)
LEMMA EncoderWorksStep ==
  ASSUME TcInv, EncoderWorks
  PROVE  TcInv' /\ StreamStep
<1>1. /\ decAt \notin {"closed", "refused", "gone"}
      /\ EncoderAt \notin {"closed", "refused", "gone"}
      /\ \/ MppOnly /\ Mpp!EncStep
         \/ SvtOnly /\ Svt!SvtStep
  BY DEF EncoderWorks, Launched
<1>2. CASE MppOnly /\ Mpp!EncStep
  <2>1. encoder = "mpp" /\ MppStays /\ UNCHANGED decVars /\ closing' = closing
    BY <1>2 DEF MppOnly, MppStays, Mpp!EncStep, Mpp!EncTake, Mpp!EncRefuse, Mpp!EncGet,
       Mpp!EncGetEos, Mpp!EncStalled, Mpp!EncEmitRefused, Mpp!EncEdgeEnded
  <2>2. encAt \in {"pop", "code", "eos"}
    BY <1>2 DEF Mpp!EncStep, Mpp!EncTake, Mpp!EncRefuse, Mpp!EncGet,
       Mpp!EncGetEos, Mpp!EncStalled, Mpp!EncEmitRefused, Mpp!EncEdgeEnded
  <2>3. outcome = "None"
    BY <1>1, <2>1, <2>2 DEF TcInv, Control, EncoderAt
  <2>4. EncNext
    BY <1>2, <2>1, <2>2, <2>3, ReadyToEncode, MppEncoderStep DEF MppReady
  <2>5. closing' \in BOOLEAN
    BY <2>1, <2>3 DEF TcInv, Carrying, EndTypes
  <2>6. QED
    BY <1>1, <2>1, <2>3, <2>4, <2>5, AfterEncoder DEF EncNext
<1>3. CASE SvtOnly /\ Svt!SvtStep
  <2>1. encoder = "svt" /\ SvtStays /\ UNCHANGED decVars /\ closing' = closing
    BY <1>3 DEF SvtOnly, SvtStays, Svt!SvtStep, Svt!SvtTake, Svt!SvtRefuse, Svt!SvtGet,
       Svt!SvtGetFails, Svt!SvtPollEmpty, Svt!SvtEdgeEnded
  <2>2. svtAt \in {"pop", "drain", "flush"}
    BY <1>3 DEF Svt!SvtStep, Svt!SvtTake, Svt!SvtRefuse, Svt!SvtGet,
       Svt!SvtGetFails, Svt!SvtPollEmpty, Svt!SvtEdgeEnded
  <2>3. outcome = "None"
    BY <1>1, <2>1, <2>2 DEF TcInv, Control, EncoderAt
  <2>4. EncNext
    BY <1>3, <2>1, <2>2, <2>3, ReadyToEncode, SvtEncoderStep DEF SvtReady
  <2>5. closing' \in BOOLEAN
    BY <2>1, <2>3 DEF TcInv, Carrying, EndTypes
  <2>6. QED
    BY <1>1, <2>1, <2>3, <2>4, <2>5, AfterEncoder DEF EncNext
<1>4. QED
  BY <1>1, <1>2, <1>3

LEMMA OpenEncoderStep ==
  ASSUME TcInv, OpenEncoder
  PROVE  TcInv' /\ StreamStep
<1>1. decAt = "pop" /\ ((MppOnly /\ Mpp!EncOpenNode) \/ (SvtOnly /\ Svt!SvtOpen))
  BY DEF OpenEncoder
<1>2. /\ EncoderAt = "closed" /\ UNCHANGED decVars /\ closing' = closing
      /\ \/ encoder = "mpp" /\ MppStays /\ Mpp!EncOpenNode
         \/ encoder = "svt" /\ SvtStays /\ Svt!SvtOpen
  BY <1>1 DEF MppOnly, SvtOnly, Mpp!EncOpenNode, Svt!SvtOpen, EncoderAt, MppStays, SvtStays
<1>3. outcome = "None"
  BY <1>1, <1>2 DEF TcInv, Control
<1>4. EncNext
  BY <1>2, <1>3, ReadyToEncode, MppOpens, SvtOpens
<1>5. closing' \in BOOLEAN
  BY <1>2, <1>3 DEF TcInv, Carrying, EndTypes
<1>6. QED
  BY <1>1, <1>2, <1>3, <1>4, <1>5, AfterEncoder DEF EncNext

LEMMA EncoderDeviceStep ==
  ASSUME TcInv, EncoderDevice \/ SvtLibrary
  PROVE  TcInv' /\ StreamStep
<1>1. /\ UNCHANGED decVars
      /\ \/ encoder = "mpp" /\ MppStays /\ Mpp!MppEncode
         \/ encoder = "svt" /\ SvtStays /\ Svt!SvtEncode
  BY DEF EncoderDevice, SvtLibrary, MppOnly, SvtOnly, MppStays, SvtStays
<1>2. UNCHANGED << edge, delivered, outcome, encoder, closing, encAt, svtAt >>
  BY <1>1 DEF Mpp!MppEncode, Mpp!sinkVars, Svt!SvtEncode, Svt!sinkVars, MppStays, SvtStays,
         mppVars, svtVars
<1>3. EncoderAt' = EncoderAt
  BY <1>2 DEF EncoderAt
<1>4. CASE outcome = "None"
  <2>1. EncoderAt \notin {"done", "refused", "gone"}
    BY <1>4 DEF TcInv, Control
  <2>2. EncNext
    BY <1>1, <1>4, <2>1, ReadyToEncode, EncodersWork
  <2>3. closing' \in BOOLEAN /\ (decAt = "closed" => EncoderAt' = "closed")
    BY <1>2, <1>3, <1>4 DEF TcInv, Control, Carrying, EndTypes
  <2>4. QED
    BY <1>1, <1>4, <2>2, <2>3, AfterEncoder DEF EncNext
<1>5. CASE outcome # "None"
  BY <1>1, <1>2, <1>3, <1>5 DEF TcInv, Control, StreamStep, decVars
<1>6. QED
  BY <1>4, <1>5

(* Closing touches nothing that is on its way.                             *)
LEMMA CloseStep ==
  ASSUME TcInv, CloseOutput \/ CloseEdge
  PROVE  TcInv' /\ StreamStep
<1>1. /\ UNCHANGED << decVars, encoder, sinkVars, mppVars, svtVars >>
      /\ closing' \in {closing, TRUE}
      /\ edge' = edge \/ (~edge.end /\ edge' = Cancel(edge, "Canceled"))
  BY DEF CloseOutput, CloseEdge
<1>2. outcome' = outcome /\ delivered' = delivered
  BY <1>1 DEF sinkVars
<1>3. /\ EncoderAt' = EncoderAt /\ Taken' = Taken
      /\ hand' = hand /\ decAt' = decAt
  BY <1>1 DEF decVars, sinkVars, mppVars, svtVars, EncoderAt, Taken
<1>4. CASE outcome = "None"
  <2>1. /\ edge \in EdgeType /\ closing \in BOOLEAN /\ Follows(edge)
    BY <1>4 DEF TcInv, Carrying, EndTypes
  <2>2. /\ edge' \in EdgeType /\ edge'.buf = edge.buf
        /\ edge'.end /\ edge'.status = "Eof" => edge.end /\ edge.status = "Eof"
    <3>1. "Canceled" \in Statuses
      BY CutFacts
    <3>2. QED
      BY <1>1, <2>1, <3>1, CancelFacts
  <2>3. Follows(edge)' /\ Sent' = Sent
    BY <1>3, <2>1, <2>2 DEF Follows, Sent
  <2>4. EncTypes' /\ InOrder' /\ delivered' \in Seq(Nat)
    BY <1>1, <1>2, <1>4
       DEF TcInv, Carrying, EncTypes, EndTypes, InOrder, mppVars, svtVars
  <2>5. MppOrder' /\ SvtOrder'
    BY <1>1, <1>2, <1>3, <1>4
       DEF TcInv, Carrying, MppOrder, SvtOrder, mppVars, svtVars
  <2>6. EncoderAt' \notin {"done", "refused", "gone"}
    BY <1>3, <1>4 DEF TcInv, Control
  <2>7. EncNext
    BY <1>2, <1>4, <2>2, <2>3, <2>4, <2>5, <2>6 DEF EncNext, StreamStep
  <2>8. closing' \in BOOLEAN /\ (decAt = "closed" => EncoderAt' = "closed")
    BY <1>1, <1>3, <2>1 DEF TcInv, Control
  <2>9. QED
    BY <1>1, <1>4, <2>7, <2>8, AfterEncoder DEF EncNext
<1>5. CASE outcome # "None"
  BY <1>2, <1>3, <1>5 DEF TcInv, Control, StreamStep
<1>6. QED
  BY <1>4, <1>5

(* Nodes are closed only when the reader has been told the end.            *)
LEMMA CloseNodesStep ==
  ASSUME TcInv, CloseNodes
  PROVE  TcInv' /\ StreamStep
<1>1. outcome # "None" /\ decAt # "closed"
  BY DEF CloseNodes, Joined, Refused, TcInv, Control
<1>2. CASE Dec!DecClose /\ DecoderOnly
  <2>1. /\ decAt' = "gone" /\ outcome' = outcome /\ delivered' = delivered
    BY <1>2 DEF Dec!DecClose, DecoderOnly, sinkVars
  <2>2. QED
    BY <1>1, <2>1 DEF TcInv, Control, StreamStep
<1>3. CASE (MppOnly /\ Mpp!EncClose) \/ (SvtOnly /\ Svt!SvtClose)
  <2>1. /\ EncoderAt' = "gone" /\ outcome' = outcome /\ delivered' = delivered
        /\ decAt' = decAt /\ hand' = hand
    BY <1>3 DEF MppOnly, SvtOnly, Mpp!EncClose, Svt!SvtClose, Mpp!sinkVars, Svt!sinkVars,
       EncoderAt, decVars
  <2>2. QED
    BY <1>1, <2>1 DEF TcInv, Control, StreamStep
<1>4. QED
  BY <1>2, <1>3 DEF CloseNodes

LEMMA Begins == TcInit => TcInv
<1> SUFFICES ASSUME TcInit PROVE TcInv
  OBVIOUS
<1>1. /\ edge = EmptyQueue /\ encoder \in {"mpp", "svt"} /\ delivered = << >>
      /\ outcome = "None" /\ closing = FALSE
      /\ decAt = "closed" /\ fed = 0 /\ ready = FALSE /\ hand = Dec!NoFrame
      /\ devIn = << >> /\ kept = << >> /\ devOut = << >> /\ geometry = "unknown"
      /\ encAt = "closed" /\ jobs = << >> /\ outBuf = 0 /\ packets = << >>
      /\ svtAt = "closed" /\ svtReady = FALSE /\ eosSent = FALSE
      /\ inside = << >> /\ coded = << >>
  BY DEF TcInit, Dec!DecInit, Mpp!EncInit, Svt!SvtInit
<1>2. MaxPackets \in Nat
  BY BoundsAssumption
<1>3. EncoderAt = "closed"
  BY <1>1 DEF EncoderAt
<1>4. Control
  BY <1>1, <1>3 DEF Control
<1>5. /\ edge \in EdgeType /\ edge.buf = << >> /\ ~edge.end
  BY <1>1, EmptySeq DEF EmptyQueue, EdgeType
<1>6. /\ Len(edge.buf) = 0 /\ Len(delivered) = 0 /\ Len(devIn) = 0 /\ Len(kept) = 0
      /\ Len(devOut) = 0 /\ Len(coded) = 0 /\ Len(inside) = 0 /\ 1 .. 0 = {}
  BY <1>1, <1>5
<1>7. Dec!NoFrame \in FrameType /\ Dec!NoFrame.pic = 0 /\ ~Dec!NoFrame.info /\ ~Dec!NoFrame.eos
  BY DEF Dec!NoFrame, Dec!Picture, FrameType
<1>8. DecTypes /\ EncTypes /\ EndTypes
  <2>1. /\ << >> \in Seq(Nat) /\ << >> \in Seq(FrameType)
        /\ << >> \in Seq(JobType) /\ << >> \in Seq(PacketType)
    BY EmptySeq
  <2>2. DecTypes
    <3>1. 0 \in Nat /\ 0 <= MaxPackets
      BY <1>2
    <3>2. fed \in Nat /\ fed <= MaxPackets
      BY <1>1, <3>1
    <3>3. QED
      BY <1>1, <1>7, <2>1, <3>2 DEF DecTypes
  <2>3. EncTypes
    BY <1>1, <2>1 DEF EncTypes
  <2>4. EndTypes
    BY <1>1, <1>5, <2>1 DEF EndTypes
  <2>5. QED
    BY <2>2, <2>3, <2>4
<1>9. Taken = 0 /\ Sent = 0
  BY <1>1, <1>6 DEF Taken, Sent
<1>10. Shown = 0 /\ InHand = 0 /\ Unput = 0
  BY <1>1, <1>6, <1>7 DEF Shown, InHand, Unput
<1>11. Decoded = 0
  BY <1>6, <1>9, <1>10 DEF Decoded
<1>12. InOrder /\ Follows(edge)
  <2>1. 1 .. Len(edge.buf) = {} /\ 1 .. Len(delivered) = {}
    BY ONLY <1>6
  <2>2. Taken + Len(edge.buf) <= MaxPackets
    BY <1>2, <1>6, <1>9
  <2>3. QED
    BY <1>5, <2>1, <2>2 DEF InOrder, Follows
<1>13. MppOrder /\ SvtOrder
  <2>1. 1 .. Len(coded) = {} /\ 1 .. Len(inside) = {}
    BY ONLY <1>6
  <2>2. QED
    BY <1>1, <2>1 DEF MppOrder, SvtOrder
<1>14. Places
  <2>1. 1 .. Shown = {} /\ 1 .. Len(kept) = {} /\ 1 .. Len(devIn) = {}
    BY ONLY <1>6, <1>10
  <2>2. Decoded + Len(devIn) = fed - Unput
    BY <1>1, <1>6, <1>10, <1>11
  <2>3. QED
    BY <1>1, <1>7, <2>1, <2>2 DEF Places
<1>15. Marks
  <2>1. 1 .. Len(kept) = {} /\ 1 .. Len(devOut) = {}
    BY ONLY <1>6
  <2>2. QED
    BY <1>1, <1>7, <1>11, <2>1 DEF Marks
<1>16. QED
  BY <1>4, <1>5, <1>8, <1>12, <1>13, <1>14, <1>15 DEF TcInv, Carrying

LEMMA Goes ==
  ASSUME TcInv, [TcNext]_tcVars
  PROVE  TcInv' /\ StreamStep
<1>1. CASE UNCHANGED tcVars
  <2>1. /\ UNCHANGED << edge, encoder, closing >>
        /\ UNCHANGED decVars /\ UNCHANGED sinkVars /\ UNCHANGED mppVars /\ UNCHANGED svtVars
    BY <1>1 DEF tcVars
  <2>2. /\ outcome' = outcome /\ delivered' = delivered /\ hand' = hand /\ decAt' = decAt
        /\ EncoderAt' = EncoderAt
    BY <2>1 DEF sinkVars, decVars, mppVars, svtVars, EncoderAt
  <2>3. CASE outcome = "None"
    <3>1. /\ DecTypes' /\ edge' \in EdgeType /\ Follows(edge)'
      BY <2>1, <2>3 DEF TcInv, Carrying, DecTypes, EndTypes, Follows, Taken, decVars,
         sinkVars, mppVars, svtVars
    <3>2. Decoding' => Places' /\ Marks'
      <4>1. /\ hand' = hand /\ devOut' = devOut /\ kept' = kept /\ devIn' = devIn
            /\ fed' = fed /\ ready' = ready /\ geometry' = geometry
        BY <2>1 DEF decVars
      <4>2. Taken' = Taken
        BY <2>1 DEF Taken, sinkVars, mppVars, svtVars
      <4>3. /\ Sent' = Sent /\ InHand' = InHand /\ Shown' = Shown /\ Decoded' = Decoded
            /\ Unput' = Unput /\ (Decoding' <=> Decoding)
        BY <2>1, <2>2, <4>1, <4>2 DEF Sent, InHand, Shown, Decoded, Unput, Decoding
      <4>4. Decoding' => Places'
        BY <2>2, <2>3, <4>1, <4>3 DEF TcInv, Carrying, Places
      <4>5. Decoding' => Marks'
        BY <2>2, <2>3, <4>1, <4>3 DEF TcInv, Carrying, Marks
      <4>6. QED
        BY <4>4, <4>5
    <3>3. decAt # "gone"
      BY <2>3 DEF TcInv, Control
    <3>4. QED
      BY <2>1, <2>2, <2>3, <3>1, <3>2, <3>3, AfterDecoder
         DEF TcInv, Control, Carrying, DecoderOnly, StreamStep
  <2>4. CASE outcome # "None"
    BY <2>2, <2>4 DEF TcInv, Control, StreamStep
  <2>5. QED
    BY <2>3, <2>4
<1>2. CASE TcNext
  BY <1>2, DecoderWorksStep, DecoderDeviceStep, OpenDecoderStep, EncoderWorksStep,
     OpenEncoderStep, EncoderDeviceStep, CloseStep, CloseNodesStep DEF TcNext, SessionStep
<1>3. QED
  BY <1>1, <1>2

LEMMA TcInvariance == Spec => []TcInv
<1>1. TcInit => TcInv
  BY Begins
<1>2. TcInv /\ [TcNext]_tcVars => TcInv'
  BY Goes
<1>3. QED
  BY <1>1, <1>2, PTL DEF Spec

(* Whichever encoder the planner chose, whatever the hardware does and     *)
(* whenever the session is closed: the pictures leave in order, each once, *)
(* and the reader is told a clean end only behind the last of them; any    *)
(* error or the close may cut the stream off.                              *)
THEOREM TranscodeIsAStream == Spec => ChainCarriesStream
<1>1. TcInit => Carrier!Init
  BY BoundsAssumption DEF TcInit, Carrier!Init
<1>2. TcInv /\ [TcNext]_tcVars => [Carrier!Next]_(Carrier!vars)
  <2>1. TcInv /\ [TcNext]_tcVars => StreamStep
    BY Goes
  <2>2. StreamStep => [Carrier!Next]_(Carrier!vars)
    BY DEF StreamStep, Carrier!Next, Carrier!vars
  <2>3. QED
    BY <2>1, <2>2
<1>3. QED
  BY <1>1, <1>2, TcInvariance, PTL DEF Spec, ChainCarriesStream, Carrier!Spec
=============================================================================
