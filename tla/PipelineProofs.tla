--------------------------- MODULE PipelineProofs ---------------------------
(***************************************************************************)
(* Proofs about Pipeline, for every number of nodes, capacity, lookahead   *)
(* and number of frames, and for queue and file endpoints alike.  First    *)
(* the inductive invariant and what follows from it; then how a session    *)
(* ends: what wait() returns is what pull() reports, the last edge is      *)
(* drained (both for an open session whose frames are pulled, as a file    *)
(* sink can fail on its own account after another worker did), and the     *)
(* session carries a stream.                                               *)
(***************************************************************************)
EXTENDS Pipeline, FiniteSetTheorems, SequenceTheorems, TLAPS

(* The constants' types as the proofs use them.                            *)
LEMMA ConstantTypes ==
  /\ NodeCount \in Nat /\ NodeCount >= 2
  /\ MaxFrames \in Nat /\ Lookahead \in Nat
  /\ Capacity \in Nat /\ Capacity >= 1
  /\ \A s \in Errors : s \notin {"Ok", "Again", "Eof", "None"}
  /\ Sink \in Workers /\ OutQ \in Queues /\ 0 \in Queues /\ 0 \in Workers
  /\ \A w \in Workers : w \in Queues /\ w + 1 \in Queues
BY NodeCountAssumption, MaxFramesAssumption, LookaheadAssumption, NodeContract,
   CapacityAssumption
   DEF Capacity, Errors, Benign, Sink, Workers, OutQ, Queues

(* What the queue operators do to a well-formed queue.                     *)
LEMMA EnqueueType ==
  ASSUME NEW q \in QueueType, NEW v \in 1 .. MaxFrames
  PROVE  /\ Enqueue(q, v) \in QueueType
         /\ Len(Enqueue(q, v).buf) = Len(q.buf) + 1
         /\ Enqueue(q, v).end = q.end
         /\ Enqueue(q, v).status = q.status
         /\ \A k \in 1 .. Len(q.buf) : Enqueue(q, v).buf[k] = q.buf[k]
         /\ Enqueue(q, v).buf[Len(q.buf) + 1] = v
<1> DEFINE b == Append(q.buf, v)
<1>1. q.buf \in Seq(1 .. MaxFrames)
  BY DEF QueueType
<1>2. Enqueue(q, v) = [buf |-> b, end |-> q.end, status |-> q.status]
  BY DEF QueueType, Enqueue
<1>3. /\ b \in Seq(1 .. MaxFrames)
      /\ Len(b) = Len(q.buf) + 1
      /\ \A k \in 1 .. Len(q.buf) : b[k] = q.buf[k]
      /\ b[Len(q.buf) + 1] = v
  BY <1>1
<1> HIDE DEF b
<1>4. QED
  BY <1>2, <1>3 DEF QueueType

LEMMA TailType ==
  ASSUME NEW f \in Seq(1 .. MaxFrames), f # << >>
  PROVE  /\ Tail(f) \in Seq(1 .. MaxFrames)
         /\ Head(f) \in 1 .. MaxFrames
         /\ Head(f) = f[1]
         /\ Len(f) >= 1
         /\ Len(Tail(f)) = Len(f) - 1
         /\ \A k \in 1 .. Len(f) - 1 : Tail(f)[k] = f[k + 1]
<1>1. Len(f) \in Nat /\ Len(f) # 0 /\ Head(f) = f[1]
  BY EmptySeq
<1>2. /\ Tail(f) \in Seq(1 .. MaxFrames)
      /\ Head(f) \in 1 .. MaxFrames
      /\ Len(Tail(f)) = Len(f) - 1
      /\ \A k \in 1 .. Len(Tail(f)) : Tail(f)[k] = f[k + 1]
  BY HeadTailProperties
<1>3. QED
  BY <1>1, <1>2

LEMMA DequeueType ==
  ASSUME NEW q \in QueueType, q.buf # << >>
  PROVE  /\ Dequeue(q) \in QueueType
         /\ Head(q.buf) \in 1 .. MaxFrames
         /\ Head(q.buf) = q.buf[1]
         /\ Len(q.buf) >= 1
         /\ Len(Dequeue(q).buf) = Len(q.buf) - 1
         /\ Dequeue(q).end = q.end
         /\ Dequeue(q).status = q.status
         /\ \A k \in 1 .. Len(q.buf) - 1 : Dequeue(q).buf[k] = q.buf[k + 1]
<1> DEFINE b == Tail(q.buf)
<1>1. q.buf \in Seq(1 .. MaxFrames)
  BY DEF QueueType
<1>2. Dequeue(q) = [buf |-> b, end |-> q.end, status |-> q.status]
  BY DEF QueueType, Dequeue
<1>3. /\ b \in Seq(1 .. MaxFrames)
      /\ Head(q.buf) \in 1 .. MaxFrames
      /\ Head(q.buf) = q.buf[1]
      /\ Len(q.buf) >= 1
      /\ Len(b) = Len(q.buf) - 1
      /\ \A k \in 1 .. Len(q.buf) - 1 : b[k] = q.buf[k + 1]
  BY <1>1, TailType
<1> HIDE DEF b
<1>4. QED
  BY <1>2, <1>3 DEF QueueType

LEMMA CloseType ==
  ASSUME NEW q \in QueueType
  PROVE  /\ Close(q) \in QueueType
         /\ Close(q).buf = q.buf
         /\ Close(q).end = TRUE
         /\ Close(q).status = IF q.end THEN q.status ELSE "Eof"
BY DEF QueueType, Close, End

LEMMA CancelType ==
  ASSUME NEW q \in QueueType, NEW s \in Errors
  PROVE  /\ Cancel(q, s) \in QueueType
         /\ Cancel(q, s).buf = q.buf
         /\ Cancel(q, s).end = TRUE
         /\ Cancel(q, s).status = IF q.end THEN q.status ELSE s
BY ConstantTypes DEF QueueType, Cancel, End, Benign


LEMMA EndType ==
  ASSUME NEW q \in QueueType, NEW s \in Errors \cup {"Eof"}
  PROVE  /\ End(q, s) \in QueueType
         /\ End(q, s).buf = q.buf
         /\ End(q, s).end = TRUE
         /\ End(q, s).status = IF q.end THEN q.status ELSE s
BY DEF QueueType, End

(* Closing and cancelling with an error are the two ways to end a queue.   *)
LEMMA CloseAndCancel ==
  /\ \A q : Close(q) = End(q, "Eof")
  /\ \A q : \A s \in Errors : Cancel(q, s) = End(q, s)
BY ConstantTypes DEF Close, Cancel, Benign

-----------------------------------------------------------------------------
(* The first part of the invariant: where the frames are.                  *)

DataInv ==
  /\ DataTypeOK
  /\ Conservation
  /\ Contents
  /\ FramesInOrder
  /\ WithinAccepted

dataVars == << queue, sent, rcvd, held, delivered >>

(* The numbers that DataInv speaks of.                                     *)
LEMMA DataNumbers ==
  ASSUME DataInv
  PROVE  /\ \A q \in Queues :
              /\ queue[q] \in QueueType
              /\ queue[q].buf \in Seq(1 .. MaxFrames)
              /\ Len(queue[q].buf) \in Nat
              /\ sent[q] \in Nat /\ sent[q] <= MaxFrames
              /\ rcvd[q] \in Nat
              /\ sent[q] = rcvd[q] + Len(queue[q].buf)
              /\ sent[q] <= sent[0]
              /\ q # 0 => sent[q] <= rcvd[0]
         /\ \A w \in Workers :
              /\ held[w] \in Seq(1 .. MaxFrames)
              /\ Len(held[w]) \in Nat
              /\ rcvd[w] = sent[w + 1] + Len(held[w])
         /\ Len(delivered) = rcvd[OutQ]
<1>1. \A q \in Queues : /\ queue[q] \in QueueType
                        /\ sent[q] \in Nat /\ sent[q] <= MaxFrames
                        /\ rcvd[q] \in Nat
  BY ConstantTypes DEF DataInv, DataTypeOK
<1>2. \A q \in Queues : /\ queue[q].buf \in Seq(1 .. MaxFrames)
                        /\ Len(queue[q].buf) \in Nat
  BY <1>1 DEF QueueType
<1>3. \A w \in Workers : /\ held[w] \in Seq(1 .. MaxFrames)
                         /\ Len(held[w]) \in Nat
  BY DEF DataInv, DataTypeOK
<1>4. /\ \A q \in Queues : sent[q] = rcvd[q] + Len(queue[q].buf)
      /\ \A w \in Workers : rcvd[w] = sent[w + 1] + Len(held[w])
      /\ Len(delivered) = rcvd[OutQ]
  BY DEF DataInv, Conservation, Contents
<1>5. ASSUME NEW q \in Queues, q # 0 PROVE sent[q] <= rcvd[0]
  <2>1. q \in 1 .. OutQ
    BY <1>5, ConstantTypes DEF Queues, OutQ
  <2>2. QED
    BY <2>1 DEF DataInv, WithinAccepted
<1>6. ASSUME NEW q \in Queues PROVE sent[q] <= sent[0]
  <2>1. sent[0] = rcvd[0] + Len(queue[0].buf)
    BY <1>4, ConstantTypes
  <2>2. rcvd[0] <= sent[0] /\ sent[0] \in Nat /\ rcvd[0] \in Nat
    BY <1>1, <1>2, <2>1, ConstantTypes
  <2>3. QED
    BY <1>1, <1>5, <2>2
<1>7. QED
  BY <1>1, <1>2, <1>3, <1>4, <1>5, <1>6

LEMMA DataUnchanged == ASSUME DataInv, UNCHANGED dataVars PROVE DataInv'
BY DEF dataVars, DataInv, DataTypeOK, Conservation, Contents, FramesInOrder,
       WithinAccepted

(* Ending a queue moves no frame.                                          *)
LEMMA DataEnd ==
  ASSUME DataInv, NEW q \in Queues, NEW s \in Errors \cup {"Eof"},
         queue' = [queue EXCEPT ![q] = End(@, s)],
         UNCHANGED << sent, rcvd, held, delivered >>
  PROVE  DataInv'
<1>1. queue[q] \in QueueType
  BY DataNumbers
<1> DEFINE new == End(queue[q], s)
<1>2. new \in QueueType /\ new.buf = queue[q].buf
  BY <1>1, EndType
<1>3. queue' = [queue EXCEPT ![q] = new]
  OBVIOUS
<1> HIDE DEF new
<1>4. queue' \in [Queues -> QueueType]
  BY <1>2, <1>3 DEF DataInv, DataTypeOK
<1>5. \A p \in Queues : queue'[p].buf = queue[p].buf
  BY <1>2, <1>3 DEF DataInv, DataTypeOK
<1>6. DataTypeOK'
  BY <1>4 DEF DataInv, DataTypeOK
<1>7. Conservation' /\ WithinAccepted'
  BY <1>5 DEF DataInv, Conservation, WithinAccepted
<1>8. Contents'
  BY <1>5, ConstantTypes DEF DataInv, Contents
<1>9. FramesInOrder'
  BY DEF DataInv, FramesInOrder
<1>10. QED
  BY <1>6, <1>7, <1>8, <1>9 DEF DataInv

LEMMA DataPush == ASSUME DataInv, Push PROVE DataInv'
<1> DEFINE new == Enqueue(queue[0], sent[0] + 1)
<1>1. /\ queue' = [queue EXCEPT ![0] = new]
      /\ sent' = [sent EXCEPT ![0] = @ + 1]
      /\ sent[0] < MaxFrames
      /\ UNCHANGED << rcvd, held, delivered >>
  BY DEF Push, workerVars
<1>2. sent[0] + 1 \in 1 .. MaxFrames
  BY <1>1, DataNumbers, ConstantTypes
<1>3. /\ new \in QueueType
      /\ Len(new.buf) = Len(queue[0].buf) + 1
      /\ \A k \in 1 .. Len(queue[0].buf) : new.buf[k] = queue[0].buf[k]
      /\ new.buf[Len(queue[0].buf) + 1] = sent[0] + 1
  BY <1>2, EnqueueType, DataNumbers, ConstantTypes
<1> HIDE DEF new
<1>4. /\ queue'[0] = new
      /\ sent'[0] = sent[0] + 1
      /\ \A q \in Queues \ {0} : queue'[q] = queue[q] /\ sent'[q] = sent[q]
      /\ queue' \in [Queues -> QueueType]
      /\ sent' \in [Queues -> 0 .. MaxFrames]
  BY <1>1, <1>2, <1>3, ConstantTypes, SMTT(40) DEF DataInv, DataTypeOK
<1>5. \A w \in Workers : w + 1 \in Queues \ {0} /\ w \in Queues
  BY ConstantTypes DEF Workers, Queues
<1>6. DataTypeOK'
  BY <1>1, <1>4 DEF DataInv, DataTypeOK
<1>7. Conservation'
  <2>1. ASSUME NEW q \in Queues
        PROVE  sent'[q] = rcvd'[q] + Len(queue'[q].buf)
    <3>1. /\ sent[q] = rcvd[q] + Len(queue[q].buf) /\ rcvd'[q] = rcvd[q]
          /\ sent[q] \in Nat /\ rcvd[q] \in Nat /\ Len(queue[q].buf) \in Nat
      BY <1>1, DataNumbers
    <3>2. CASE q = 0
      <4>1. sent'[q] = sent[q] + 1 /\ Len(queue'[q].buf) = Len(queue[q].buf) + 1
        BY <1>3, <1>4, <3>2
      <4>2. QED
        BY <3>1, <4>1
    <3>3. CASE q # 0
      BY <1>4, <3>1, <3>3
    <3>4. QED
      BY <3>2, <3>3
  <2>2. QED
    BY <2>1, <1>1, <1>4, <1>5, DataNumbers DEF Conservation
<1>8. Contents'
  <2>1. ASSUME NEW q \in Queues, NEW k \in 1 .. Len(queue'[q].buf)
        PROVE  queue'[q].buf[k] = rcvd'[q] + k
    <3>1. CASE q = 0
      <4>1. CASE k <= Len(queue[0].buf)
        BY <1>1, <1>3, <1>4, <3>1, <4>1, DataNumbers, SMTT(40) DEF DataInv, Contents
      <4>2. CASE k = Len(queue[0].buf) + 1
        <5>1. queue'[q].buf[k] = sent[0] + 1
          BY <1>3, <1>4, <3>1, <4>2
        <5>2. /\ sent[0] = rcvd[0] + Len(queue[0].buf) /\ rcvd'[q] = rcvd[0]
              /\ rcvd[0] \in Nat /\ Len(queue[0].buf) \in Nat
          BY <1>1, <3>1, DataNumbers, ConstantTypes
        <5>3. QED
          BY <4>2, <5>1, <5>2
      <4>3. Len(queue[0].buf) \in Nat /\ Len(queue'[q].buf) = Len(queue[0].buf) + 1
        BY <1>3, <1>4, <3>1, DataNumbers, ConstantTypes
      <4>4. k <= Len(queue[0].buf) \/ k = Len(queue[0].buf) + 1
        BY <4>3
      <4>5. QED
        BY <4>1, <4>2, <4>4
    <3>2. CASE q # 0
      BY <1>1, <1>4, <3>2 DEF DataInv, Contents
    <3>3. QED
      BY <3>1, <3>2
  <2>2. OutQ \in Queues \ {0}
    BY ConstantTypes DEF OutQ, Queues
  <2>3. QED
    BY <2>1, <2>2, <1>1, <1>4, <1>5 DEF DataInv, Contents
<1>9. FramesInOrder' /\ WithinAccepted'
  BY <1>1, <1>4, DataNumbers DEF DataInv, FramesInOrder, WithinAccepted
<1>10. QED
  BY <1>6, <1>7, <1>8, <1>9 DEF DataInv
LEMMA DataPullFrame == ASSUME DataInv, PullFrame PROVE DataInv'
<1> DEFINE new == Dequeue(queue[OutQ])
<1>1. /\ queue' = [queue EXCEPT ![OutQ] = new]
      /\ rcvd' = [rcvd EXCEPT ![OutQ] = @ + 1]
      /\ delivered' = Append(delivered, Head(queue[OutQ].buf))
      /\ queue[OutQ].buf # << >>
      /\ UNCHANGED << sent, held >>
  BY DEF PullFrame, workerVars
<1>2. /\ new \in QueueType
      /\ Head(queue[OutQ].buf) \in 1 .. MaxFrames
      /\ Head(queue[OutQ].buf) = queue[OutQ].buf[1]
      /\ Len(queue[OutQ].buf) >= 1
      /\ Len(new.buf) = Len(queue[OutQ].buf) - 1
      /\ \A k \in 1 .. Len(queue[OutQ].buf) - 1 :
           new.buf[k] = queue[OutQ].buf[k + 1]
  BY <1>1, DequeueType, DataNumbers, ConstantTypes
<1> HIDE DEF new
<1>3. /\ OutQ \in Queues /\ OutQ \notin Workers /\ Workers \subseteq Queues
      /\ \A w \in Workers : w + 1 \in Queues
  BY ConstantTypes DEF OutQ, Workers, Queues
<1>4. /\ sent[OutQ] = rcvd[OutQ] + Len(queue[OutQ].buf)
      /\ sent[OutQ] \in Nat /\ rcvd[OutQ] \in Nat /\ sent[OutQ] <= MaxFrames
      /\ Len(queue[OutQ].buf) \in Nat
      /\ Len(delivered) = rcvd[OutQ]
  BY <1>3, DataNumbers
<1>5. rcvd[OutQ] + 1 \in 0 .. MaxFrames
  BY <1>2, <1>4, ConstantTypes, SMTT(40)
<1>6. /\ queue'[OutQ] = new
      /\ rcvd'[OutQ] = rcvd[OutQ] + 1
      /\ \A q \in Queues \ {OutQ} : queue'[q] = queue[q] /\ rcvd'[q] = rcvd[q]
      /\ queue' \in [Queues -> QueueType]
      /\ rcvd' \in [Queues -> 0 .. MaxFrames]
  BY <1>1, <1>2, <1>3, <1>5 DEF DataInv, DataTypeOK
<1>7. /\ delivered' \in Seq(1 .. MaxFrames)
      /\ Len(delivered') = Len(delivered) + 1
      /\ \A k \in 1 .. Len(delivered) : delivered'[k] = delivered[k]
      /\ delivered'[Len(delivered) + 1] = queue[OutQ].buf[1]
  BY <1>1, <1>2, AppendProperties DEF DataInv, DataTypeOK
<1>8. queue[OutQ].buf[1] = Len(delivered) + 1
  BY <1>2, <1>3, <1>4 DEF DataInv, Contents
<1>9. DataTypeOK'
  BY <1>1, <1>6, <1>7 DEF DataInv, DataTypeOK
<1>10. Conservation'
  <2>1. ASSUME NEW q \in Queues
        PROVE  sent'[q] = rcvd'[q] + Len(queue'[q].buf)
    <3>1. CASE q = OutQ
      <4>1. sent'[q] = sent[OutQ] /\ rcvd'[q] = rcvd[OutQ] + 1 /\ queue'[q] = new
        BY <1>1, <1>6, <3>1
      <4>2. QED
        BY <1>2, <1>4, <4>1, SMTT(40)
    <3>2. CASE q # OutQ
      BY <1>1, <1>6, <3>2, DataNumbers
    <3>3. QED
      BY <3>1, <3>2
  <2>2. QED
    BY <2>1, <1>1, <1>3, <1>6, DataNumbers DEF Conservation
<1>11. Contents'
  <2>1. ASSUME NEW q \in Queues, NEW k \in 1 .. Len(queue'[q].buf)
        PROVE  queue'[q].buf[k] = rcvd'[q] + k
    <3>1. CASE q = OutQ
      <4>1. k \in 1 .. Len(queue[OutQ].buf) - 1 /\ k + 1 \in 1 .. Len(queue[OutQ].buf)
        BY <1>2, <1>4, <1>6, <3>1
      <4>2. queue'[q].buf[k] = queue[OutQ].buf[k + 1]
        BY <1>2, <1>6, <3>1, <4>1
      <4>3. queue[OutQ].buf[k + 1] = rcvd[OutQ] + (k + 1)
        BY <1>3, <4>1 DEF DataInv, Contents
      <4>4. rcvd'[q] = rcvd[OutQ] + 1
        BY <1>6, <3>1
      <4>5. rcvd[OutQ] + (k + 1) = (rcvd[OutQ] + 1) + k
        BY <1>4
      <4>6. QED
        BY <4>2, <4>3, <4>4, <4>5
    <3>2. CASE q # OutQ
      <4>1. queue'[q] = queue[q] /\ rcvd'[q] = rcvd[q]
        BY <1>6, <3>2
      <4>2. k \in 1 .. Len(queue[q].buf) => queue[q].buf[k] = rcvd[q] + k
        BY DEF DataInv, Contents
      <4>3. QED
        BY <4>1, <4>2
    <3>3. QED
      BY <3>1, <3>2
  <2>2. \A w \in Workers : \A k \in 1 .. Len(held'[w]) : held'[w][k] = sent'[w + 1] + k
    BY <1>1 DEF DataInv, Contents
  <2>3. FileSink => queue'[OutQ].buf = << >>
    BY <1>1 DEF DataInv, Contents
  <2>4. QED
    BY <2>1, <2>2, <2>3, <1>4, <1>6, <1>7 DEF Contents
<1>12. FramesInOrder' /\ WithinAccepted'
  BY <1>1, <1>4, <1>7, <1>8 DEF DataInv, FramesInOrder, WithinAccepted
<1>13. QED
  BY <1>9, <1>10, <1>11, <1>12 DEF DataInv

LEMMA DataPopFrame ==
  ASSUME DataInv, NEW w \in Workers, PopFrame(w)
  PROVE  DataInv'
<1> DEFINE new == Dequeue(queue[w])
           grown == Append(held[w], Head(queue[w].buf))
<1>1. /\ queue' = [queue EXCEPT ![w] = new]
      /\ rcvd' = [rcvd EXCEPT ![w] = @ + 1]
      /\ held' = [held EXCEPT ![w] = grown]
      /\ queue[w].buf # << >>
      /\ UNCHANGED << sent, delivered >>
  BY DEF PopFrame
<1>2. /\ new \in QueueType
      /\ Head(queue[w].buf) \in 1 .. MaxFrames
      /\ Head(queue[w].buf) = queue[w].buf[1]
      /\ Len(queue[w].buf) >= 1
      /\ Len(new.buf) = Len(queue[w].buf) - 1
      /\ \A k \in 1 .. Len(queue[w].buf) - 1 : new.buf[k] = queue[w].buf[k + 1]
  BY <1>1, DequeueType, DataNumbers, ConstantTypes
<1>3. /\ w \in Queues /\ w # OutQ /\ OutQ \in Queues /\ Workers \subseteq Queues
      /\ \A v \in Workers : v + 1 \in Queues
  BY ConstantTypes DEF OutQ, Workers, Queues
<1>4. /\ sent[w] = rcvd[w] + Len(queue[w].buf)
      /\ sent[w] \in Nat /\ rcvd[w] \in Nat /\ sent[w] <= MaxFrames
      /\ Len(queue[w].buf) \in Nat
      /\ held[w] \in Seq(1 .. MaxFrames) /\ Len(held[w]) \in Nat
      /\ rcvd[w] = sent[w + 1] + Len(held[w])
      /\ sent[w + 1] \in Nat
  BY <1>3, DataNumbers
<1>5. /\ grown \in Seq(1 .. MaxFrames)
      /\ Len(grown) = Len(held[w]) + 1
      /\ \A k \in 1 .. Len(held[w]) : grown[k] = held[w][k]
      /\ grown[Len(held[w]) + 1] = queue[w].buf[1]
  BY <1>2, <1>4, AppendProperties
<1> HIDE DEF new, grown
<1>6. rcvd[w] + 1 \in 0 .. MaxFrames
  BY <1>2, <1>4, ConstantTypes
<1>7. /\ queue'[w] = new /\ rcvd'[w] = rcvd[w] + 1 /\ held'[w] = grown
      /\ \A q \in Queues \ {w} : queue'[q] = queue[q] /\ rcvd'[q] = rcvd[q]
      /\ \A v \in Workers \ {w} : held'[v] = held[v]
      /\ queue' \in [Queues -> QueueType]
      /\ rcvd' \in [Queues -> 0 .. MaxFrames]
      /\ held' \in [Workers -> Seq(1 .. MaxFrames)]
  BY <1>1, <1>2, <1>3, <1>5, <1>6 DEF DataInv, DataTypeOK
<1>8. queue[w].buf[1] = rcvd[w] + 1
  BY <1>2, <1>3, <1>4 DEF DataInv, Contents
<1>9. DataTypeOK'
  BY <1>1, <1>7 DEF DataInv, DataTypeOK
<1>10. Conservation'
  <2>1. ASSUME NEW q \in Queues
        PROVE  sent'[q] = rcvd'[q] + Len(queue'[q].buf)
    <3>1. CASE q = w
      BY <1>1, <1>2, <1>4, <1>7, <3>1
    <3>2. CASE q # w
      BY <1>1, <1>7, <3>2, DataNumbers
    <3>3. QED
      BY <3>1, <3>2
  <2>2. ASSUME NEW v \in Workers
        PROVE  rcvd'[v] = sent'[v + 1] + Len(held'[v])
    <3>1. CASE v = w
      BY <1>1, <1>4, <1>5, <1>7, <3>1, SMTT(40)
    <3>2. CASE v # w
      BY <1>1, <1>3, <1>7, <3>2, DataNumbers
    <3>3. QED
      BY <3>1, <3>2
  <2>3. QED
    BY <2>1, <2>2 DEF Conservation
<1>11. Contents'
  <2>1. ASSUME NEW q \in Queues, NEW k \in 1 .. Len(queue'[q].buf)
        PROVE  queue'[q].buf[k] = rcvd'[q] + k
    <3>1. CASE q = w
      <4>1. k \in 1 .. Len(queue[w].buf) - 1 /\ k + 1 \in 1 .. Len(queue[w].buf)
        BY <1>2, <1>4, <1>7, <3>1, SMTT(40)
      <4>2. queue'[q].buf[k] = queue[w].buf[k + 1]
        BY <1>2, <1>7, <3>1, <4>1
      <4>3. queue[w].buf[k + 1] = rcvd[w] + (k + 1)
        BY <1>3, <4>1 DEF DataInv, Contents
      <4>4. QED
        BY <1>4, <1>7, <3>1, <4>1, <4>2, <4>3
    <3>2. CASE q # w
      BY <1>7, <3>2 DEF DataInv, Contents
    <3>3. QED
      BY <3>1, <3>2
  <2>2. ASSUME NEW v \in Workers, NEW k \in 1 .. Len(held'[v])
        PROVE  held'[v][k] = sent'[v + 1] + k
    <3>1. CASE v = w /\ k <= Len(held[w])
      <4>1. k \in 1 .. Len(held[w])
        BY <1>4, <1>5, <1>7, <3>1
      <4>2. QED
        BY <1>1, <1>5, <1>7, <3>1, <4>1 DEF DataInv, Contents
    <3>2. CASE v = w /\ k = Len(held[w]) + 1
      BY <1>1, <1>4, <1>5, <1>7, <1>8, <3>2, SMTT(40)
    <3>3. CASE v # w
      BY <1>1, <1>7, <3>3 DEF DataInv, Contents
    <3>4. QED
      BY <1>4, <1>5, <1>7, <3>1, <3>2, <3>3, SMTT(40)
  <2>3. /\ Len(delivered') = rcvd'[OutQ]
        /\ FileSink => queue'[OutQ].buf = << >>
    BY <1>1, <1>3, <1>7 DEF DataInv, Contents
  <2>4. QED
    BY <2>1, <2>2, <2>3 DEF Contents
<1>12. FramesInOrder' /\ WithinAccepted'
  <2>1. rcvd[0] \in Nat /\ rcvd'[0] \in Nat /\ rcvd[0] <= rcvd'[0]
    <3>1. rcvd[0] \in Nat /\ 0 \in Queues
      BY DataNumbers, ConstantTypes
    <3>2. rcvd'[0] = rcvd[0] \/ rcvd'[0] = rcvd[0] + 1
      BY <1>7, <3>1
    <3>3. QED
      BY <3>1, <3>2
  <2>2. ASSUME NEW q \in 1 .. OutQ PROVE sent'[q] <= rcvd'[0]
    <3>1. q \in Queues /\ sent'[q] = sent[q]
      BY <1>1, ConstantTypes DEF Queues, OutQ
    <3>2. sent[q] <= rcvd[0] /\ sent[q] \in Nat
      BY <3>1, DataNumbers DEF DataInv, WithinAccepted
    <3>3. QED
      BY <2>1, <3>1, <3>2
  <2>3. QED
    BY <2>2, <1>1 DEF DataInv, FramesInOrder, WithinAccepted
<1>13. QED
  BY <1>9, <1>10, <1>11, <1>12 DEF DataInv

(* Emitting takes the first held frame; with a file sink the last node     *)
(* writes it, else it enters the queue ahead.                              *)
LEMMA DataEmitFile ==
  ASSUME DataInv, FileSink, NEW w \in Workers, NEW o \in Queues,
         w = Sink, o = OutQ, Emit(w)
  PROVE  DataInv'
<1>1. w = Sink
  OBVIOUS
<1>2. o = OutQ
  OBVIOUS
<1>3. /\ w \in Workers /\ w + 1 = o /\ o \in Queues /\ o \notin Workers
      /\ Workers \subseteq Queues
      /\ \A v \in Workers : v + 1 \in Queues /\ (v # w => v + 1 # o)
  BY <1>1, <1>2, ConstantTypes DEF OutQ, Workers, Queues, Sink
<1>4. /\ held[w] # << >>
      /\ held' = [held EXCEPT ![w] = Tail(@)]
      /\ sent' = [sent EXCEPT ![o] = @ + 1]
      /\ rcvd' = [rcvd EXCEPT ![o] = @ + 1]
      /\ delivered' = Append(delivered, Head(held[w]))
      /\ UNCHANGED queue
  BY <1>1, <1>2, <1>3 DEF Emit
<1>5. /\ held[w] \in Seq(1 .. MaxFrames) /\ Len(held[w]) \in Nat
      /\ rcvd[w] = sent[o] + Len(held[w])
      /\ sent[o] \in Nat /\ rcvd[w] \in Nat /\ rcvd[o] \in Nat
      /\ sent[w] = rcvd[w] + Len(queue[w].buf)
      /\ Len(queue[w].buf) \in Nat /\ sent[w] <= MaxFrames
      /\ w # 0 => sent[w] <= rcvd[0]
      /\ rcvd[0] \in Nat /\ sent[w] \in Nat
      /\ sent[o] = rcvd[o] + Len(queue[o].buf)
      /\ Len(delivered) = rcvd[o]
  BY <1>2, <1>3, DataNumbers, ConstantTypes
<1>6. queue[o].buf = << >>
  BY <1>2 DEF DataInv, Contents
<1>23. sent[o] = rcvd[o]
  BY <1>5, <1>6
<1>20. Len(held[w]) >= 1 /\ Len(Tail(held[w])) = Len(held[w]) - 1
  BY <1>4, <1>5, TailType
<1>7. /\ Tail(held[w]) \in Seq(1 .. MaxFrames)
      /\ Head(held[w]) \in 1 .. MaxFrames /\ Head(held[w]) = held[w][1]
      /\ \A k \in 1 .. Len(held[w]) - 1 : Tail(held[w])[k] = held[w][k + 1]
  BY <1>4, <1>5, TailType
<1>8. /\ sent[o] + 1 \in 0 .. MaxFrames /\ rcvd[o] + 1 \in 0 .. MaxFrames
      /\ sent[o] + 1 <= rcvd[0]
  <2>1. Len(held[w]) >= 1
    BY <1>20
  <2>2. rcvd[w] >= sent[o] + 1
    BY <1>5, <2>1
  <2>3. sent[o] + 1 <= sent[w]
    BY <1>5, <2>2
  <2>4. sent[o] + 1 <= MaxFrames /\ sent[o] + 1 <= rcvd[0]
    <3>1. CASE w = 0
      BY <1>5, <2>2, <2>3, <3>1, MaxFramesAssumption
    <3>2. CASE w # 0
      BY <1>5, <2>3, <3>2, MaxFramesAssumption
    <3>3. QED
      BY <3>1, <3>2
  <2>5. sent[o] + 1 \in 0 .. MaxFrames
    BY <1>5, <2>4, MaxFramesAssumption
  <2>6. QED
    BY <2>4, <2>5, <1>23
<1>9. /\ sent'[o] = sent[o] + 1 /\ rcvd'[o] = rcvd[o] + 1
      /\ held'[w] = Tail(held[w])
      /\ \A q \in Queues \ {o} : sent'[q] = sent[q] /\ rcvd'[q] = rcvd[q]
      /\ \A v \in Workers \ {w} : held'[v] = held[v]
      /\ sent' \in [Queues -> 0 .. MaxFrames]
      /\ rcvd' \in [Queues -> 0 .. MaxFrames]
      /\ held' \in [Workers -> Seq(1 .. MaxFrames)]
  BY <1>3, <1>4, <1>7, <1>8 DEF DataInv, DataTypeOK
<1>21. Len(held'[w]) = Len(held[w]) - 1
  BY <1>9, <1>20
<1>22. sent'[o] = sent[o] + 1 /\ rcvd'[o] = rcvd[o] + 1
  BY <1>9
<1>10. held[w][1] = sent[o] + 1
  BY <1>3, <1>5, <1>20 DEF DataInv, Contents
<1>11. /\ delivered' \in Seq(1 .. MaxFrames)
       /\ Len(delivered') = Len(delivered) + 1
       /\ \A k \in 1 .. Len(delivered) : delivered'[k] = delivered[k]
       /\ delivered'[Len(delivered) + 1] = held[w][1]
  BY <1>4, <1>7, AppendProperties DEF DataInv, DataTypeOK
<1>12. DataTypeOK'
  BY <1>4, <1>9, <1>11 DEF DataInv, DataTypeOK
<1>13. Conservation'
  <2>1. ASSUME NEW q \in Queues
        PROVE  sent'[q] = rcvd'[q] + Len(queue'[q].buf)
    <3>1. CASE q = o
      <4>1. Len(queue'[q].buf) = 0
        BY <1>4, <1>6, <3>1
      <4>2. sent'[q] = rcvd'[q] /\ rcvd'[q] = rcvd[o] + 1
        BY <1>22, <1>23, <3>1
      <4>3. rcvd'[q] \in Nat
        BY <1>5, <4>2, SMTT(40)
      <4>4. QED
        BY <4>1, <4>2, <4>3
    <3>2. CASE q # o
      BY <1>4, <1>9, <3>2, DataNumbers
    <3>3. QED
      BY <3>1, <3>2
  <2>2. ASSUME NEW v \in Workers
        PROVE  rcvd'[v] = sent'[v + 1] + Len(held'[v])
    <3>1. rcvd'[v] = rcvd[v]
      BY <1>3, <1>9
    <3>2. CASE v = w
      <4>1. sent'[v + 1] = sent[o] + 1
        BY <1>3, <1>22, <3>2
      <4>2. Len(held'[v]) = Len(held[w]) - 1
        BY <1>21, <3>2
      <4>3. rcvd'[v] = rcvd[w]
        BY <3>1, <3>2
      <4>4. rcvd[w] = (sent[o] + 1) + (Len(held[w]) - 1)
        <5>1. /\ rcvd[w] = sent[o] + Len(held[w])
              /\ sent[o] \in Nat /\ Len(held[w]) \in Nat
          BY <1>5
        <5>2. QED
          BY <5>1
      <4>5. QED
        BY <4>1, <4>2, <4>3, <4>4
    <3>3. CASE v # w
      BY <1>3, <1>9, <3>1, <3>3, DataNumbers
    <3>4. QED
      BY <3>2, <3>3
  <2>3. QED
    BY <2>1, <2>2 DEF Conservation
<1>14. Contents'
  <2>1. ASSUME NEW q \in Queues, NEW k \in 1 .. Len(queue'[q].buf)
        PROVE  queue'[q].buf[k] = rcvd'[q] + k
    BY <1>4, <1>6, <1>9 DEF DataInv, Contents
  <2>2. ASSUME NEW v \in Workers, NEW k \in 1 .. Len(held'[v])
        PROVE  held'[v][k] = sent'[v + 1] + k
    <3>1. CASE v = w
      <4>1. k \in 1 .. Len(held[w]) - 1 /\ k + 1 \in 1 .. Len(held[w])
        <5>1. Len(held'[v]) = Len(held[w]) - 1
          BY <1>21, <3>1
        <5>2. Len(held[w]) \in Nat
          BY <1>5
        <5>3. k \in Nat /\ k >= 1 /\ k <= Len(held[w]) - 1
          BY <5>1, <5>2
        <5>4. QED
          BY <5>2, <5>3
      <4>2. held'[v][k] = held[w][k + 1]
        BY <1>7, <1>9, <3>1, <4>1
      <4>3. held[w][k + 1] = sent[o] + (k + 1)
        BY <1>3, <4>1 DEF DataInv, Contents
      <4>4. sent'[v + 1] = sent[o] + 1
        BY <1>3, <1>9, <3>1
      <4>5. sent[o] + (k + 1) = (sent[o] + 1) + k
        BY <1>5
      <4>6. QED
        BY <4>2, <4>3, <4>4, <4>5
    <3>2. CASE v # w
      <4>1. sent'[v + 1] = sent[v + 1] /\ held'[v] = held[v]
        BY <1>3, <1>9, <3>2
      <4>2. k \in 1 .. Len(held[v]) => held[v][k] = sent[v + 1] + k
        BY DEF DataInv, Contents
      <4>3. QED
        BY <4>1, <4>2
    <3>3. QED
      BY <3>1, <3>2
  <2>3. Len(delivered') = rcvd'[OutQ]
    BY <1>2, <1>5, <1>22, <1>11
  <2>4. FileSink => queue'[OutQ].buf = << >>
    BY <1>4 DEF DataInv, Contents
  <2>5. QED
    BY <2>1, <2>2, <2>3, <2>4 DEF Contents
<1>15. FramesInOrder'
  <2>1. ASSUME NEW k \in 1 .. Len(delivered') PROVE delivered'[k] = k
    <3>1. CASE k = Len(delivered) + 1
      <4>1. delivered'[k] = sent[o] + 1
        BY <1>10, <1>11, <3>1
      <4>2. sent[o] = Len(delivered)
        BY <1>5, <1>6
      <4>3. QED
        BY <4>1, <4>2, <3>1
    <3>2. CASE k # Len(delivered) + 1
      <4>1. k \in 1 .. Len(delivered)
        BY <1>5, <1>11, <3>2
      <4>2. QED
        BY <1>11, <4>1 DEF DataInv, FramesInOrder
    <3>3. QED
      BY <3>1, <3>2
  <2>2. QED
    BY <2>1 DEF FramesInOrder
<1>16. WithinAccepted'
  <2>1. o # 0 /\ 0 \in Queues
    BY <1>2, ConstantTypes DEF OutQ
  <2>2. rcvd'[0] = rcvd[0]
    BY <1>9, <2>1
  <2>3. ASSUME NEW q \in 1 .. OutQ PROVE sent'[q] <= rcvd[0]
    <3>1. q \in Queues /\ q # 0
      BY ConstantTypes DEF Queues, OutQ
    <3>2. sent[q] <= rcvd[0]
      BY <3>1, DataNumbers
    <3>3. QED
      BY <1>8, <1>9, <3>1, <3>2
  <2>4. QED
    BY <2>2, <2>3 DEF WithinAccepted
<1>17. QED
  BY <1>12, <1>13, <1>14, <1>15, <1>16 DEF DataInv

LEMMA DataEmitQueue ==
  ASSUME DataInv, NEW w \in Workers, NEW o \in Queues,
         o = w + 1, ~(w = Sink /\ FileSink), Emit(w)
  PROVE  DataInv'
<1>1. o = w + 1
  OBVIOUS
<1> DEFINE new == Enqueue(queue[o], Head(held[w]))
<1>2. /\ o \in Queues /\ o # 0 /\ 0 \in Queues /\ w \in Queues
      /\ w # o /\ Workers \subseteq Queues
      /\ \A v \in Workers : v + 1 \in Queues /\ (v # w => v + 1 # o)
  BY <1>1, ConstantTypes DEF Workers, Queues
<1>3. /\ held[w] # << >>
      /\ held' = [held EXCEPT ![w] = Tail(@)]
      /\ sent' = [sent EXCEPT ![o] = @ + 1]
      /\ queue' = [queue EXCEPT ![o] = new]
      /\ UNCHANGED << delivered, rcvd >>
  BY <1>1 DEF Emit
<1>20. queue[o] \in QueueType /\ held[w] \in Seq(1 .. MaxFrames)
  BY <1>2, DataNumbers
<1>4. /\ Len(held[w]) \in Nat
      /\ rcvd[w] = sent[o] + Len(held[w])
      /\ sent[o] \in Nat /\ rcvd[w] \in Nat /\ rcvd[o] \in Nat
      /\ sent[w] = rcvd[w] + Len(queue[w].buf)
      /\ Len(queue[w].buf) \in Nat /\ sent[w] <= MaxFrames
      /\ w # 0 => sent[w] <= rcvd[0]
      /\ rcvd[0] \in Nat /\ sent[w] \in Nat
      /\ sent[o] = rcvd[o] + Len(queue[o].buf)
      /\ Len(queue[o].buf) \in Nat
  BY <1>1, <1>2, DataNumbers, ConstantTypes
<1>5. Len(held[w]) >= 1 /\ Len(Tail(held[w])) = Len(held[w]) - 1
  BY <1>3, <1>20, TailType
<1>21. /\ Tail(held[w]) \in Seq(1 .. MaxFrames)
       /\ Head(held[w]) \in 1 .. MaxFrames /\ Head(held[w]) = held[w][1]
       /\ \A k \in 1 .. Len(held[w]) - 1 : Tail(held[w])[k] = held[w][k + 1]
  BY <1>3, <1>20, TailType
<1>6. /\ new \in QueueType
      /\ Len(new.buf) = Len(queue[o].buf) + 1
  BY <1>20, <1>21, EnqueueType
<1>22. /\ \A k \in 1 .. Len(queue[o].buf) : new.buf[k] = queue[o].buf[k]
       /\ new.buf[Len(queue[o].buf) + 1] = held[w][1]
  BY <1>20, <1>21, EnqueueType
<1> HIDE DEF new
<1>7. sent[o] + 1 \in 0 .. MaxFrames /\ sent[o] + 1 <= rcvd[0]
  <2>1. Len(held[w]) >= 1
    BY <1>5
  <2>2. rcvd[w] >= sent[o] + 1
    BY <1>4, <2>1
  <2>3. sent[o] + 1 <= sent[w]
    BY <1>4, <2>2
  <2>4. sent[o] + 1 <= MaxFrames /\ sent[o] + 1 <= rcvd[0]
    <3>1. CASE w = 0
      BY <1>4, <2>2, <2>3, <3>1, MaxFramesAssumption
    <3>2. CASE w # 0
      BY <1>4, <2>3, <3>2, MaxFramesAssumption, SMTT(40)
    <3>3. QED
      BY <3>1, <3>2
  <2>5. QED
    BY <1>4, <2>4, MaxFramesAssumption, SMTT(40)
<1>8. /\ sent'[o] = sent[o] + 1 /\ queue'[o] = new
      /\ held'[w] = Tail(held[w])
      /\ \A q \in Queues \ {o} : sent'[q] = sent[q] /\ queue'[q] = queue[q]
      /\ \A v \in Workers \ {w} : held'[v] = held[v]
      /\ sent' \in [Queues -> 0 .. MaxFrames]
      /\ queue' \in [Queues -> QueueType]
      /\ held' \in [Workers -> Seq(1 .. MaxFrames)]
  BY <1>2, <1>3, <1>21, <1>6, <1>7 DEF DataInv, DataTypeOK
<1>23. /\ Len(queue'[o].buf) = Len(queue[o].buf) + 1
       /\ Len(held'[w]) = Len(held[w]) - 1
  BY <1>5, <1>6, <1>8
<1>24. sent'[o] = sent[o] + 1
  BY <1>8
<1>9. held[w][1] = sent[o] + 1
  BY <1>1, <1>4, <1>5, SMTT(40) DEF DataInv, Contents
<1>10. DataTypeOK'
  BY <1>3, <1>8 DEF DataInv, DataTypeOK
<1>11. Conservation'
  <2>1. ASSUME NEW q \in Queues
        PROVE  sent'[q] = rcvd'[q] + Len(queue'[q].buf)
    <3>1. CASE q = o
      <4>1. Len(queue'[q].buf) = Len(queue[o].buf) + 1
        BY <1>23, <3>1
      <4>2. sent'[q] = sent[o] + 1 /\ rcvd'[q] = rcvd[o]
        BY <1>3, <1>24, <3>1
      <4>3. sent[o] + 1 = rcvd[o] + (Len(queue[o].buf) + 1)
        <5>1. /\ sent[o] = rcvd[o] + Len(queue[o].buf)
              /\ rcvd[o] \in Nat /\ Len(queue[o].buf) \in Nat
          BY <1>4
        <5>2. QED
          BY <5>1
      <4>4. QED
        BY <4>1, <4>2, <4>3
    <3>2. CASE q # o
      BY <1>3, <1>8, <3>2, DataNumbers
    <3>3. QED
      BY <3>1, <3>2
  <2>2. ASSUME NEW v \in Workers
        PROVE  rcvd'[v] = sent'[v + 1] + Len(held'[v])
    <3>1. rcvd'[v] = rcvd[v]
      BY <1>3
    <3>2. CASE v = w
      <4>1. sent'[v + 1] = sent[o] + 1
        BY <1>1, <1>24, <3>2
      <4>2. Len(held'[v]) = Len(held[w]) - 1
        BY <1>23, <3>2
      <4>3. rcvd'[v] = rcvd[w]
        BY <3>1, <3>2
      <4>4. rcvd[w] = (sent[o] + 1) + (Len(held[w]) - 1)
        BY <1>4, SMTT(40)
      <4>5. QED
        BY <4>1, <4>2, <4>3, <4>4
    <3>3. CASE v # w
      BY <1>2, <1>8, <3>1, <3>3, DataNumbers
    <3>4. QED
      BY <3>2, <3>3
  <2>3. QED
    BY <2>1, <2>2 DEF Conservation
<1>12. Contents'
  <2>1. ASSUME NEW q \in Queues, NEW k \in 1 .. Len(queue'[q].buf)
        PROVE  queue'[q].buf[k] = rcvd'[q] + k
    <3>1. CASE q = o
      <4>1. CASE k <= Len(queue[o].buf)
        <5>1. k \in 1 .. Len(queue[o].buf)
          BY <1>4, <1>23, <3>1, <4>1
        <5>2. QED
          BY <1>3, <1>22, <1>8, <3>1, <5>1 DEF DataInv, Contents
      <4>2. CASE k = Len(queue[o].buf) + 1
        <5>1. queue'[q].buf[k] = sent[o] + 1
          BY <1>22, <1>8, <1>9, <3>1, <4>2
        <5>2. QED
          BY <1>3, <1>4, <3>1, <4>2, <5>1, SMTT(40)
      <4>3. QED
        <5>1. Len(queue'[q].buf) = Len(queue[o].buf) + 1
          BY <1>23, <3>1
        <5>2. k \in Nat /\ k <= Len(queue[o].buf) + 1
          BY <1>4, <5>1
        <5>3. k <= Len(queue[o].buf) \/ k = Len(queue[o].buf) + 1
          <6>1. Len(queue[o].buf) \in Nat
            BY <1>4
          <6>2. QED
            BY <6>1, <5>2
        <5>4. QED
          BY <5>3, <4>1, <4>2
    <3>2. CASE q # o
      BY <1>3, <1>8, <3>2 DEF DataInv, Contents
    <3>3. QED
      BY <3>1, <3>2
  <2>2. ASSUME NEW v \in Workers, NEW k \in 1 .. Len(held'[v])
        PROVE  held'[v][k] = sent'[v + 1] + k
    <3>1. CASE v = w
      <4>1. k \in 1 .. Len(held[w]) - 1 /\ k + 1 \in 1 .. Len(held[w])
        <5>1. Len(held'[v]) = Len(held[w]) - 1
          BY <1>23, <3>1
        <5>2. k \in Nat /\ k >= 1 /\ k <= Len(held[w]) - 1
          BY <1>4, <5>1, SMTT(40)
        <5>3. QED
          BY <1>4, <5>2
      <4>2. held'[v][k] = held[w][k + 1]
        BY <1>21, <1>8, <3>1, <4>1
      <4>3. held[w][k + 1] = sent[o] + (k + 1)
        BY <1>1, <4>1 DEF DataInv, Contents
      <4>4. sent'[v + 1] = sent[o] + 1
        BY <1>1, <1>8, <3>1
      <4>5. sent[o] + (k + 1) = (sent[o] + 1) + k
        BY <1>4
      <4>6. QED
        BY <4>2, <4>3, <4>4, <4>5
    <3>2. CASE v # w
      <4>1. sent'[v + 1] = sent[v + 1] /\ held'[v] = held[v]
        BY <1>2, <1>8, <3>2
      <4>2. k \in 1 .. Len(held[v]) => held[v][k] = sent[v + 1] + k
        BY DEF DataInv, Contents
      <4>3. QED
        BY <4>1, <4>2
    <3>3. QED
      BY <3>1, <3>2
  <2>3. Len(delivered') = rcvd'[OutQ]
    BY <1>3 DEF DataInv, Contents
  <2>4. FileSink => queue'[OutQ].buf = << >>
    <3>1. ASSUME FileSink PROVE o # OutQ
      BY <1>1, <3>1, ConstantTypes DEF OutQ, Sink, Workers
    <3>2. QED
      BY <1>8, <3>1, ConstantTypes DEF DataInv, Contents
  <2>5. QED
    BY <2>1, <2>2, <2>3, <2>4 DEF Contents
<1>13. FramesInOrder' /\ WithinAccepted'
  <2>1. rcvd'[0] = rcvd[0]
    BY <1>3
  <2>2. ASSUME NEW q \in 1 .. OutQ PROVE sent'[q] <= rcvd[0]
    <3>1. q \in Queues /\ q # 0
      BY ConstantTypes DEF Queues, OutQ
    <3>2. sent[q] <= rcvd[0]
      BY <3>1, DataNumbers
    <3>3. QED
      BY <1>7, <1>8, <3>1, <3>2
  <2>3. QED
    BY <2>1, <2>2, <1>3 DEF DataInv, FramesInOrder, WithinAccepted
<1>14. QED
  BY <1>10, <1>11, <1>12, <1>13 DEF DataInv
-----------------------------------------------------------------------------
(* The second part of the invariant: where the threads are.                *)

ControlInv ==
  /\ ControlTypeOK
  /\ SweepBound
  /\ BornWhenStarted
  /\ WorkerState
  /\ EofChain
  /\ ErrorHasOrigin
  /\ ActiveCount
  /\ VerdictFinal

LEMMA InvParts == IInv <=> DataInv /\ ControlInv
BY DEF IInv, TypeOK, DataInv, ControlInv

(* An ended queue keeps its end and only loses items.                      *)
EndsKept ==
  \A q \in Queues : queue[q].end =>
    /\ queue'[q].end
    /\ queue'[q].status = queue[q].status
    /\ Len(queue'[q].buf) <= Len(queue[q].buf)
    /\ queue[q].buf = << >> => queue'[q].buf = << >>

(* No queue but the input queue has ended with Eof in this step.           *)
NoNewEof ==
  \A q \in 1 .. OutQ : EndedWith(q, "Eof")' => EndedWith(q, "Eof")

(* Ending one queue, with whatever status, keeps what had ended before.    *)
LEMMA EndKeeps ==
  ASSUME DataInv, NEW q \in Queues, NEW s \in Errors \cup {"Eof"},
         queue' = [queue EXCEPT ![q] = End(@, s)]
  PROVE  /\ EndsKept
         /\ q = 0 \/ s # "Eof" => NoNewEof
         /\ queue'[q].end
         /\ \A p \in Queues \ {q} : queue'[p] = queue[p]
<1>1. queue[q] \in QueueType
  BY DataNumbers
<1> DEFINE new == End(queue[q], s)
<1>2. /\ new.buf = queue[q].buf
      /\ new.end = TRUE
      /\ queue[q].end => new.status = queue[q].status
      /\ ~queue[q].end => new.status = s
  BY <1>1 DEF QueueType, End
<1>3. /\ queue' = [queue EXCEPT ![q] = new]
      /\ queue \in [Queues -> QueueType]
  BY DEF DataInv, DataTypeOK
<1> HIDE DEF new
<1>4. queue'[q] = new /\ \A p \in Queues \ {q} : queue'[p] = queue[p]
  BY <1>3
<1>5. \A p \in Queues : Len(queue[p].buf) \in Nat
  BY DataNumbers
<1>6. EndsKept
  BY <1>2, <1>4, <1>5 DEF EndsKept
<1>7. ASSUME q = 0 \/ s # "Eof" PROVE NoNewEof
  <2>1. ASSUME NEW p \in 1 .. OutQ, EndedWith(p, "Eof")'
        PROVE  EndedWith(p, "Eof")
    <3>1. p \in Queues /\ p # 0
      BY ConstantTypes DEF Queues, OutQ
    <3>2. CASE p = q
      BY <1>2, <1>4, <1>7, <2>1, <3>1, <3>2 DEF EndedWith
    <3>3. CASE p # q
      BY <1>4, <2>1, <3>1, <3>3 DEF EndedWith
    <3>4. QED
      BY <3>2, <3>3
  <2>2. QED
    BY <2>1 DEF NoNewEof
<1>8. QED
  BY <1>2, <1>4, <1>6, <1>7

LEMMA EndsUnchanged ==
  ASSUME DataInv, UNCHANGED queue PROVE EndsKept /\ NoNewEof
<1>1. \A p \in Queues : Len(queue[p].buf) \in Nat
  BY DataNumbers
<1>2. QED
  BY <1>1 DEF EndsKept, NoNewEof, EndedWith

(* A frame enters a queue only while it is open.                           *)
LEMMA EnqueueKeeps ==
  ASSUME DataInv, NEW q \in Queues, NEW v \in 1 .. MaxFrames, ~queue[q].end,
         queue' = [queue EXCEPT ![q] = Enqueue(@, v)]
  PROVE  EndsKept /\ NoNewEof
<1>1. queue[q] \in QueueType /\ queue \in [Queues -> QueueType]
  BY DataNumbers DEF DataInv, DataTypeOK
<1> DEFINE new == Enqueue(queue[q], v)
<1>2. ~new.end
  BY <1>1, EnqueueType
<1>3. queue'[q] = new /\ \A p \in Queues \ {q} : queue'[p] = queue[p]
  BY <1>1
<1> HIDE DEF new
<1>4. \A p \in Queues : Len(queue[p].buf) \in Nat
  BY DataNumbers
<1>5. EndsKept
  BY <1>3, <1>4 DEF EndsKept
<1>6. \A p \in 1 .. OutQ : p \in Queues
  BY ConstantTypes DEF Queues, OutQ
<1>7. NoNewEof
  BY <1>2, <1>3, <1>6 DEF NoNewEof, EndedWith
<1>8. QED
  BY <1>5, <1>7

LEMMA DequeueKeeps ==
  ASSUME DataInv, NEW q \in Queues, queue[q].buf # << >>,
         queue' = [queue EXCEPT ![q] = Dequeue(@)]
  PROVE  EndsKept /\ NoNewEof
<1>1. queue[q] \in QueueType /\ queue \in [Queues -> QueueType]
  BY DataNumbers DEF DataInv, DataTypeOK
<1> DEFINE new == Dequeue(queue[q])
<1>2. /\ new.end = queue[q].end /\ new.status = queue[q].status
      /\ Len(new.buf) = Len(queue[q].buf) - 1
  BY <1>1, DequeueType
<1>3. queue'[q] = new /\ \A p \in Queues \ {q} : queue'[p] = queue[p]
  BY <1>1
<1> HIDE DEF new
<1>4. \A p \in Queues : Len(queue[p].buf) \in Nat
  BY DataNumbers
<1>5. Len(new.buf) <= Len(queue[q].buf)
  BY <1>2, <1>4
<1>6. EndsKept
  BY <1>2, <1>3, <1>4, <1>5 DEF EndsKept
<1>7. \A p \in 1 .. OutQ : p \in Queues
  BY ConstantTypes DEF Queues, OutQ
<1>8. NoNewEof
  BY <1>2, <1>3, <1>7 DEF NoNewEof, EndedWith
<1>9. QED
  BY <1>6, <1>8

-----------------------------------------------------------------------------
(* What a step of one worker, w, leaves as it was.                         *)

OthersStay(w) ==
  \A v \in Workers \ {w} : /\ pc'[v] = pc[v]
                           /\ status'[v] = status[v]
                           /\ cursor'[v] = cursor[v]
                           /\ held'[v] = held[v]

LEMMA OtherWorkers ==
  ASSUME IInv, NEW w \in Workers, OthersStay(w), EndsKept, WorkerAt(w)'
  PROVE  WorkerState'
<1>1. ASSUME NEW v \in Workers, v # w PROVE WorkerAt(v)'
  <2>1. /\ WorkerAt(v)
        /\ pc'[v] = pc[v] /\ status'[v] = status[v]
        /\ cursor'[v] = cursor[v] /\ held'[v] = held[v]
    BY <1>1 DEF IInv, WorkerState, OthersStay
  <2>2. v \in Queues /\ OutQ \in Queues
    BY ConstantTypes
  <2>3. /\ EndedWith(v, "Eof") => EndedWith(v, "Eof")'
        /\ EndedWith(v, "Eof") /\ queue[v].buf = << >> => queue'[v].buf = << >>
        /\ queue[OutQ].end => queue'[OutQ].end
    BY <2>2 DEF EndsKept, EndedWith
  <2>4. QED
    BY <2>1, <2>3 DEF WorkerAt
<1>2. QED
  BY <1>1 DEF WorkerState

(* A worker that has not left stands in the way of every Eof behind it.    *)
LEMMA EofChainKept ==
  ASSUME IInv, NEW w \in Workers, OthersStay(w), EndsKept, NoNewEof,
         pc[w] \notin {"leave", "done"},
         \A q \in 0 .. w : sent'[q] = sent[q],
         w # 0 => rcvd'[0] = rcvd[0]
  PROVE  EofChain'
<1>1. ASSUME NEW q \in 1 .. OutQ, EndedWith(q, "Eof")'
      PROVE  /\ sent'[q] = Accepted'
             /\ FileSource \/ queue'[0].end
             /\ \A v \in 0 .. q - 1 : pc'[v] \in {"leave", "done"}
                                      /\ status'[v] = "Eof"
  <2>1. /\ sent[q] = Accepted
        /\ FileSource \/ queue[0].end
        /\ \A v \in 0 .. q - 1 : pc[v] \in {"leave", "done"}
                                 /\ status[v] = "Eof"
    BY <1>1 DEF NoNewEof, IInv, EofChain
  <2>2. q <= w /\ w # 0
    BY <2>1 DEF Workers
  <2>3. sent'[q] = sent[q] /\ Accepted' = Accepted
    BY <2>2, ConstantTypes DEF Workers, Accepted
  <2>4. FileSource \/ queue'[0].end
    BY <2>1, ConstantTypes DEF EndsKept
  <2>5. \A v \in 0 .. q - 1 : v \in Workers \ {w}
    BY <2>2, ConstantTypes DEF Workers
  <2>6. QED
    BY <2>1, <2>3, <2>4, <2>5 DEF OthersStay
<1>2. QED
  BY <1>1 DEF EofChain

LEMMA VerdictKept ==
  ASSUME IInv, EndsKept, verdict' = verdict PROVE VerdictFinal'
<1>1. OutQ \in Queues
  BY ConstantTypes
<1>2. QED
  BY <1>1 DEF IInv, VerdictFinal, EndsKept, EndedWith

LEMMA ActiveKept ==
  ASSUME IInv, NEW w \in Workers, OthersStay(w),
         pc[w] \notin {"unborn", "done"}, pc'[w] \notin {"unborn", "done"},
         active' = active, started' = started
  PROVE  ActiveCount' /\ BornWhenStarted'
<1>1. \A v \in Workers : /\ pc'[v] \in {"unborn", "done"}
                             <=> pc[v] \in {"unborn", "done"}
                         /\ pc'[v] = "unborn" <=> pc[v] = "unborn"
  BY DEF OthersStay
<1>2. {v \in Workers : pc'[v] \notin {"unborn", "done"}}
        = {v \in Workers : pc[v] \notin {"unborn", "done"}}
  BY <1>1
<1>3. ActiveCount'
  BY <1>2 DEF IInv, ActiveCount
<1>4. QED
  BY <1>1, <1>3 DEF IInv, BornWhenStarted

(* The worker whose error was recorded keeps it, wherever it goes.         *)
LEMMA ErrorKept ==
  ASSUME IInv, NEW w \in Workers, OthersStay(w), error' = error,
         pc[w] \in {"cancel", "endout", "leave", "done"} =>
           /\ pc'[w] \in {"cancel", "endout", "leave", "done"}
           /\ status'[w] = status[w]
  PROVE  ErrorHasOrigin'
<1>1. ASSUME error' # "Ok"
      PROVE  \E v \in Workers :
               /\ status'[v] = error'
               /\ pc'[v] \in {"cancel", "endout", "leave", "done"}
  <2>1. PICK v \in Workers : /\ status[v] = error
                             /\ pc[v] \in {"cancel", "endout", "leave", "done"}
    BY <1>1 DEF IInv, ErrorHasOrigin
  <2>2. status'[v] = status[v] /\ pc'[v] \in {"cancel", "endout", "leave", "done"}
    BY <2>1 DEF OthersStay
  <2>3. QED
    BY <2>1, <2>2
<1>2. QED
  BY <1>1 DEF ErrorHasOrigin

(* A step of the application or of close() moves no worker.                *)
LEMMA WorkersStay ==
  ASSUME IInv, UNCHANGED << workerVars, active, error, started >>,
         EndsKept, NoNewEof, rcvd'[0] = rcvd[0],
         \A q \in 1 .. OutQ : sent'[q] = sent[q], queue[0].end => sent'[0] = sent[0]
  PROVE  /\ WorkerState' /\ EofChain' /\ ErrorHasOrigin'
         /\ ActiveCount' /\ BornWhenStarted'
<1>1. /\ pc' = pc /\ status' = status /\ cursor' = cursor /\ held' = held
      /\ active' = active /\ error' = error /\ started' = started
  BY DEF workerVars
<1>2. WorkerState'
  <2>1. ASSUME NEW v \in Workers PROVE WorkerAt(v)'
    <3>1. WorkerAt(v)
      BY DEF IInv, WorkerState
    <3>2. v \in Queues /\ OutQ \in Queues
      BY ConstantTypes
    <3>3. /\ EndedWith(v, "Eof") => EndedWith(v, "Eof")'
          /\ EndedWith(v, "Eof") /\ queue[v].buf = << >> => queue'[v].buf = << >>
          /\ queue[OutQ].end => queue'[OutQ].end
      BY <3>2 DEF EndsKept, EndedWith
    <3>4. QED
      BY <1>1, <3>1, <3>3 DEF WorkerAt
  <2>2. QED
    BY <2>1 DEF WorkerState
<1>3. EofChain'
  <2>1. ASSUME NEW q \in 1 .. OutQ, EndedWith(q, "Eof")'
        PROVE  /\ sent'[q] = Accepted'
               /\ FileSource \/ queue'[0].end
               /\ \A v \in 0 .. q - 1 : pc'[v] \in {"leave", "done"}
                                        /\ status'[v] = "Eof"
    <3>1. /\ sent[q] = Accepted
          /\ FileSource \/ queue[0].end
          /\ \A v \in 0 .. q - 1 : pc[v] \in {"leave", "done"}
                                   /\ status[v] = "Eof"
      BY <2>1 DEF NoNewEof, IInv, EofChain
    <3>2. FileSource \/ queue'[0].end
      BY <3>1, ConstantTypes DEF EndsKept
    <3>3. sent'[q] = sent[q] /\ Accepted' = Accepted
      BY <3>1 DEF Accepted
    <3>4. QED
      BY <1>1, <3>1, <3>2, <3>3
  <2>2. QED
    BY <2>1 DEF EofChain
<1>4. ErrorHasOrigin' /\ ActiveCount' /\ BornWhenStarted'
  BY <1>1 DEF IInv, ErrorHasOrigin, ActiveCount, BornWhenStarted
<1>5. QED
  BY <1>2, <1>3, <1>4

-----------------------------------------------------------------------------
(* The actions of the application and of close().                          *)

(* A queue that takes a frame has not ended: no queue ends with Ok.        *)
LEMMA OpenQueue ==
  ASSUME NEW q \in QueueType, TryPushStatus(q) = "Ok" \/ PushStatus(q) = "Ok"
  PROVE  ~q.end
<1>1. q.status # "Ok"
  BY ConstantTypes DEF QueueType
<1>2. QED
  BY <1>1 DEF TryPushStatus, PushStatus

LEMMA PushStep == ASSUME IInv, Push PROVE IInv' /\ EndsKept
<1>1. DataInv /\ DataInv'
  BY InvParts, DataPush
<1>2. ~queue[0].end /\ sent[0] + 1 \in 1 .. MaxFrames /\ 0 \in Queues
  BY <1>1, OpenQueue, DataNumbers, ConstantTypes DEF Push
<1>3. EndsKept /\ NoNewEof
  BY <1>1, <1>2, EnqueueKeeps DEF Push
<1>4. UNCHANGED << workerVars, active, error, started, closer, sweep, verdict, rcvd >>
  BY DEF Push, appVars
<1>9. \A q \in 1 .. OutQ : sent'[q] = sent[q]
  BY <1>1, ConstantTypes DEF Push, DataInv, DataTypeOK, Queues, OutQ
<1>5. WorkerState' /\ EofChain' /\ ErrorHasOrigin' /\ ActiveCount' /\ BornWhenStarted'
  BY <1>2, <1>3, <1>4, <1>9, WorkersStay
<1>6. VerdictFinal'
  BY <1>3, <1>4, VerdictKept
<1>7. ControlTypeOK' /\ SweepBound'
  BY <1>4 DEF workerVars, IInv, TypeOK, ControlTypeOK, SweepBound
<1>8. QED
  BY <1>1, <1>3, <1>5, <1>6, <1>7 DEF IInv, TypeOK, DataInv

LEMMA PushEosStep == ASSUME IInv, PushEos PROVE IInv' /\ EndsKept
<1>1. DataInv
  BY InvParts
<1>2. queue' = [queue EXCEPT ![0] = End(@, "Eof")] /\ 0 \in Queues
  BY CloseAndCancel, ConstantTypes DEF PushEos
<1>3. /\ UNCHANGED << workerVars, active, error, started, closer, sweep, verdict >>
      /\ UNCHANGED << sent, rcvd, held, delivered >>
  BY DEF PushEos, appVars, workerVars
<1>4. DataInv'
  BY <1>1, <1>2, <1>3, DataEnd
<1>5. EndsKept /\ NoNewEof
  BY <1>1, <1>2, EndKeeps
<1>6. WorkerState' /\ EofChain' /\ ErrorHasOrigin' /\ ActiveCount' /\ BornWhenStarted'
  BY <1>3, <1>5, WorkersStay
<1>7. VerdictFinal'
  BY <1>3, <1>5, VerdictKept
<1>8. ControlTypeOK' /\ SweepBound'
  BY <1>3 DEF workerVars, IInv, TypeOK, ControlTypeOK, SweepBound
<1>9. QED
  BY <1>4, <1>5, <1>6, <1>7, <1>8 DEF IInv, TypeOK, DataInv

LEMMA PullFrameStep == ASSUME IInv, PullFrame PROVE IInv' /\ EndsKept
<1>1. DataInv /\ DataInv'
  BY InvParts, DataPullFrame
<1>2. EndsKept /\ NoNewEof
  BY <1>1, DequeueKeeps, ConstantTypes DEF PullFrame
<1>3. /\ UNCHANGED << workerVars, active, error, started, closer, sweep, verdict >>
      /\ UNCHANGED sent /\ rcvd' = [rcvd EXCEPT ![OutQ] = @ + 1]
  BY DEF PullFrame, appVars
<1>8. rcvd'[0] = rcvd[0]
  BY <1>1, <1>3, ConstantTypes DEF DataInv, DataTypeOK, OutQ
<1>4. WorkerState' /\ EofChain' /\ ErrorHasOrigin' /\ ActiveCount' /\ BornWhenStarted'
  BY <1>2, <1>3, <1>8, WorkersStay
<1>5. VerdictFinal'
  BY <1>2, <1>3, VerdictKept
<1>6. ControlTypeOK' /\ SweepBound'
  BY <1>3 DEF workerVars, IInv, TypeOK, ControlTypeOK, SweepBound
<1>7. QED
  BY <1>1, <1>2, <1>4, <1>5, <1>6 DEF IInv, TypeOK, DataInv

LEMMA PullEndStep == ASSUME IInv, PullEnd PROVE IInv' /\ EndsKept
<1>1. /\ UNCHANGED << workerVars, active, error, started, closer, sweep, queue >>
      /\ UNCHANGED << sent, rcvd, held, delivered >>
  BY DEF PullEnd, appVars, workerVars
<1>2. DataInv /\ DataInv'
  BY <1>1, InvParts, DataUnchanged DEF dataVars
<1>3. EndsKept /\ NoNewEof
  BY <1>1, <1>2, EndsUnchanged
<1>4. WorkerState' /\ EofChain' /\ ErrorHasOrigin' /\ ActiveCount' /\ BornWhenStarted'
  BY <1>1, <1>3, WorkersStay
<1>5. /\ queue[OutQ].end /\ queue[OutQ].buf = << >>
      /\ verdict' = queue[OutQ].status
  BY DEF PullEnd, MayPop, PopStatus
<1>6. VerdictFinal'
  BY <1>1, <1>5 DEF VerdictFinal, EndedWith
<1>7. queue[OutQ].status \in Statuses
  BY <1>2, DataNumbers, ConstantTypes DEF QueueType, Statuses, Benign
<1>8. ControlTypeOK' /\ SweepBound'
  BY <1>1, <1>5, <1>7 DEF workerVars, IInv, TypeOK, ControlTypeOK, SweepBound
<1>9. QED
  BY <1>2, <1>3, <1>4, <1>6, <1>8 DEF IInv, TypeOK, DataInv

LEMMA CloseBeginStep == ASSUME IInv, CloseBegin PROVE IInv' /\ EndsKept
<1>1. DataInv
  BY InvParts
<1>2. queue' = [queue EXCEPT ![0] = End(@, "Eof")] /\ 0 \in Queues
  BY CloseAndCancel, ConstantTypes DEF CloseBegin
<1>3. /\ UNCHANGED << workerVars, active, error, started, sweep, verdict >>
      /\ UNCHANGED << sent, rcvd, held, delivered >>
      /\ closer = "open" /\ closer' \in {"sweep", "closed"}
  BY DEF CloseBegin, workerVars
<1>4. DataInv'
  BY <1>1, <1>2, <1>3, DataEnd
<1>5. EndsKept /\ NoNewEof
  BY <1>1, <1>2, EndKeeps
<1>6. WorkerState' /\ EofChain' /\ ErrorHasOrigin' /\ ActiveCount' /\ BornWhenStarted'
  BY <1>3, <1>5, WorkersStay
<1>7. VerdictFinal'
  BY <1>3, <1>5, VerdictKept
<1>8. ControlTypeOK' /\ SweepBound'
  BY <1>3 DEF workerVars, IInv, TypeOK, ControlTypeOK, SweepBound
<1>9. QED
  BY <1>4, <1>5, <1>6, <1>7, <1>8 DEF IInv, TypeOK, DataInv

LEMMA CloseCancelStep == ASSUME IInv, CloseCancel PROVE IInv' /\ EndsKept
<1>1. DataInv /\ ControlTypeOK /\ SweepBound
  BY InvParts DEF ControlInv
<1>2. closer = "sweep" /\ sweep \in 0 .. NodeCount
  BY <1>1, ConstantTypes DEF CloseCancel, ControlTypeOK, SweepBound
<1>3. SweepOrder(sweep) \in Queues
  BY <1>2, ConstantTypes DEF SweepOrder, Queues, OutQ
<1>4. "Canceled" \in Errors \cup {"Eof"} /\ "Canceled" \in Errors
  BY DEF Errors
<1>5. queue' = [queue EXCEPT ![SweepOrder(sweep)] = End(@, "Canceled")]
  BY <1>4, CloseAndCancel DEF CloseCancel
<1>6. /\ UNCHANGED << workerVars, active, error, started, verdict >>
      /\ UNCHANGED << sent, rcvd, held, delivered >>
      /\ sweep' = sweep + 1
      /\ closer' = IF sweep = NodeCount THEN "join" ELSE "sweep"
  BY DEF CloseCancel, workerVars
<1>7. DataInv'
  BY <1>1, <1>3, <1>4, <1>5, <1>6, DataEnd
<1>8. EndsKept /\ NoNewEof
  BY <1>1, <1>3, <1>4, <1>5, EndKeeps
<1>9. WorkerState' /\ EofChain' /\ ErrorHasOrigin' /\ ActiveCount' /\ BornWhenStarted'
  BY <1>6, <1>8, WorkersStay
<1>10. VerdictFinal'
  BY <1>6, <1>8, VerdictKept
<1>11. ControlTypeOK' /\ SweepBound'
  BY <1>1, <1>2, <1>6, ConstantTypes
     DEF workerVars, ControlTypeOK, SweepBound
<1>12. QED
  BY <1>7, <1>8, <1>9, <1>10, <1>11 DEF IInv, TypeOK, DataInv

LEMMA CloseJoinStep == ASSUME IInv, CloseJoin PROVE IInv' /\ EndsKept
<1>1. /\ UNCHANGED << workerVars, active, error, started, verdict, queue, sweep >>
      /\ UNCHANGED << sent, rcvd, held, delivered >>
      /\ closer' = "closed"
  BY DEF CloseJoin, workerVars
<1>2. DataInv /\ DataInv'
  BY <1>1, InvParts, DataUnchanged DEF dataVars
<1>3. EndsKept /\ NoNewEof
  BY <1>1, <1>2, EndsUnchanged
<1>4. WorkerState' /\ EofChain' /\ ErrorHasOrigin' /\ ActiveCount' /\ BornWhenStarted'
  BY <1>1, <1>3, WorkersStay
<1>5. VerdictFinal'
  BY <1>1, <1>3, VerdictKept
<1>6. ControlTypeOK' /\ SweepBound'
  BY <1>1 DEF workerVars, IInv, TypeOK, ControlTypeOK, SweepBound
<1>7. QED
  BY <1>2, <1>3, <1>4, <1>5, <1>6 DEF IInv, TypeOK, DataInv

(* Starting turns every unborn worker into one that waits for a frame.     *)
LEMMA StartStep == ASSUME IInv, Start PROVE IInv' /\ EndsKept
<1>1. /\ UNCHANGED << held, status, cursor, error, verdict, queue, closer, sweep >>
      /\ UNCHANGED << sent, rcvd, delivered >>
      /\ ~started /\ started' = TRUE /\ active' = NodeCount
      /\ pc' = [v \in Workers |-> "pop"]
  BY DEF Start
<1>2. DataInv /\ DataInv'
  BY <1>1, InvParts, DataUnchanged DEF dataVars
<1>3. EndsKept /\ NoNewEof
  BY <1>1, <1>2, EndsUnchanged
<1>4. \A v \in Workers : pc[v] = "unborn" /\ pc'[v] = "pop"
  BY <1>1 DEF IInv, BornWhenStarted
<1>5. BornWhenStarted'
  BY <1>1, <1>4 DEF BornWhenStarted
<1>6. WorkerState'
  <2>1. ASSUME NEW v \in Workers PROVE WorkerAt(v)'
    <3>1. WorkerAt(v) /\ pc[v] = "unborn" /\ pc'[v] = "pop"
      BY <1>4 DEF IInv, WorkerState
    <3>2. QED
      BY <1>1, <3>1 DEF WorkerAt
  <2>2. QED
    BY <2>1 DEF WorkerState
<1>7. EofChain'
  <2>1. ASSUME NEW q \in 1 .. OutQ PROVE ~EndedWith(q, "Eof")'
    <3>1. 0 \in 0 .. q - 1 /\ pc[0] = "unborn"
      BY <1>4, ConstantTypes DEF OutQ
    <3>2. ~EndedWith(q, "Eof")
      BY <3>1 DEF IInv, EofChain
    <3>3. QED
      BY <1>1, <3>2 DEF EndedWith
  <2>2. QED
    BY <2>1 DEF EofChain
<1>8. ErrorHasOrigin'
  <2>1. error = "Ok"
    BY <1>4 DEF IInv, ErrorHasOrigin
  <2>2. QED
    BY <1>1, <2>1 DEF ErrorHasOrigin
<1>9. ActiveCount'
  <2>1. {v \in Workers : pc'[v] \notin {"unborn", "done"}} = Workers
    BY <1>4
  <2>2. Cardinality(Workers) = NodeCount
    <3>1. 0 \in Int /\ NodeCount - 1 \in Int
      BY ConstantTypes
    <3>2. Cardinality(0 .. NodeCount - 1)
            = IF 0 > NodeCount - 1 THEN 0 ELSE (NodeCount - 1) - 0 + 1
      BY <3>1, FS_Interval
    <3>3. QED
      BY <3>2, ConstantTypes DEF Workers
  <2>3. QED
    BY <1>1, <2>1, <2>2 DEF ActiveCount
<1>10. VerdictFinal'
  BY <1>1, <1>3, VerdictKept
<1>11. ControlTypeOK' /\ SweepBound'
  BY <1>1, ConstantTypes
     DEF IInv, TypeOK, ControlTypeOK, SweepBound, Points
<1>12. QED
  BY <1>2, <1>3, <1>5, <1>6, <1>7, <1>8, <1>9, <1>10, <1>11
     DEF IInv, TypeOK, DataInv

-----------------------------------------------------------------------------
(* The actions of the workers.                                             *)

(* A step of a worker that neither starts nor leaves: what is left to show *)
(* is where its frames and the worker itself are.                          *)
LEMMA WorkerMoves ==
  ASSUME IInv, NEW w \in Workers, OthersStay(w), EndsKept, NoNewEof,
         DataInv', WorkerAt(w)',
         pc[w] \in {"pop", "work", "flush"},
         pc' \in [Workers -> Points], pc'[w] \notin {"unborn", "done"},
         status' \in [Workers -> Statuses], cursor' = cursor,
         \A q \in 0 .. w : sent'[q] = sent[q], w # 0 => rcvd'[0] = rcvd[0],
         UNCHANGED << verdict, active, error, started, closer, sweep >>
  PROVE  IInv'
<1>1. WorkerState'
  BY OtherWorkers
<1>2. EofChain'
  BY EofChainKept
<1>3. ErrorHasOrigin'
  BY ErrorKept
<1>4. ActiveCount' /\ BornWhenStarted'
  BY ActiveKept
<1>5. VerdictFinal'
  BY VerdictKept
<1>6. ControlTypeOK' /\ SweepBound'
  BY DEF IInv, TypeOK, ControlTypeOK, SweepBound
<1>7. QED
  BY <1>1, <1>2, <1>3, <1>4, <1>5, <1>6 DEF IInv, TypeOK, DataInv

(* What the invariant says of a worker's own variables.                    *)
LEMMA WorkerTypes ==
  ASSUME IInv, NEW w \in Workers
  PROVE  /\ pc \in [Workers -> Points] /\ pc[w] \in Points
         /\ status \in [Workers -> Statuses] /\ status[w] \in Statuses
         /\ cursor \in [Workers -> 0 .. OutQ]
         /\ held \in [Workers -> Seq(1 .. MaxFrames)]
         /\ WorkerAt(w)
         /\ w \in Queues /\ w + 1 \in Queues
         /\ queue[w] \in QueueType /\ queue[w + 1] \in QueueType
BY InvParts, DataNumbers, ConstantTypes
   DEF IInv, TypeOK, DataTypeOK, ControlTypeOK, WorkerState

LEMMA PopFrameStep ==
  ASSUME IInv, NEW w \in Workers, PopFrame(w) PROVE IInv' /\ EndsKept
<1>1. /\ pc[w] = "pop" /\ pc' = [pc EXCEPT ![w] = "work"]
      /\ held' = [held EXCEPT ![w] = Append(@, Head(queue[w].buf))]
      /\ queue[w].buf # << >>
      /\ queue' = [queue EXCEPT ![w] = Dequeue(@)]
      /\ rcvd' = [rcvd EXCEPT ![w] = @ + 1]
      /\ UNCHANGED << sent, verdict, status, cursor, active, error >>
      /\ UNCHANGED << started, closer, sweep >>
  BY DEF PopFrame, Goto, appVars
<1>2. DataInv /\ DataInv'
  BY InvParts, DataPopFrame
<1>3. EndsKept /\ NoNewEof
  BY <1>1, <1>2, DequeueKeeps, WorkerTypes
<1>4. /\ pc' \in [Workers -> Points] /\ pc'[w] = "work"
      /\ status' \in [Workers -> Statuses]
      /\ OthersStay(w)
  BY <1>1, WorkerTypes DEF OthersStay, Points
<1>5. WorkerAt(w)'
  BY <1>1, <1>4, WorkerTypes DEF WorkerAt
<1>8. w # 0 => rcvd'[0] = rcvd[0]
  BY <1>1, <1>2, ConstantTypes DEF DataInv, DataTypeOK
<1>6. IInv'
  BY <1>1, <1>2, <1>3, <1>4, <1>5, <1>8, WorkerMoves
<1>7. QED
  BY <1>3, <1>6

LEMMA QueueEndsStep ==
  ASSUME IInv, NEW w \in Workers, PopEnd(w), QueueEnds(w)
  PROVE  IInv' /\ EndsKept
<1> DEFINE s == queue[w].status
<1>1. /\ pc[w] = "pop"
      /\ pc' = [pc EXCEPT ![w] = IF s = "Eof" THEN "flush" ELSE "fail"]
      /\ status' = [status EXCEPT ![w] = s]
      /\ queue[w].end /\ queue[w].buf = << >>
      /\ UNCHANGED << queue, sent, rcvd, delivered, verdict, held, cursor >>
      /\ UNCHANGED << active, error, started, closer, sweep >>
  BY DEF PopEnd, QueueEnds, MayPop, PopStatus, appVars
<1>2. DataInv /\ DataInv'
  BY <1>1, InvParts, DataUnchanged DEF dataVars
<1>3. EndsKept /\ NoNewEof
  BY <1>1, <1>2, EndsUnchanged
<1>4. s \in Errors \cup {"Eof"} /\ s \in Statuses
  BY WorkerTypes DEF QueueType, Statuses, Benign
<1> HIDE DEF s
<1>5. /\ pc' \in [Workers -> Points]
      /\ pc'[w] = IF s = "Eof" THEN "flush" ELSE "fail"
      /\ status' \in [Workers -> Statuses] /\ status'[w] = s
      /\ OthersStay(w)
  BY <1>1, <1>4, WorkerTypes DEF OthersStay, Points
<1>6. WorkerAt(w)'
  <2>1. CASE s = "Eof"
    <3>1. EndedWith(w, "Eof")' /\ queue'[w].buf = << >>
      BY <1>1, <2>1 DEF EndedWith, s
    <3>2. ~IsCodec(w) => held'[w] = << >>
      BY <1>1, WorkerTypes DEF WorkerAt
    <3>3. QED
      BY <1>5, <2>1, <3>1, <3>2 DEF WorkerAt
  <2>2. CASE s # "Eof"
    BY <1>4, <1>5, <2>2 DEF WorkerAt
  <2>3. QED
    BY <2>1, <2>2
<1>7. IInv'
  BY <1>1, <1>2, <1>3, <1>5, <1>6, WorkerMoves
<1>8. QED
  BY <1>3, <1>7

(* While a worker is inside its node the queue ahead cannot have ended     *)
(* with Eof.                                                               *)
LEMMA AheadNotEof ==
  ASSUME IInv, NEW w \in Workers, pc[w] \notin {"leave", "done"}
  PROVE  ~EndedWith(w + 1, "Eof")
<1>1. w + 1 \in 1 .. OutQ /\ w \in 0 .. (w + 1) - 1
  BY ConstantTypes DEF Workers, OutQ
<1>2. QED
  BY <1>1 DEF IInv, EofChain

LEMMA EmitStep ==
  ASSUME IInv, NEW w \in Workers, Emit(w) PROVE IInv' /\ EndsKept
<1>1. /\ pc[w] \in {"work", "flush"} /\ held[w] # << >>
      /\ held' = [held EXCEPT ![w] = Tail(@)]
      /\ sent' = [sent EXCEPT ![w + 1] = @ + 1]
      /\ UNCHANGED << verdict, pc, status, cursor, active, error >>
      /\ UNCHANGED << started, closer, sweep >>
  BY DEF Emit, appVars
<1>2. DataInv
  BY InvParts
<1>3. DataInv' /\ EndsKept /\ NoNewEof
  <2>1. CASE w = Sink /\ FileSink
    <3>1. OutQ \in Queues /\ OutQ = w + 1 /\ UNCHANGED queue
      BY <2>1, ConstantTypes DEF Emit, OutQ, Sink
    <3>2. DataInv'
      BY <1>2, <2>1, <3>1, DataEmitFile
    <3>3. QED
      BY <1>2, <3>1, <3>2, EndsUnchanged
  <2>2. CASE ~(w = Sink /\ FileSink)
    <3>1. w + 1 \in Queues
      BY ConstantTypes
    <3>2. DataInv'
      BY <1>2, <2>2, <3>1, DataEmitQueue
    <3>3. ~queue[w + 1].end
      BY <2>2, OpenQueue, WorkerTypes DEF Emit
    <3>4. Head(held[w]) \in 1 .. MaxFrames
      BY <1>1, <1>2, TailType, DataNumbers
    <3>5. queue' = [queue EXCEPT ![w + 1] = Enqueue(@, Head(held[w]))]
      BY <2>2 DEF Emit
    <3>6. QED
      BY <1>2, <3>1, <3>2, <3>3, <3>4, <3>5, EnqueueKeeps
  <2>3. QED
    BY <2>1, <2>2
<1>4. OthersStay(w)
  BY <1>1, WorkerTypes DEF OthersStay
<1>5. \A q \in 0 .. w : sent'[q] = sent[q]
  BY <1>1, ConstantTypes DEF IInv, TypeOK, DataTypeOK, Workers, Queues
<1>10. rcvd'[0] = rcvd[0]
  <2>1. OutQ # 0 /\ 0 \in Queues
    BY ConstantTypes DEF OutQ
  <2>2. rcvd \in [Queues -> 0 .. MaxFrames]
    BY <1>2 DEF DataInv, DataTypeOK
  <2>3. rcvd' = rcvd \/ rcvd' = [rcvd EXCEPT ![OutQ] = @ + 1]
    BY DEF Emit
  <2>4. QED
    BY <2>1, <2>2, <2>3
<1>6. WorkerAt(w)'
  <2>1. CASE pc[w] = "work"
    BY <1>1, <2>1, WorkerTypes DEF WorkerAt
  <2>2. CASE pc[w] = "flush"
    <3>1. WorkerAt(w) /\ IsCodec(w)
      BY <1>1, <2>2, WorkerTypes DEF WorkerAt
    <3>2. EndedWith(w, "Eof")' /\ queue'[w].buf = << >>
      BY <1>3, <2>2, <3>1, WorkerTypes DEF WorkerAt, EndsKept, EndedWith, IsCodec
    <3>3. QED
      BY <1>1, <2>2, <3>1, <3>2 DEF WorkerAt
  <2>3. QED
    BY <1>1, <2>1, <2>2
<1>7. /\ pc' \in [Workers -> Points] /\ status' \in [Workers -> Statuses]
      /\ pc'[w] \notin {"unborn", "done"}
      /\ pc[w] \in {"pop", "work", "flush"}
  BY <1>1, WorkerTypes
<1>8. IInv'
  BY <1>1, <1>3, <1>4, <1>5, <1>6, <1>7, <1>10, WorkerMoves
<1>9. QED
  BY <1>3, <1>8

LEMMA EmitRefusedStep ==
  ASSUME IInv, NEW w \in Workers, EmitRefused(w) PROVE IInv' /\ EndsKept
<1> DEFINE s == PushStatus(queue[w + 1])
<1>1. pc[w] \in {"work", "flush"} /\ s # "Ok"
  BY DEF EmitRefused
<1>2. s \in Errors /\ s # "Eof"
  <2>1. queue[w + 1].end /\ s = queue[w + 1].status
    BY <1>1 DEF PushStatus
  <2>2. s # "Eof"
    BY <1>1, <2>1, AheadNotEof DEF EndedWith
  <2>3. QED
    BY <2>1, <2>2, WorkerTypes DEF QueueType
<1>3. /\ pc' = [pc EXCEPT ![w] = "fail"]
      /\ status' = [status EXCEPT ![w] = s]
      /\ UNCHANGED << queue, sent, rcvd, delivered, verdict, held, cursor >>
      /\ UNCHANGED << active, error, started, closer, sweep >>
  BY <1>2 DEF EmitRefused, appVars
<1> HIDE DEF s
<1>4. DataInv /\ DataInv'
  BY <1>3, InvParts, DataUnchanged DEF dataVars
<1>5. EndsKept /\ NoNewEof
  BY <1>3, <1>4, EndsUnchanged
<1>6. /\ pc' \in [Workers -> Points] /\ pc'[w] = "fail"
      /\ status' \in [Workers -> Statuses] /\ status'[w] = s
      /\ OthersStay(w)
  BY <1>2, <1>3, WorkerTypes DEF OthersStay, Points, Statuses
<1>7. WorkerAt(w)'
  BY <1>2, <1>6 DEF WorkerAt
<1>8. IInv'
  BY <1>1, <1>3, <1>4, <1>5, <1>6, <1>7, WorkerMoves
<1>9. QED
  BY <1>5, <1>8

LEMMA ProcessOkStep ==
  ASSUME IInv, NEW w \in Workers, ProcessOk(w) PROVE IInv' /\ EndsKept
<1>1. /\ pc[w] = "work" /\ pc' = [pc EXCEPT ![w] = "pop"]
      /\ Len(held[w]) <= IF IsCodec(w) THEN Lookahead ELSE 0
      /\ UNCHANGED << queue, sent, rcvd, delivered, verdict, held, cursor, status >>
      /\ UNCHANGED << active, error, started, closer, sweep >>
  BY DEF ProcessOk, Goto, appVars
<1>2. DataInv /\ DataInv'
  BY <1>1, InvParts, DataUnchanged DEF dataVars
<1>3. EndsKept /\ NoNewEof
  BY <1>1, <1>2, EndsUnchanged
<1>4. /\ pc' \in [Workers -> Points] /\ pc'[w] = "pop"
      /\ status' \in [Workers -> Statuses]
      /\ OthersStay(w)
  BY <1>1, WorkerTypes DEF OthersStay, Points
<1>5. ~IsCodec(w) => held'[w] = << >>
  <2>1. held[w] \in Seq(1 .. MaxFrames)
    BY <1>2, DataNumbers
  <2>2. Len(held[w]) <= 0 => held[w] = << >>
    BY <2>1, EmptySeq
  <2>3. QED
    BY <1>1, <2>2
<1>6. WorkerAt(w)'
  BY <1>1, <1>4, <1>5, WorkerTypes DEF WorkerAt
<1>7. IInv'
  BY <1>1, <1>2, <1>3, <1>4, <1>6, WorkerMoves
<1>8. QED
  BY <1>3, <1>7

(* The source that cannot read on leaves the rest of the file behind.      *)
LEMMA ReadFailsStep ==
  ASSUME IInv, NEW w \in Workers, PopEnd(w), ReadFails(w)
  PROVE  IInv' /\ EndsKept
<1>1. /\ w = 0 /\ FileSource /\ pc[w] = "pop"
      /\ pc' = [pc EXCEPT ![w] = "flush"]
      /\ status' = [status EXCEPT ![w] = "Eof"]
      /\ UNCHANGED << queue, sent, rcvd, delivered, verdict, held, cursor >>
      /\ UNCHANGED << active, error, started, closer, sweep >>
  BY DEF PopEnd, ReadFails, appVars
<1>2. DataInv /\ DataInv'
  BY <1>1, InvParts, DataUnchanged DEF dataVars
<1>3. EndsKept /\ NoNewEof
  BY <1>1, <1>2, EndsUnchanged
<1>4. /\ pc' \in [Workers -> Points] /\ pc'[w] = "flush"
      /\ status' \in [Workers -> Statuses] /\ status'[w] = "Eof"
      /\ OthersStay(w)
  BY <1>1, WorkerTypes DEF OthersStay, Points, Statuses, Benign
<1>5. held'[w] = << >>
  BY <1>1, WorkerTypes DEF WorkerAt, IsCodec
<1>7. WorkerAt(w)'
  BY <1>1, <1>4, <1>5 DEF WorkerAt
<1>8. IInv'
  BY <1>1, <1>2, <1>3, <1>4, <1>7, WorkerMoves
<1>9. QED
  BY <1>3, <1>8

LEMMA NodeFailsStep ==
  ASSUME IInv, NEW w \in Workers, NodeFails(w) PROVE IInv' /\ EndsKept
<1>1. PICK s \in NodeStatuses : /\ status' = [status EXCEPT ![w] = s]
                                /\ pc' = [pc EXCEPT ![w] = "fail"]
  BY DEF NodeFails, Reports
<1>2. /\ pc[w] \in {"pop", "work", "flush"}
      /\ UNCHANGED << queue, sent, rcvd, delivered, verdict, held, cursor >>
      /\ UNCHANGED << active, error, started, closer, sweep >>
  BY DEF NodeFails, appVars
<1>3. DataInv /\ DataInv'
  BY <1>2, InvParts, DataUnchanged DEF dataVars
<1>4. EndsKept /\ NoNewEof
  BY <1>2, <1>3, EndsUnchanged
<1>5. s \in Errors /\ s \in Statuses
  BY DEF Errors, Statuses
<1>6. /\ pc' \in [Workers -> Points] /\ pc'[w] = "fail"
      /\ status' \in [Workers -> Statuses] /\ status'[w] = s
      /\ OthersStay(w)
  BY <1>1, <1>2, <1>5, WorkerTypes DEF OthersStay, Points
<1>7. WorkerAt(w)'
  BY <1>5, <1>6 DEF WorkerAt
<1>8. IInv'
  BY <1>2, <1>3, <1>4, <1>6, <1>7, WorkerMoves
<1>9. QED
  BY <1>4, <1>8

(* The end of the stream moves on only behind the last frame: a node that  *)
(* leaves has emitted all it took from a queue that had given out all.     *)
LEMMA FlushOkStep ==
  ASSUME IInv, NEW w \in Workers, FlushOk(w) PROVE IInv' /\ EndsKept
<1>1. /\ pc[w] = "flush" /\ pc' = [pc EXCEPT ![w] = "leave"]
      /\ IsCodec(w) => held[w] = << >>
      /\ queue' = [queue EXCEPT ![w + 1] = End(@, "Eof")]
      /\ UNCHANGED << sent, rcvd, delivered, verdict, held, cursor, status >>
      /\ UNCHANGED << active, error, started, closer, sweep >>
  BY CloseAndCancel DEF FlushOk, Goto, appVars
<1>2. DataInv /\ w + 1 \in Queues /\ w \in Queues
  BY InvParts, ConstantTypes
<1>3. DataInv'
  BY <1>1, <1>2, DataEnd
<1>4. EndsKept /\ queue'[w + 1].end /\ \A p \in Queues \ {w + 1} : queue'[p] = queue[p]
  BY <1>1, <1>2, EndKeeps
<1>5. /\ pc' \in [Workers -> Points] /\ pc'[w] = "leave"
      /\ OthersStay(w)
  BY <1>1, WorkerTypes DEF OthersStay, Points
<1>6. WorkerState'
  <2>1. w = Sink => w + 1 = OutQ
    BY ConstantTypes DEF OutQ, Sink
  <2>2. WorkerAt(w)'
    BY <1>4, <1>5, <2>1 DEF WorkerAt
  <2>3. QED
    BY <1>4, <1>5, <2>2, OtherWorkers
<1>7. /\ status[w] = "Eof" /\ held[w] = << >>
      /\ \/ EndedWith(w, "Eof") /\ queue[w].buf = << >>
         \/ w = 0 /\ FileSource
  BY <1>1, WorkerTypes DEF WorkerAt
<1>8. /\ sent[w + 1] = rcvd[w]
      /\ ~(w = 0 /\ FileSource) => sent[w + 1] = sent[w]
  <2>1. /\ sent[w] = rcvd[w] + Len(queue[w].buf)
        /\ rcvd[w] = sent[w + 1] + Len(held[w])
        /\ sent[w + 1] \in Nat /\ rcvd[w] \in Nat
    BY <1>2, DataNumbers
  <2>2. Len(held[w]) = 0 /\ (~(w = 0 /\ FileSource) => Len(queue[w].buf) = 0)
    BY <1>7
  <2>3. QED
    BY <2>1, <2>2
<1>9. EofChain'
  <2>1. ASSUME NEW q \in 1 .. OutQ, EndedWith(q, "Eof")'
        PROVE  /\ sent'[q] = Accepted'
               /\ FileSource \/ queue'[0].end
               /\ \A v \in 0 .. q - 1 : pc'[v] \in {"leave", "done"}
                                        /\ status'[v] = "Eof"
    <3>1. q \in Queues /\ w + 1 # 0 /\ 0 \in Queues
      BY ConstantTypes DEF Queues, OutQ, Workers
    <3>2. CASE q # w + 1
      <4>1. EndedWith(q, "Eof")
        BY <1>4, <2>1, <3>1, <3>2 DEF EndedWith
      <4>2. /\ sent[q] = Accepted
            /\ FileSource \/ queue[0].end
            /\ \A v \in 0 .. q - 1 : pc[v] \in {"leave", "done"}
                                     /\ status[v] = "Eof"
        BY <4>1 DEF IInv, EofChain
      <4>3. \A v \in 0 .. q - 1 : v \in Workers /\ v # w
        BY <1>1, <4>2, ConstantTypes DEF OutQ, Workers
      <4>4. QED
        <5>1. \A v \in 0 .. q - 1 : pc'[v] \in {"leave", "done"}
                                   /\ status'[v] = "Eof"
          BY <1>1, <1>5, <4>2, <4>3 DEF OthersStay
        <5>2. queue[0].end => queue'[0].end
          BY <1>4, <3>1
        <5>3. sent'[q] = sent[q] /\ Accepted' = Accepted
          BY <1>1 DEF Accepted
        <5>4. QED
          BY <4>2, <5>1, <5>2, <5>3
    <3>3. CASE q = w + 1
      <4>1. /\ sent[w + 1] = Accepted
            /\ FileSource \/ queue[0].end
            /\ \A v \in 0 .. w - 1 : pc[v] \in {"leave", "done"}
                                     /\ status[v] = "Eof"
        <5>1. CASE w = 0
          <6>1. \A v \in 0 .. w - 1 : FALSE
            BY <5>1
          <6>2. QED
            BY <1>7, <1>8, <5>1, <6>1 DEF EndedWith, Accepted
        <5>2. CASE w # 0
          <6>1. w \in 1 .. OutQ
            BY <5>2, ConstantTypes DEF Workers, OutQ
          <6>2. QED
            BY <1>7, <1>8, <5>2, <6>1 DEF IInv, EofChain
        <5>3. QED
          BY <5>1, <5>2
      <4>2. \A v \in 0 .. q - 1 : v = w \/ (v \in 0 .. w - 1 /\ v \in Workers \ {w})
        BY <3>3, ConstantTypes DEF Workers
      <4>3. \A v \in 0 .. q - 1 : pc'[v] \in {"leave", "done"} /\ status'[v] = "Eof"
        BY <1>1, <1>5, <1>7, <4>1, <4>2 DEF OthersStay
      <4>4. QED
        <5>1. queue[0].end => queue'[0].end
          BY <1>4, <3>1
        <5>2. sent'[q] = sent[w + 1] /\ Accepted' = Accepted
          BY <1>1, <3>3 DEF Accepted
        <5>3. QED
          BY <4>1, <4>3, <5>1, <5>2
    <3>4. QED
      BY <3>2, <3>3
  <2>2. QED
    BY <2>1 DEF EofChain
<1>10. ErrorHasOrigin'
  BY <1>1, <1>5, ErrorKept
<1>11. ActiveCount' /\ BornWhenStarted'
  BY <1>1, <1>5, ActiveKept
<1>12. VerdictFinal'
  BY <1>1, <1>4, VerdictKept
<1>13. ControlTypeOK' /\ SweepBound'
  BY <1>1, <1>5 DEF IInv, TypeOK, ControlTypeOK, SweepBound
<1>14. QED
  BY <1>3, <1>4, <1>6, <1>9, <1>10, <1>11, <1>12, <1>13
     DEF IInv, TypeOK, DataInv

LEMMA FailRecordStep ==
  ASSUME IInv, NEW w \in Workers, FailRecord(w)
  PROVE  IInv' /\ EndsKept /\ (error # "Ok" => error' = error)
<1>1. /\ pc[w] = "fail"
      /\ UNCHANGED << queue, sent, rcvd, delivered, verdict, held, status >>
      /\ UNCHANGED << active, started, closer, sweep >>
  BY DEF FailRecord, appVars
<1>2. status[w] \in Errors /\ status[w] \notin Benign
  BY <1>1, WorkerTypes, ConstantTypes DEF WorkerAt, Benign
<1>3. \/ /\ error # "Ok" /\ error' = error /\ cursor' = cursor
         /\ pc' = [pc EXCEPT ![w] = AfterFail(w)]
      \/ /\ error = "Ok" /\ error' = status[w]
         /\ cursor' = [cursor EXCEPT ![w] = 0]
         /\ pc' = [pc EXCEPT ![w] = "cancel"]
  BY <1>2 DEF FailRecord, FirstError
<1>4. AfterFail(w) \in Points /\ AfterFail(w) \in {"endout", "leave"}
  BY DEF AfterFail, Points
<1>5. DataInv /\ DataInv'
  BY <1>1, InvParts, DataUnchanged DEF dataVars
<1>6. EndsKept /\ NoNewEof
  BY <1>1, <1>5, EndsUnchanged
<1>7. /\ pc' \in [Workers -> Points]
      /\ pc'[w] \in {"cancel", "endout", "leave"}
      /\ cursor' \in [Workers -> 0 .. OutQ]
      /\ OthersStay(w)
  <2>1. 0 \in 0 .. OutQ
    BY ConstantTypes DEF OutQ
  <2>2. CASE error # "Ok"
    BY <1>1, <1>3, <1>4, <2>2, WorkerTypes DEF OthersStay
  <2>3. CASE error = "Ok"
    <3>1. /\ cursor' = [cursor EXCEPT ![w] = 0]
          /\ pc' = [pc EXCEPT ![w] = "cancel"]
      BY <1>3, <2>3
    <3>2. "cancel" \in Points
      BY DEF Points
    <3>3. QED
      BY <1>1, <2>1, <3>1, <3>2, WorkerTypes DEF OthersStay
  <2>4. QED
    BY <2>2, <2>3
<1>8. WorkerState'
  <2>1. CASE error # "Ok"
    <3>1. pc'[w] = AfterFail(w) /\ status'[w] = status[w]
      BY <1>1, <1>3, <2>1, WorkerTypes
    <3>2. pc'[w] = IF w = Sink THEN "endout" ELSE "leave"
      BY <3>1 DEF AfterFail
    <3>3. WorkerAt(w)'
      BY <1>2, <3>1, <3>2 DEF WorkerAt
    <3>4. QED
      BY <1>6, <1>7, <3>3, OtherWorkers
  <2>2. CASE error = "Ok"
    <3>1. pc'[w] = "cancel" /\ status'[w] = status[w] /\ cursor'[w] = 0
      BY <1>1, <1>2, <1>3, <2>2, WorkerTypes
    <3>2. 0 < OutQ
      BY ConstantTypes DEF OutQ
    <3>3. WorkerAt(w)'
      BY <1>2, <3>1, <3>2 DEF WorkerAt
    <3>4. QED
      BY <1>6, <1>7, <3>3, OtherWorkers
  <2>3. QED
    BY <2>1, <2>2
<1>9. EofChain'
  BY <1>1, <1>6, <1>7, EofChainKept
<1>10. ErrorHasOrigin'
  <2>1. CASE error # "Ok"
    BY <1>1, <1>3, <1>7, <2>1, ErrorKept
  <2>2. CASE error = "Ok"
    <3>1. status'[w] = error' /\ pc'[w] = "cancel"
      BY <1>1, <1>3, <2>2, WorkerTypes
    <3>2. QED
      BY <3>1 DEF ErrorHasOrigin
  <2>3. QED
    BY <2>1, <2>2
<1>11. ActiveCount' /\ BornWhenStarted'
  BY <1>1, <1>7, ActiveKept
<1>12. VerdictFinal'
  BY <1>1, <1>6, VerdictKept
<1>13. ControlTypeOK' /\ SweepBound'
  BY <1>1, <1>2, <1>3, <1>7 DEF IInv, TypeOK, ControlTypeOK, SweepBound
<1>14. error # "Ok" => error' = error
  BY <1>3
<1>15. QED
  BY <1>5, <1>6, <1>8, <1>9, <1>10, <1>11, <1>12, <1>13, <1>14
     DEF IInv, TypeOK, DataInv

LEMMA FailCancelStep ==
  ASSUME IInv, NEW w \in Workers, FailCancel(w) PROVE IInv' /\ EndsKept
<1>1. /\ pc[w] = "cancel"
      /\ cursor' = [cursor EXCEPT ![w] = @ + 1]
      /\ pc' = [pc EXCEPT ![w] =
                  IF cursor[w] + 1 = OutQ THEN AfterFail(w) ELSE "cancel"]
      /\ UNCHANGED << sent, rcvd, delivered, verdict, held, status >>
      /\ UNCHANGED << active, error, started, closer, sweep >>
  BY DEF FailCancel, AfterCancel, appVars
<1>2. status[w] \in Errors /\ cursor[w] < OutQ /\ cursor[w] \in 0 .. OutQ
  BY <1>1, WorkerTypes DEF WorkerAt
<1>3. /\ cursor[w] \in Queues /\ cursor[w] + 1 \in 0 .. OutQ
      /\ cursor[w] + 1 # OutQ => cursor[w] + 1 < OutQ
  BY <1>2, ConstantTypes DEF Queues, OutQ
<1>4. queue' = [queue EXCEPT ![cursor[w]] = End(@, status[w])]
  BY <1>2, CloseAndCancel DEF FailCancel
<1>5. DataInv /\ status[w] \in Errors \cup {"Eof"} /\ status[w] # "Eof"
  BY <1>2, InvParts, ConstantTypes
<1>6. DataInv'
  BY <1>1, <1>3, <1>4, <1>5, DataEnd
<1>7. EndsKept /\ NoNewEof
  BY <1>3, <1>4, <1>5, EndKeeps
<1>8. AfterFail(w) \in Points /\ AfterFail(w) \in {"endout", "leave"}
  BY DEF AfterFail, Points
<1>9. /\ pc' \in [Workers -> Points]
      /\ pc'[w] \in {"cancel", "endout", "leave"}
      /\ pc'[w] = IF cursor[w] + 1 = OutQ THEN AfterFail(w) ELSE "cancel"
      /\ cursor' \in [Workers -> 0 .. OutQ] /\ cursor'[w] = cursor[w] + 1
      /\ status'[w] = status[w]
      /\ OthersStay(w)
  BY <1>1, <1>3, <1>8, WorkerTypes DEF OthersStay
<1>10. WorkerState'
  <2>1. WorkerAt(w)'
    <3>1. CASE cursor[w] + 1 = OutQ
      <4>1. pc'[w] = IF w = Sink THEN "endout" ELSE "leave"
        BY <1>9, <3>1 DEF AfterFail
      <4>2. QED
        BY <1>2, <1>9, <4>1 DEF WorkerAt
    <3>2. CASE cursor[w] + 1 # OutQ
      BY <1>2, <1>3, <1>9, <3>2 DEF WorkerAt
    <3>3. QED
      BY <3>1, <3>2
  <2>2. QED
    BY <1>7, <1>9, <2>1, OtherWorkers
<1>11. EofChain'
  BY <1>1, <1>7, <1>9, EofChainKept
<1>12. ErrorHasOrigin'
  BY <1>1, <1>9, ErrorKept
<1>13. ActiveCount' /\ BornWhenStarted'
  BY <1>1, <1>9, ActiveKept
<1>14. VerdictFinal'
  BY <1>1, <1>7, VerdictKept
<1>15. ControlTypeOK' /\ SweepBound'
  BY <1>1, <1>9 DEF IInv, TypeOK, ControlTypeOK, SweepBound
<1>16. QED
  BY <1>6, <1>7, <1>10, <1>11, <1>12, <1>13, <1>14, <1>15
     DEF IInv, TypeOK, DataInv

LEMMA EndOutputStep ==
  ASSUME IInv, NEW w \in Workers, EndOutput(w) PROVE IInv' /\ EndsKept
<1>1. /\ pc[w] = "endout" /\ pc' = [pc EXCEPT ![w] = "leave"]
      /\ UNCHANGED << sent, rcvd, delivered, verdict, held, cursor, status >>
      /\ UNCHANGED << active, error, started, closer, sweep >>
  BY DEF EndOutput, Goto, appVars
<1>2. /\ DataInv /\ OutQ \in Queues
      /\ status[w] \in Errors /\ status[w] \in Errors \cup {"Eof"}
      /\ status[w] # "Eof"
  BY <1>1, InvParts, WorkerTypes, ConstantTypes DEF WorkerAt
<1>3. queue' = [queue EXCEPT ![OutQ] = End(@, status[w])]
  BY <1>2, CloseAndCancel DEF EndOutput
<1>4. DataInv'
  BY <1>1, <1>2, <1>3, DataEnd
<1>5. EndsKept /\ NoNewEof /\ queue'[OutQ].end
  BY <1>2, <1>3, EndKeeps
<1>6. /\ pc' \in [Workers -> Points] /\ pc'[w] = "leave"
      /\ status'[w] = status[w]
      /\ OthersStay(w)
  BY <1>1, WorkerTypes DEF OthersStay, Points
<1>7. WorkerState'
  <2>1. WorkerAt(w)'
    BY <1>5, <1>6 DEF WorkerAt
  <2>2. QED
    BY <1>5, <1>6, <2>1, OtherWorkers
<1>8. EofChain'
  BY <1>1, <1>5, <1>6, EofChainKept
<1>9. ErrorHasOrigin'
  BY <1>1, <1>6, ErrorKept
<1>10. ActiveCount' /\ BornWhenStarted'
  BY <1>1, <1>6, ActiveKept
<1>11. VerdictFinal'
  BY <1>1, <1>5, VerdictKept
<1>12. ControlTypeOK' /\ SweepBound'
  BY <1>1, <1>6 DEF IInv, TypeOK, ControlTypeOK, SweepBound
<1>13. QED
  BY <1>4, <1>5, <1>7, <1>8, <1>9, <1>10, <1>11, <1>12
     DEF IInv, TypeOK, DataInv

LEMMA LeaveStep ==
  ASSUME IInv, NEW w \in Workers, Leave(w) PROVE IInv' /\ EndsKept
<1>1. /\ pc[w] = "leave" /\ pc' = [pc EXCEPT ![w] = "done"]
      /\ active' = IF active > 0 THEN active - 1 ELSE active
      /\ UNCHANGED << queue, sent, rcvd, delivered, verdict, held, cursor, status >>
      /\ UNCHANGED << error, started, closer, sweep >>
  BY DEF Leave, Goto, appVars
<1>2. DataInv /\ DataInv'
  BY <1>1, InvParts, DataUnchanged DEF dataVars
<1>3. EndsKept /\ NoNewEof
  BY <1>1, <1>2, EndsUnchanged
<1>4. /\ pc' \in [Workers -> Points] /\ pc'[w] = "done"
      /\ status'[w] = status[w]
      /\ OthersStay(w)
  BY <1>1, WorkerTypes DEF OthersStay, Points
<1>5. WorkerState'
  <2>1. WorkerAt(w)'
    BY <1>1, <1>4, WorkerTypes DEF WorkerAt
  <2>2. QED
    BY <1>3, <1>4, <2>1, OtherWorkers
<1>6. EofChain'
  <2>1. ASSUME NEW q \in 1 .. OutQ, EndedWith(q, "Eof")'
        PROVE  /\ sent'[q] = Accepted'
               /\ FileSource \/ queue'[0].end
               /\ \A v \in 0 .. q - 1 : pc'[v] \in {"leave", "done"}
                                        /\ status'[v] = "Eof"
    <3>1. /\ sent[q] = Accepted
          /\ FileSource \/ queue[0].end
          /\ \A v \in 0 .. q - 1 : pc[v] \in {"leave", "done"}
                                   /\ status[v] = "Eof"
      BY <1>3, <2>1 DEF NoNewEof, IInv, EofChain
    <3>2. \A v \in 0 .. q - 1 : v \in Workers
      BY ConstantTypes DEF OutQ, Workers
    <3>3. \A v \in 0 .. q - 1 : pc'[v] \in {"leave", "done"} /\ status'[v] = "Eof"
      BY <1>1, <1>4, <3>1, <3>2 DEF OthersStay
    <3>4. Accepted' = Accepted
      BY <1>1 DEF Accepted
    <3>5. QED
      BY <1>1, <3>1, <3>3, <3>4
  <2>2. QED
    BY <2>1 DEF EofChain
<1>7. ErrorHasOrigin'
  BY <1>1, <1>4, ErrorKept
<1>8. BornWhenStarted'
  BY <1>1, <1>4, WorkerTypes DEF IInv, BornWhenStarted, OthersStay
<1> DEFINE Running == {v \in Workers : pc[v] \notin {"unborn", "done"}}
           Left    == {v \in Workers : pc'[v] \notin {"unborn", "done"}}
<1>9. IsFiniteSet(Running) /\ w \in Running /\ Left = Running \ {w}
  <2>1. IsFiniteSet(0 .. NodeCount - 1)
    BY ConstantTypes, FS_Interval
  <2>2. IsFiniteSet(Running)
    BY <2>1, FS_Subset DEF Workers
  <2>3. w \in Running
    BY <1>1
  <2>4. Left = Running \ {w}
    BY <1>4 DEF OthersStay
  <2>5. QED
    BY <2>2, <2>3, <2>4
<1>10. active = Cardinality(Running)
  BY DEF IInv, ActiveCount
<1> HIDE DEF Running, Left
<1>11. /\ Cardinality(Left) = Cardinality(Running) - 1
       /\ Cardinality(Running) \in Nat /\ Cardinality(Left) \in Nat
  BY <1>9, FS_RemoveElement, FS_CardinalityType
<1>12. active' = Cardinality(Left) /\ active' \in Nat /\ active' <= active
  BY <1>1, <1>10, <1>11
<1>13. ActiveCount'
  BY <1>12 DEF ActiveCount, Left
<1>14. VerdictFinal'
  BY <1>1, <1>3, VerdictKept
<1>15. ControlTypeOK' /\ SweepBound'
  BY <1>1, <1>4, <1>12, ConstantTypes
     DEF IInv, TypeOK, ControlTypeOK, SweepBound
<1>16. QED
  BY <1>2, <1>3, <1>5, <1>6, <1>7, <1>8, <1>13, <1>14, <1>15
     DEF IInv, TypeOK, DataInv

-----------------------------------------------------------------------------
(* The inductive invariant and what follows from it.                       *)

LEMMA WorkerStepInv ==
  ASSUME IInv, NEW w \in Workers, WorkerStep(w)
  PROVE  IInv' /\ EndsKept /\ (error # "Ok" => error' = error)
<1>1. CASE PopFrame(w)
  BY <1>1, PopFrameStep DEF PopFrame
<1>2. CASE PopEnd(w)
  BY <1>2, QueueEndsStep, ReadFailsStep DEF PopEnd
<1>3. CASE Emit(w)
  BY <1>3, EmitStep DEF Emit
<1>4. CASE EmitRefused(w)
  BY <1>4, EmitRefusedStep DEF EmitRefused
<1>5. CASE ProcessOk(w)
  BY <1>5, ProcessOkStep DEF ProcessOk
<1>6. CASE NodeFails(w)
  BY <1>6, NodeFailsStep DEF NodeFails
<1>7. CASE FlushOk(w)
  BY <1>7, FlushOkStep DEF FlushOk
<1>8. CASE FailRecord(w)
  BY <1>8, FailRecordStep
<1>9. CASE FailCancel(w)
  BY <1>9, FailCancelStep DEF FailCancel
<1>10. CASE EndOutput(w)
  BY <1>10, EndOutputStep DEF EndOutput
<1>11. CASE Leave(w)
  BY <1>11, LeaveStep DEF Leave
<1>12. QED
  BY <1>1, <1>2, <1>3, <1>4, <1>5, <1>6, <1>7, <1>8, <1>9, <1>10, <1>11 DEF WorkerStep

LEMMA StepInv ==
  ASSUME IInv, [Next]_vars
  PROVE  IInv' /\ EndsKept /\ (error # "Ok" => error' = error)
<1>1. CASE Push
  BY <1>1, PushStep DEF Push
<1>2. CASE PushEos
  BY <1>2, PushEosStep DEF PushEos
<1>3. CASE Pull
  BY <1>3, PullFrameStep, PullEndStep DEF Pull, PullFrame, PullEnd
<1>4. CASE Start
  BY <1>4, StartStep DEF Start
<1>5. ASSUME NEW w \in Workers, WorkerStep(w)
      PROVE  IInv' /\ EndsKept /\ (error # "Ok" => error' = error)
  BY <1>5, WorkerStepInv
<1>6. CASE CloseBegin
  BY <1>6, CloseBeginStep DEF CloseBegin
<1>7. CASE CloserStep
  BY <1>7, CloseCancelStep, CloseJoinStep DEF CloserStep, CloseCancel, CloseJoin
<1>8. CASE UNCHANGED vars
  <2>1. DataInv /\ UNCHANGED queue
    BY <1>8, InvParts DEF vars
  <2>2. EndsKept
    BY <2>1, EndsUnchanged
  <2>3. DataInv'
    BY <1>8, <2>1, DataUnchanged DEF vars, dataVars, workerVars
  <2>4. NoNewEof
    BY <2>1, EndsUnchanged
  <2>5. WorkerState' /\ EofChain' /\ ErrorHasOrigin' /\ ActiveCount' /\ BornWhenStarted'
    BY <1>8, <2>2, <2>4, WorkersStay DEF vars, appVars
  <2>6. VerdictFinal'
    BY <1>8, <2>2, VerdictKept DEF vars
  <2>7. ControlTypeOK' /\ SweepBound'
    BY <1>8 DEF vars, workerVars, appVars, IInv, TypeOK, ControlTypeOK, SweepBound
  <2>8. QED
    BY <1>8, <2>2, <2>3, <2>5, <2>6, <2>7 DEF vars, IInv, TypeOK, DataInv
<1>9. QED
  BY <1>1, <1>2, <1>3, <1>4, <1>5, <1>6, <1>7, <1>8 DEF Next

LEMMA InitInv == ASSUME Init PROVE IInv
<1> DEFINE file == [k \in 1 .. MaxFrames |-> k]
           whole == [buf |-> file, end |-> TRUE, status |-> "Eof"]
<1>1. file \in Seq(1 .. MaxFrames) /\ Len(file) = MaxFrames
  BY MaxFramesAssumption
<1>2. \A k \in 1 .. MaxFrames : file[k] = k
  OBVIOUS
<1> HIDE DEF file
<1>3. whole \in QueueType
  BY <1>1 DEF QueueType
<1>4. EmptyQueue \in QueueType /\ EmptyQueue.buf = << >> /\ EmptyQueue.end = FALSE
  BY DEF QueueType, EmptyQueue
<1>5. /\ whole.buf = file /\ whole.end = TRUE
  OBVIOUS
<1>6. queue = [q \in Queues |-> IF q = 0 /\ FileSource THEN whole ELSE EmptyQueue]
  BY DEF Init, file, whole
<1> HIDE DEF whole
<1>7. /\ \A q \in Queues : IF q = 0 /\ FileSource
                           THEN queue[q] = whole /\ sent[q] = MaxFrames
                           ELSE queue[q] = EmptyQueue /\ sent[q] = 0
      /\ \A q \in Queues : rcvd[q] = 0
      /\ \A w \in Workers : /\ held[w] = << >> /\ pc[w] = "unborn"
                            /\ status[w] = "Ok" /\ cursor[w] = 0
      /\ delivered = << >>
  BY <1>6 DEF Init
<1>8. DataTypeOK
  <2>1. queue \in [Queues -> QueueType]
    BY <1>3, <1>4, <1>6
  <2>2. /\ sent \in [Queues -> 0 .. MaxFrames]
        /\ rcvd \in [Queues -> 0 .. MaxFrames]
    BY MaxFramesAssumption DEF Init
  <2>3. /\ held \in [Workers -> Seq(1 .. MaxFrames)]
        /\ delivered \in Seq(1 .. MaxFrames)
    BY DEF Init
  <2>4. QED
    BY <2>1, <2>2, <2>3 DEF DataTypeOK
<1>9. Conservation
  <2>1. ASSUME NEW q \in Queues PROVE sent[q] = rcvd[q] + Len(queue[q].buf)
    <3>1. CASE q = 0 /\ FileSource
      BY <1>1, <1>5, <1>7, <3>1, MaxFramesAssumption
    <3>2. CASE ~(q = 0 /\ FileSource)
      <4>1. Len(queue[q].buf) = 0 /\ sent[q] = 0 /\ rcvd[q] = 0
        BY <1>4, <1>7, <3>2
      <4>2. QED
        BY <4>1
    <3>3. QED
      BY <3>1, <3>2
  <2>2. ASSUME NEW w \in Workers PROVE rcvd[w] = sent[w + 1] + Len(held[w])
    <3>1. w + 1 \in Queues /\ w + 1 # 0 /\ w \in Queues
      BY ConstantTypes DEF Workers
    <3>2. rcvd[w] = 0 /\ sent[w + 1] = 0 /\ Len(held[w]) = 0
      BY <1>7, <3>1
    <3>3. QED
      BY <3>2
  <2>3. QED
    BY <2>1, <2>2 DEF Conservation
<1>10. OutQ \in Queues /\ OutQ # 0 /\ 0 \in Queues
  BY ConstantTypes DEF OutQ
<1>11. Contents
  <2>1. ASSUME NEW q \in Queues, NEW k \in 1 .. Len(queue[q].buf)
        PROVE  queue[q].buf[k] = rcvd[q] + k
    <3>1. CASE q = 0 /\ FileSource
      BY <1>1, <1>2, <1>5, <1>7, <3>1
    <3>2. CASE ~(q = 0 /\ FileSource)
      <4>1. Len(queue[q].buf) = 0
        BY <1>4, <1>7, <3>2
      <4>2. QED
        BY <4>1
    <3>3. QED
      BY <3>1, <3>2
  <2>2. \A w \in Workers : Len(held[w]) = 0
    BY <1>7
  <2>3. /\ Len(delivered) = rcvd[OutQ]
        /\ queue[OutQ].buf = << >>
    BY <1>4, <1>7, <1>10
  <2>4. QED
    BY <2>1, <2>2, <2>3 DEF Contents
<1>12. FramesInOrder
  BY <1>7 DEF FramesInOrder
<1>13. WithinAccepted
  <2>1. \A q \in 1 .. OutQ : q \in Queues /\ q # 0
    BY ConstantTypes DEF Queues, OutQ
  <2>2. \A q \in 1 .. OutQ : sent[q] = 0 /\ rcvd[0] = 0
    BY <1>7, <1>10, <2>1
  <2>3. QED
    BY <2>2 DEF WithinAccepted
<1>14. ControlTypeOK
  BY ConstantTypes
     DEF Init, ControlTypeOK, Points, Statuses, Benign, OutQ
<1>15. SweepBound /\ BornWhenStarted /\ ErrorHasOrigin /\ VerdictFinal
  BY <1>7, ConstantTypes
     DEF Init, SweepBound, BornWhenStarted, ErrorHasOrigin, VerdictFinal
<1>16. WorkerState
  BY <1>7 DEF WorkerState, WorkerAt
<1>17. EofChain
  <2>1. \A q \in 1 .. OutQ : q \in Queues /\ q # 0
    BY ConstantTypes DEF Queues, OutQ
  <2>2. QED
    BY <1>4, <1>7, <2>1 DEF EofChain, EndedWith
<1>18. ActiveCount
  <2>1. {w \in Workers : pc[w] \notin {"unborn", "done"}} = {}
    BY <1>7
  <2>2. QED
    BY <2>1, FS_EmptySet DEF Init, ActiveCount
<1>19. QED
  BY <1>8, <1>9, <1>11, <1>12, <1>13, <1>14, <1>15, <1>16, <1>17, <1>18
     DEF IInv, TypeOK

(* Every reachable state of every pipeline satisfies the invariant.        *)
THEOREM Invariance == Spec => []IInv
<1>1. Init => IInv
  BY InitInv
<1>2. IInv /\ [Next]_vars => IInv'
  BY StepInv
<1>3. QED
  BY <1>1, <1>2, PTL DEF Spec

(* All variables keep their types and their bounds.                        *)
THEOREM TypeCorrect == Spec => []TypeOK
<1>1. IInv => TypeOK
  BY DEF IInv
<1>2. QED
  BY <1>1, Invariance, PTL

(* Frames are delivered in the order of acceptance, none twice and none    *)
(* skipped, whatever the threads do.                                       *)
THEOREM DeliveryOrder == Spec => []FramesInOrder
<1>1. IInv => FramesInOrder
  BY DEF IInv
<1>2. QED
  BY <1>1, Invariance, PTL

(* An Eof on the output queue certifies a complete stream: the Eof chain   *)
(* says that every worker left without an error and passed on all frames,  *)
(* and a recorded error would have an origin among them.                   *)
THEOREM EofIsComplete == Spec => []EofMeansComplete
<1>1. ASSUME IInv, EndedWith(OutQ, "Eof")
      PROVE  sent[OutQ] = Accepted /\ error = "Ok"
  <2>1. OutQ \in 1 .. OutQ
    BY ConstantTypes DEF OutQ
  <2>2. /\ sent[OutQ] = Accepted
        /\ \A v \in 0 .. OutQ - 1 : status[v] = "Eof"
    BY <1>1, <2>1 DEF IInv, EofChain
  <2>3. \A v \in Workers : status[v] = "Eof"
    BY <2>2 DEF Workers, OutQ
  <2>4. error \in Errors \cup {"Ok"}
    BY <1>1 DEF IInv, TypeOK, ControlTypeOK
  <2>5. error # "Ok" => error = "Eof"
    BY <1>1, <2>3 DEF IInv, ErrorHasOrigin
  <2>6. "Eof" \notin Errors
    BY ConstantTypes
  <2>7. QED
    BY <2>2, <2>4, <2>5, <2>6
<1>2. IInv => EofMeansComplete
  BY <1>1 DEF EofMeansComplete
<1>3. QED
  BY <1>2, Invariance, PTL

(* No path through the workers leaves the output queue without an end.     *)
THEOREM ReaderGetsEnd == Spec => []ReaderNotStranded
<1>1. ASSUME IInv, started, active = 0 PROVE queue[OutQ].end
  <2>1. IsFiniteSet({w \in Workers : pc[w] \notin {"unborn", "done"}})
    <3>1. IsFiniteSet(0 .. NodeCount - 1)
      BY ConstantTypes, FS_Interval
    <3>2. QED
      BY <3>1, FS_Subset DEF Workers
  <2>2. {w \in Workers : pc[w] \notin {"unborn", "done"}} = {}
    BY <1>1, <2>1, FS_EmptySet DEF IInv, ActiveCount
  <2>3. Sink \in Workers /\ pc[Sink] # "unborn"
    BY <1>1, ConstantTypes DEF IInv, BornWhenStarted
  <2>4. pc[Sink] = "done"
    BY <2>2, <2>3
  <2>5. QED
    BY <1>1, <2>3, <2>4 DEF IInv, WorkerState, WorkerAt
<1>2. IInv => ReaderNotStranded
  BY <1>1 DEF ReaderNotStranded
<1>3. QED
  BY <1>2, Invariance, PTL

(* The first end of a queue and the first error stay what they were.       *)
THEOREM FirstEndWins == Spec => EndIsFinal
<1>1. IInv /\ [Next]_vars =>
        [/\ \A q \in Queues : queue[q].end =>
              /\ queue'[q].end
              /\ queue'[q].status = queue[q].status
              /\ Len(queue'[q].buf) <= Len(queue[q].buf)
         /\ error # "Ok" => error' = error]_<< queue, error >>
  BY StepInv DEF EndsKept
<1>2. QED
  BY <1>1, Invariance, PTL DEF Spec, EndIsFinal

-----------------------------------------------------------------------------
(* While the session is open, only Executor::fail cancels queues, with the *)
(* one error that was recorded.                                            *)

EndsAgree ==
  \A q \in Queues : queue[q].end /\ queue[q].status # "Eof" =>
                      queue[q].status = error

CancelsAgree == \A w \in Workers : pc[w] = "cancel" => status[w] = error

(* Nobody but the sink's worker ends the output queue.                     *)
OutputLast == queue[OutQ].end => pc[Sink] \in {"leave", "done"}

(* The sink never fails by itself: it hands on what its edge reported.     *)
SinkAgrees == pc[Sink] \in {"fail", "cancel", "endout"} => status[Sink] = error

SinkDrained ==
  pc[Sink] \in {"fail", "cancel", "endout", "leave", "done"} =>
    queue[Sink].end /\ queue[Sink].buf = << >> /\ held[Sink] = << >>

OpenParts ==
  EndsAgree /\ CancelsAgree /\ OutputLast /\ SinkAgrees /\ SinkDrained

OpenInv == closer = "open" => OpenParts

(* A step that ends queues ends them with s.                               *)
EndsBy(s) ==
  \A q \in Queues : queue'[q].end =>
    \/ queue[q].end /\ queue'[q].status = queue[q].status
    \/ queue'[q].status = s

(* The sink's place and its queues, as far as OpenParts speaks of them.    *)
SinkStays ==
  /\ pc'[Sink] = pc[Sink] /\ status'[Sink] = status[Sink]
  /\ held'[Sink] = held[Sink]
  /\ queue'[OutQ].end = queue[OutQ].end

LEMMA SinkFacts ==
  /\ Sink \in Workers /\ Sink \in Queues /\ OutQ \in Queues /\ Sink # OutQ
  /\ Sink + 1 = OutQ /\ Sink # 0 /\ OutQ # 0 /\ Sink \in 1 .. OutQ
  /\ ~IsCodec(Sink)
BY ConstantTypes DEF Sink, OutQ, IsCodec

LEMMA EndBy ==
  ASSUME IInv, NEW q \in Queues, NEW s \in Errors \cup {"Eof"},
         queue' = [queue EXCEPT ![q] = End(@, s)]
  PROVE  /\ EndsBy(s)
         /\ \A p \in Queues \ {q} : queue'[p] = queue[p]
         /\ queue'[q].end
<1>1. queue[q] \in QueueType /\ queue \in [Queues -> QueueType]
  BY InvParts, DataNumbers DEF DataInv, DataTypeOK
<1> DEFINE new == End(queue[q], s)
<1>2. /\ new.end = TRUE
      /\ queue[q].end => new.status = queue[q].status
      /\ ~queue[q].end => new.status = s
  BY <1>1 DEF QueueType, End
<1>3. queue'[q] = new /\ \A p \in Queues \ {q} : queue'[p] = queue[p]
  BY <1>1
<1> HIDE DEF new
<1>4. EndsBy(s)
  BY <1>2, <1>3 DEF EndsBy
<1>5. QED
  BY <1>2, <1>3, <1>4

(* Putting a frame in or taking one out ends no queue.                     *)
LEMMA MoveBy ==
  ASSUME IInv, NEW q \in Queues,
         \/ \E v \in 1 .. MaxFrames : queue' = [queue EXCEPT ![q] = Enqueue(@, v)]
         \/ queue[q].buf # << >> /\ queue' = [queue EXCEPT ![q] = Dequeue(@)]
  PROVE  EndsBy("Eof") /\ \A p \in Queues : queue'[p].end = queue[p].end
<1>1. queue[q] \in QueueType /\ queue \in [Queues -> QueueType]
  BY InvParts, DataNumbers DEF DataInv, DataTypeOK
<1>2. /\ queue'[q].end = queue[q].end /\ queue'[q].status = queue[q].status
      /\ \A p \in Queues \ {q} : queue'[p] = queue[p]
  <2>1. CASE \E v \in 1 .. MaxFrames : queue' = [queue EXCEPT ![q] = Enqueue(@, v)]
    <3>1. PICK v \in 1 .. MaxFrames : queue' = [queue EXCEPT ![q] = Enqueue(@, v)]
      BY <2>1
    <3> DEFINE new == Enqueue(queue[q], v)
    <3>2. new.end = queue[q].end /\ new.status = queue[q].status
      BY <1>1, EnqueueType
    <3>3. queue'[q] = new /\ \A p \in Queues \ {q} : queue'[p] = queue[p]
      BY <1>1, <3>1
    <3> HIDE DEF new
    <3>4. QED
      BY <3>2, <3>3
  <2>2. CASE queue[q].buf # << >> /\ queue' = [queue EXCEPT ![q] = Dequeue(@)]
    <3> DEFINE new == Dequeue(queue[q])
    <3>2. new.end = queue[q].end /\ new.status = queue[q].status
      BY <1>1, <2>2, DequeueType
    <3>3. queue'[q] = new /\ \A p \in Queues \ {q} : queue'[p] = queue[p]
      BY <1>1, <2>2
    <3> HIDE DEF new
    <3>4. QED
      BY <3>2, <3>3
  <2>3. QED
    BY <2>1, <2>2
<1>3. QED
  BY <1>2 DEF EndsBy

LEMMA SameBy == ASSUME queue' = queue PROVE \A s : EndsBy(s)
BY DEF EndsBy

LEMMA EndsAgreeKept ==
  ASSUME EndsAgree, NEW s \in {"Eof", error}, EndsBy(s), error' = error
  PROVE  EndsAgree'
BY DEF EndsAgree, EndsBy

(* A step that leaves the sink where it is keeps what is said of it.       *)
LEMMA SinkKept ==
  ASSUME OutputLast, SinkDrained, EndsKept, SinkStays
  PROVE  OutputLast' /\ SinkDrained'
BY SinkFacts DEF OutputLast, SinkDrained, EndsKept, SinkStays

LEMMA OpenKept ==
  ASSUME OpenParts, EndsKept, SinkStays, error' = error,
         NEW s \in {"Eof", error}, EndsBy(s), CancelsAgree'
  PROVE  OpenParts'
<1>1. EndsAgree'
  BY EndsAgreeKept DEF OpenParts
<1>2. OutputLast' /\ SinkDrained'
  BY SinkKept DEF OpenParts
<1>3. SinkAgrees'
  BY DEF OpenParts, SinkAgrees, SinkStays
<1>4. QED
  BY <1>1, <1>2, <1>3 DEF OpenParts

-----------------------------------------------------------------------------
(* The application's steps.                                                *)

LEMMA OpenApplication ==
  ASSUME IInv, OpenParts, EndsKept, Push \/ PushEos \/ Pull \/ Start
  PROVE  OpenParts'
<1>1. CASE Push
  <2>1. /\ sent[0] + 1 \in 1 .. MaxFrames /\ 0 \in Queues
        /\ queue' = [queue EXCEPT ![0] = Enqueue(@, sent[0] + 1)]
        /\ UNCHANGED << pc, held, status, error >>
    BY <1>1, InvParts, DataNumbers, ConstantTypes DEF Push, workerVars
  <2>2. EndsBy("Eof") /\ \A p \in Queues : queue'[p].end = queue[p].end
    BY <2>1, MoveBy
  <2>3. SinkStays /\ CancelsAgree'
    BY <2>1, <2>2, SinkFacts DEF SinkStays, OpenParts, CancelsAgree
  <2>4. QED
    BY <2>1, <2>2, <2>3, OpenKept
<1>2. CASE PushEos
  <2>1. /\ 0 \in Queues /\ queue' = [queue EXCEPT ![0] = End(@, "Eof")]
        /\ UNCHANGED << pc, held, status, error >>
    BY <1>2, CloseAndCancel, ConstantTypes DEF PushEos, workerVars
  <2>2. EndsBy("Eof") /\ queue'[OutQ] = queue[OutQ]
    BY <2>1, EndBy, SinkFacts
  <2>3. SinkStays /\ CancelsAgree'
    BY <2>1, <2>2 DEF SinkStays, OpenParts, CancelsAgree
  <2>4. QED
    BY <2>1, <2>2, <2>3, OpenKept
<1>3. CASE PullFrame
  <2>1. /\ queue[OutQ].buf # << >>
        /\ queue' = [queue EXCEPT ![OutQ] = Dequeue(@)]
        /\ UNCHANGED << pc, held, status, error >>
    BY <1>3 DEF PullFrame, workerVars
  <2>2. EndsBy("Eof") /\ \A p \in Queues : queue'[p].end = queue[p].end
    BY <2>1, MoveBy, SinkFacts
  <2>3. SinkStays /\ CancelsAgree'
    BY <2>1, <2>2, SinkFacts DEF SinkStays, OpenParts, CancelsAgree
  <2>4. QED
    BY <2>1, <2>2, <2>3, OpenKept
<1>4. CASE PullEnd
  BY <1>4 DEF PullEnd, workerVars, OpenParts, EndsAgree, CancelsAgree,
              OutputLast, SinkAgrees, SinkDrained
<1>5. CASE Start
  <2>1. /\ pc' = [w \in Workers |-> "pop"] /\ ~started
        /\ UNCHANGED << queue, error >>
    BY <1>5 DEF Start
  <2>2. pc[Sink] = "unborn" /\ pc'[Sink] = "pop"
    BY <2>1, SinkFacts DEF IInv, BornWhenStarted
  <2>3. ~queue'[OutQ].end
    BY <2>1, <2>2 DEF OpenParts, OutputLast
  <2>4. QED
    BY <2>1, <2>2, <2>3
       DEF OpenParts, EndsAgree, CancelsAgree, OutputLast, SinkAgrees, SinkDrained
<1>6. QED
  BY <1>1, <1>2, <1>3, <1>4, <1>5 DEF Pull

-----------------------------------------------------------------------------
(* The workers' steps.  A worker that is inside the line keeps the sink    *)
(* where it is unless it is the sink's.                                    *)

(* What OpenParts says of the sink while it is at work: its output queue   *)
(* is open and it holds nothing between two frames.                        *)
LEMMA SinkAtWork ==
  ASSUME IInv, OpenParts, pc[Sink] \in {"pop", "work", "flush"}
  PROVE  /\ ~queue[OutQ].end
         /\ pc[Sink] \in {"pop", "flush"} => held[Sink] = << >>
BY SinkFacts DEF OpenParts, OutputLast, IInv, WorkerState, WorkerAt

(* A step that moves a worker to a place where nothing is said of it.      *)
LEMMA OpenMove ==
  ASSUME IInv, OpenParts, EndsKept, NEW w \in Workers, OthersStay(w),
         pc[w] \in {"pop", "work", "flush"},
         pc'[w] \in {"pop", "work", "flush"}, error' = error, EndsBy("Eof"),
         queue'[OutQ].end = queue[OutQ].end
  PROVE  OpenParts'
<1>1. CancelsAgree'
  BY DEF OpenParts, CancelsAgree, OthersStay
<1>2. EndsAgree'
  BY EndsAgreeKept DEF OpenParts
<1>3. CASE w = Sink
  <2>1. ~queue'[OutQ].end
    BY <1>3, SinkAtWork
  <2>2. QED
    BY <1>1, <1>2, <1>3, <2>1 DEF OpenParts, OutputLast, SinkAgrees, SinkDrained
<1>4. CASE w # Sink
  <2>1. SinkStays
    BY <1>4, SinkFacts DEF SinkStays, OthersStay
  <2>2. QED
    BY <1>1, <2>1, OpenKept
<1>5. QED
  BY <1>3, <1>4

LEMMA OpenPopFrame ==
  ASSUME IInv, OpenParts, EndsKept, NEW w \in Workers, PopFrame(w)
  PROVE  OpenParts'
<1>1. /\ pc[w] = "pop" /\ pc' = [pc EXCEPT ![w] = "work"]
      /\ queue[w].buf # << >>
      /\ queue' = [queue EXCEPT ![w] = Dequeue(@)]
      /\ held' = [held EXCEPT ![w] = Append(@, Head(queue[w].buf))]
      /\ UNCHANGED << status, cursor, error >>
  BY DEF PopFrame, Goto
<1>2. EndsBy("Eof") /\ queue'[OutQ].end = queue[OutQ].end
  BY <1>1, MoveBy, SinkFacts, WorkerTypes
<1>3. OthersStay(w) /\ pc'[w] = "work"
  BY <1>1, WorkerTypes DEF OthersStay
<1>4. QED
  BY <1>1, <1>2, <1>3, OpenMove

LEMMA OpenProcessOk ==
  ASSUME IInv, OpenParts, EndsKept, NEW w \in Workers, ProcessOk(w)
  PROVE  OpenParts'
<1>1. /\ pc[w] = "work" /\ pc' = [pc EXCEPT ![w] = "pop"]
      /\ UNCHANGED << queue, held, status, cursor, error >>
  BY DEF ProcessOk, Goto
<1>2. EndsBy("Eof") /\ queue'[OutQ].end = queue[OutQ].end
  BY <1>1, SameBy
<1>3. OthersStay(w) /\ pc'[w] = "pop"
  BY <1>1, WorkerTypes DEF OthersStay
<1>4. QED
  BY <1>1, <1>2, <1>3, OpenMove

LEMMA OpenEmit ==
  ASSUME ~FileSink, IInv, OpenParts, EndsKept, NEW w \in Workers, Emit(w)
  PROVE  OpenParts'
<1>1. /\ pc[w] \in {"work", "flush"} /\ pc' = pc
      /\ held[w] # << >>
      /\ queue' = [queue EXCEPT ![w + 1] = Enqueue(@, Head(held[w]))]
      /\ held' = [held EXCEPT ![w] = Tail(@)]
      /\ UNCHANGED << status, cursor, error >>
  BY DEF Emit
<1>2. Head(held[w]) \in 1 .. MaxFrames /\ w + 1 \in Queues
  BY <1>1, WorkerTypes, TailType
<1>3. EndsBy("Eof") /\ queue'[OutQ].end = queue[OutQ].end
  BY <1>1, <1>2, MoveBy, SinkFacts
<1>4. OthersStay(w)
  BY <1>1, WorkerTypes DEF OthersStay
<1>5. QED
  BY <1>1, <1>3, <1>4, OpenMove

(* A worker that is not the sink's starts to fail.                         *)
LEMMA OpenFails ==
  ASSUME IInv, OpenParts, EndsKept, NEW w \in Workers, w # Sink,
         OthersStay(w), pc'[w] # "cancel", queue' = queue, error' = error
  PROVE  OpenParts'
<1>1. SinkStays
  BY SinkFacts DEF SinkStays, OthersStay
<1>2. CancelsAgree'
  BY DEF OpenParts, CancelsAgree, OthersStay
<1>3. QED
  BY <1>1, <1>2, SameBy, OpenKept

LEMMA OpenQueueEnds ==
  ASSUME IInv, OpenParts, EndsKept, NEW w \in Workers, PopEnd(w), QueueEnds(w)
  PROVE  OpenParts'
<1> DEFINE s == queue[w].status
<1>1. /\ pc[w] = "pop" /\ queue[w].end /\ queue[w].buf = << >>
      /\ pc' = [pc EXCEPT ![w] = IF s = "Eof" THEN "flush" ELSE "fail"]
      /\ status' = [status EXCEPT ![w] = s]
      /\ UNCHANGED << queue, held, cursor, error >>
  BY DEF PopEnd, QueueEnds, MayPop, PopStatus
<1>2. /\ OthersStay(w) /\ status'[w] = s
      /\ pc'[w] = IF s = "Eof" THEN "flush" ELSE "fail"
  BY <1>1, WorkerTypes DEF OthersStay
<1>3. CASE s = "Eof"
  BY <1>1, <1>2, <1>3, SameBy, OpenMove
<1>4. CASE s # "Eof" /\ w # Sink
  BY <1>1, <1>2, <1>4, OpenFails
<1>5. CASE s # "Eof" /\ w = Sink
  <2>1. s = error
    BY <1>1, <1>5, SinkFacts DEF OpenParts, EndsAgree
  <2>2. ~queue[OutQ].end /\ held[Sink] = << >>
    BY <1>1, <1>5, SinkAtWork
  <2>3. EndsAgree' /\ CancelsAgree'
    BY <1>1, <1>2, <1>5
       DEF OpenParts, EndsAgree, CancelsAgree, OthersStay
  <2>4. OutputLast' /\ SinkAgrees' /\ SinkDrained'
    BY <1>1, <1>2, <1>5, <2>1, <2>2 DEF OutputLast, SinkAgrees, SinkDrained
  <2>5. QED
    BY <2>3, <2>4 DEF OpenParts
<1>6. QED
  BY <1>3, <1>4, <1>5

LEMMA OpenEmitRefused ==
  ASSUME IInv, OpenParts, EndsKept, NEW w \in Workers, EmitRefused(w)
  PROVE  OpenParts'
<1>1. /\ pc[w] \in {"work", "flush"} /\ queue[w + 1].end
      /\ pc'[w] \in {"flush", "fail"}
      /\ UNCHANGED << queue, held, cursor, error >>
      /\ OthersStay(w)
  BY WorkerTypes DEF EmitRefused, PushStatus, OthersStay
<1>2. w # Sink
  BY <1>1, SinkAtWork, SinkFacts
<1>3. QED
  BY <1>1, <1>2, OpenFails

(* What the source takes for the end of its file ends no queue yet.        *)
LEMMA OpenReadFails ==
  ASSUME IInv, OpenParts, EndsKept, NEW w \in Workers, PopEnd(w), ReadFails(w)
  PROVE  OpenParts'
<1>1. /\ w = 0 /\ pc' = [pc EXCEPT ![w] = "flush"]
      /\ status' = [status EXCEPT ![w] = "Eof"]
      /\ UNCHANGED << queue, held, cursor, error >>
  BY DEF PopEnd, ReadFails
<1>2. w # Sink /\ OthersStay(w) /\ pc'[w] = "flush"
  BY <1>1, SinkFacts, WorkerTypes DEF OthersStay
<1>3. QED
  BY <1>1, <1>2, OpenFails

LEMMA OpenNodeFails ==
  ASSUME ~FileSink, IInv, OpenParts, EndsKept, NEW w \in Workers, NodeFails(w)
  PROVE  OpenParts'
<1>1. /\ pc'[w] = "fail" /\ Reports(w) # {}
      /\ UNCHANGED << queue, held, cursor, error >>
      /\ OthersStay(w)
  BY WorkerTypes DEF NodeFails, OthersStay
<1>2. w # Sink
  BY <1>1, SinkFacts DEF Reports
<1>3. QED
  BY <1>1, <1>2, OpenFails

LEMMA OpenFlushOk ==
  ASSUME IInv, OpenParts, EndsKept, NEW w \in Workers, FlushOk(w)
  PROVE  OpenParts'
<1>1. /\ pc[w] = "flush" /\ pc' = [pc EXCEPT ![w] = "leave"]
      /\ queue' = [queue EXCEPT ![w + 1] = End(@, "Eof")]
      /\ UNCHANGED << held, status, cursor, error >>
  BY CloseAndCancel DEF FlushOk, Goto
<1>2. /\ EndsBy("Eof") /\ w + 1 \in Queues
      /\ \A p \in Queues \ {w + 1} : queue'[p] = queue[p]
  BY <1>1, WorkerTypes, EndBy
<1>3. OthersStay(w) /\ pc'[w] = "leave"
  BY <1>1, WorkerTypes DEF OthersStay
<1>4. EndsAgree' /\ CancelsAgree'
  BY <1>1, <1>2, <1>3, EndsAgreeKept DEF OpenParts, CancelsAgree, OthersStay
<1>5. CASE w = Sink
  <2>1. queue[Sink].end /\ queue[Sink].buf = << >> /\ held[Sink] = << >>
    BY <1>1, <1>5, SinkFacts DEF IInv, WorkerState, WorkerAt, EndedWith
  <2>2. QED
    BY <1>1, <1>2, <1>3, <1>4, <1>5, <2>1, SinkFacts
       DEF OpenParts, OutputLast, SinkAgrees, SinkDrained
<1>6. CASE w # Sink
  <2>1. OutQ \in Queues \ {w + 1}
    BY <1>6, SinkFacts, ConstantTypes DEF Workers
  <2>2. SinkStays
    BY <1>1, <1>2, <1>3, <1>6, <2>1, SinkFacts DEF SinkStays, OthersStay
  <2>3. QED
    BY <1>1, <1>2, <1>4, <2>2, OpenKept
<1>7. QED
  BY <1>5, <1>6

(* The first error is recorded: no queue was cancelled and nobody was      *)
(* cancelling before, for both would have needed an error.                 *)
LEMMA OpenFailRecord ==
  ASSUME IInv, OpenParts, EndsKept, NEW w \in Workers, FailRecord(w)
  PROVE  OpenParts'
<1>1. /\ pc[w] = "fail" /\ status[w] \in Errors
      /\ \A v \in Workers : pc[v] \in {"fail", "cancel", "endout"} =>
                              status[v] \in Errors
      /\ \A q \in Queues : queue[q].status \in Errors \cup {"Eof"}
      /\ "Ok" \notin Errors /\ \A s \in Errors : s \notin Benign
  BY InvParts, DataNumbers, ConstantTypes
     DEF FailRecord, IInv, WorkerState, WorkerAt, QueueType, Benign
<1>2. UNCHANGED << queue, held, status >> /\ OthersStay(w)
  BY WorkerTypes DEF FailRecord, OthersStay
<1>3. CASE error = "Ok"
  <2>1. error' = status[w] /\ pc'[w] = "cancel"
    BY <1>1, <1>3, WorkerTypes DEF FailRecord, FirstError
  <2>2. w # Sink
    BY <1>1, <1>3 DEF OpenParts, SinkAgrees
  <2>3. EndsAgree'
    BY <1>1, <1>2, <1>3 DEF OpenParts, EndsAgree
  <2>4. CancelsAgree'
    BY <1>1, <1>2, <1>3, <2>1 DEF OpenParts, CancelsAgree, OthersStay
  <2>5. SinkAgrees'
    BY <1>1, <1>2, <1>3, <2>2, SinkFacts DEF OpenParts, SinkAgrees, OthersStay
  <2>6. OutputLast' /\ SinkDrained'
    BY <1>2, <2>2, SinkFacts
       DEF OpenParts, OutputLast, SinkDrained, OthersStay
  <2>7. QED
    BY <2>3, <2>4, <2>5, <2>6 DEF OpenParts
<1>4. CASE error # "Ok"
  <2>1. error' = error /\ pc'[w] = AfterFail(w)
    BY <1>4, WorkerTypes DEF FailRecord, FirstError
  <2>2. CASE w # Sink
    BY <1>2, <2>1, <2>2, OpenFails DEF FailRecord, AfterFail
  <2>3. CASE w = Sink
    <3>1. pc'[Sink] = "endout"
      BY <2>1, <2>3 DEF AfterFail
    <3>2. EndsAgree' /\ CancelsAgree'
      BY <1>2, <2>1, <2>3, <3>1
         DEF OpenParts, EndsAgree, CancelsAgree, OthersStay
    <3>3. OutputLast' /\ SinkAgrees' /\ SinkDrained'
      BY <1>1, <1>2, <2>1, <2>3, <3>1
         DEF OpenParts, OutputLast, SinkAgrees, SinkDrained
    <3>4. QED
      BY <3>2, <3>3 DEF OpenParts
  <2>4. QED
    BY <2>2, <2>3
<1>5. QED
  BY <1>3, <1>4

LEMMA OpenFailCancel ==
  ASSUME IInv, OpenParts, EndsKept, NEW w \in Workers, FailCancel(w)
  PROVE  OpenParts'
<1>1. /\ pc[w] = "cancel" /\ pc' = [pc EXCEPT ![w] = AfterCancel(w)]
      /\ status[w] \in Errors /\ status[w] = error
      /\ cursor[w] \in Queues /\ cursor[w] # OutQ
      /\ UNCHANGED << held, status, error >>
  BY WorkerTypes, ConstantTypes
     DEF FailCancel, WorkerAt, OpenParts, CancelsAgree, Queues, OutQ
<1>2. queue' = [queue EXCEPT ![cursor[w]] = End(@, status[w])]
  BY <1>1, CloseAndCancel DEF FailCancel
<1>3. EndsBy(error) /\ queue'[OutQ] = queue[OutQ]
  BY <1>1, <1>2, EndBy, SinkFacts
<1>4. /\ OthersStay(w)
      /\ pc'[w] \in {"cancel", "endout", "leave"}
      /\ pc'[w] = "leave" => w # Sink
  BY <1>1, WorkerTypes DEF OthersStay, AfterCancel, AfterFail, FailCancel
<1>5. EndsAgree' /\ CancelsAgree'
  BY <1>1, <1>3, <1>4, EndsAgreeKept DEF OpenParts, CancelsAgree, OthersStay
<1>6. CASE w # Sink
  <2>1. SinkStays
    BY <1>1, <1>3, <1>4, <1>6, SinkFacts DEF SinkStays, OthersStay
  <2>2. QED
    BY <1>1, <1>3, <1>5, <2>1, OpenKept
<1>7. CASE w = Sink
  <2>1. pc'[Sink] \in {"cancel", "endout"} /\ ~queue'[OutQ].end
    BY <1>1, <1>3, <1>4, <1>7 DEF OpenParts, OutputLast
  <2>2. queue[Sink].end /\ queue[Sink].buf = << >> /\ held[Sink] = << >>
    BY <1>1, <1>7 DEF OpenParts, SinkDrained
  <2>3. queue'[Sink].end /\ queue'[Sink].buf = << >>
    BY <2>2, SinkFacts DEF EndsKept
  <2>4. QED
    BY <1>1, <1>5, <1>7, <2>1, <2>2, <2>3
       DEF OpenParts, OutputLast, SinkAgrees, SinkDrained
<1>8. QED
  BY <1>6, <1>7

LEMMA OpenEndOutput ==
  ASSUME IInv, OpenParts, EndsKept, NEW w \in Workers, EndOutput(w)
  PROVE  OpenParts'
<1>1. /\ pc[w] = "endout" /\ pc' = [pc EXCEPT ![w] = "leave"]
      /\ w = Sink /\ status[w] \in Errors /\ status[w] = error
      /\ UNCHANGED << held, status, error >>
  BY WorkerTypes DEF EndOutput, Goto, WorkerAt, OpenParts, SinkAgrees
<1>2. queue' = [queue EXCEPT ![OutQ] = End(@, status[w])]
  BY <1>1, CloseAndCancel DEF EndOutput
<1>3. EndsBy(error)
  BY <1>1, <1>2, EndBy, SinkFacts
<1>4. OthersStay(w) /\ pc'[Sink] = "leave"
  BY <1>1, WorkerTypes DEF OthersStay, EndOutput
<1>5. EndsAgree' /\ CancelsAgree'
  BY <1>1, <1>3, <1>4, EndsAgreeKept DEF OpenParts, CancelsAgree, OthersStay
<1>6. queue[Sink].end /\ queue[Sink].buf = << >> /\ held[Sink] = << >>
  BY <1>1 DEF OpenParts, SinkDrained
<1>7. queue'[Sink].end /\ queue'[Sink].buf = << >>
  BY <1>6, SinkFacts DEF EndsKept
<1>8. QED
  BY <1>1, <1>4, <1>5, <1>6, <1>7
     DEF OpenParts, OutputLast, SinkAgrees, SinkDrained

LEMMA OpenLeave ==
  ASSUME IInv, OpenParts, EndsKept, NEW w \in Workers, Leave(w)
  PROVE  OpenParts'
<1>1. /\ pc[w] = "leave" /\ pc' = [pc EXCEPT ![w] = "done"]
      /\ UNCHANGED << queue, held, status, cursor, error >>
  BY DEF Leave, Goto
<1>2. OthersStay(w) /\ pc'[w] = "done"
  BY <1>1, WorkerTypes DEF OthersStay
<1>3. CASE w # Sink
  BY <1>1, <1>2, <1>3, OpenFails
<1>4. CASE w = Sink
  BY <1>1, <1>2, <1>4
     DEF OpenParts, EndsAgree, CancelsAgree, OutputLast, SinkAgrees,
         SinkDrained, OthersStay
<1>5. QED
  BY <1>3, <1>4

-----------------------------------------------------------------------------
(* The invariant of an open session, and the two properties.               *)

LEMMA OpenWorker ==
  ASSUME ~FileSink, IInv, OpenParts, EndsKept, NEW w \in Workers, WorkerStep(w)
  PROVE  OpenParts'
<1>1. CASE PopEnd(w)
  BY <1>1, OpenQueueEnds, OpenReadFails DEF PopEnd
<1>2. QED
  BY <1>1, OpenPopFrame, OpenEmit, OpenEmitRefused, OpenProcessOk,
     OpenNodeFails, OpenFlushOk, OpenFailRecord, OpenFailCancel, OpenEndOutput,
     OpenLeave DEF WorkerStep

LEMMA OpenStep ==
  ASSUME ~FileSink, IInv, OpenInv, [Next]_vars
  PROVE  OpenInv'
<1> SUFFICES ASSUME closer' = "open" PROVE OpenParts'
  BY DEF OpenInv
<1>1. EndsKept
  BY StepInv
<1>2. CASE Push \/ PushEos \/ Pull \/ Start
  <2>1. closer = "open"
    BY <1>2 DEF Push, PushEos, Pull, PullFrame, PullEnd, Start, appVars
  <2>2. QED
    BY <1>1, <1>2, <2>1, OpenApplication DEF OpenInv
<1>3. ASSUME NEW w \in Workers, WorkerStep(w) PROVE OpenParts'
  <2>1. closer = "open"
    BY <1>3 DEF WorkerStep, PopFrame, PopEnd, QueueEnds, ReadFails, Emit, EmitRefused,
                ProcessOk, NodeFails, FlushOk, FailRecord, FailCancel, EndOutput, Leave,
                appVars
  <2>2. QED
    BY <1>1, <1>3, <2>1, OpenWorker DEF OpenInv
<1>4. CASE CloseBegin \/ CloserStep
  BY <1>4 DEF CloseBegin, CloserStep, CloseCancel, CloseJoin
<1>5. CASE UNCHANGED vars
  BY <1>5 DEF vars, workerVars, appVars, OpenInv, OpenParts, EndsAgree,
              CancelsAgree, OutputLast, SinkAgrees, SinkDrained
<1>6. QED
  BY <1>2, <1>3, <1>4, <1>5 DEF Next

LEMMA OpenInit == ASSUME Init PROVE OpenInv
<1>1. \A q \in Queues : queue[q].end => queue[q].status = "Eof" /\ q = 0
  BY DEF Init, EmptyQueue
<1>2. pc[Sink] = "unborn" /\ \A w \in Workers : pc[w] = "unborn"
  BY SinkFacts DEF Init
<1>3. QED
  BY <1>1, <1>2, SinkFacts
     DEF OpenInv, OpenParts, EndsAgree, CancelsAgree, OutputLast, SinkAgrees,
         SinkDrained

LEMMA OpenInvariance == ~FileSink => (Spec => [](IInv /\ OpenInv))
<1> SUFFICES ASSUME ~FileSink PROVE Spec => [](IInv /\ OpenInv)
  OBVIOUS
<1>1. Init => IInv /\ OpenInv
  BY InitInv, OpenInit
<1>2. IInv /\ OpenInv /\ [Next]_vars => (IInv /\ OpenInv)'
  BY StepInv, OpenStep
<1>3. QED
  BY <1>1, <1>2, PTL DEF Spec

(* When no thread is left every worker is done, the sink's too.            *)
LEMMA AllDone ==
  ASSUME IInv, started, active = 0
  PROVE  \A w \in Workers : pc[w] = "done"
<1>1. IsFiniteSet({w \in Workers : pc[w] \notin {"unborn", "done"}})
  <2>1. IsFiniteSet(0 .. NodeCount - 1)
    BY ConstantTypes, FS_Interval
  <2>2. QED
    BY <2>1, FS_Subset DEF Workers
<1>2. {w \in Workers : pc[w] \notin {"unborn", "done"}} = {}
  BY <1>1, FS_EmptySet DEF IInv, ActiveCount
<1>3. QED
  BY <1>2 DEF IInv, BornWhenStarted

(* An output queue that ended with Eof is complete and no error recorded.  *)
LEMMA EofNoError ==
  ASSUME IInv, EndedWith(OutQ, "Eof")
  PROVE  sent[OutQ] = Accepted /\ Sealed /\ error = "Ok"
<1>1. /\ sent[OutQ] = Accepted
      /\ FileSource \/ queue[0].end
      /\ \A v \in 0 .. OutQ - 1 : status[v] = "Eof"
  BY SinkFacts, ConstantTypes DEF IInv, EofChain, OutQ
<1>2. \A v \in Workers : status[v] = "Eof"
  BY <1>1 DEF Workers, OutQ
<1>3. error # "Ok" => error = "Eof"
  BY <1>2 DEF IInv, ErrorHasOrigin
<1>4. error \in Errors \cup {"Ok"} /\ "Eof" \notin Errors
  BY ConstantTypes DEF IInv, TypeOK, ControlTypeOK
<1>5. Sealed
  BY <1>1, <1>2, ConstantTypes DEF Sealed
<1>6. QED
  BY <1>1, <1>3, <1>4, <1>5

(* Unless the session was closed, the reader's end is the error that       *)
(* wait() returns, and Eof when wait() returns Ok (executor.cpp:118-150).  *)
THEOREM WaitAndPullAgree == ~FileSink => (Spec => []WaitAgreesWithPull)
<1> SUFFICES ASSUME ~FileSink PROVE Spec => []WaitAgreesWithPull
  OBVIOUS
<1>1. ASSUME IInv, OpenInv, started, active = 0, closer = "open"
      PROVE  queue[OutQ].status = IF error = "Ok" THEN "Eof" ELSE error
  <2>1. queue[OutQ].end
    BY <1>1, AllDone, SinkFacts DEF IInv, WorkerState, WorkerAt
  <2>2. CASE queue[OutQ].status = "Eof"
    BY <1>1, <2>1, <2>2, EofNoError DEF EndedWith
  <2>3. CASE queue[OutQ].status # "Eof"
    <3>1. queue[OutQ].status = error
      BY <1>1, <2>1, <2>3, SinkFacts DEF OpenInv, OpenParts, EndsAgree
    <3>2. queue[OutQ].status # "Ok"
      BY <1>1, InvParts, DataNumbers, SinkFacts, ConstantTypes DEF QueueType
    <3>3. QED
      BY <3>1, <3>2
  <2>4. QED
    BY <2>2, <2>3
<1>2. IInv /\ OpenInv => WaitAgreesWithPull
  BY <1>1 DEF WaitAgreesWithPull
<1>3. QED
  BY <1>2, OpenInvariance, PTL

(* The sink leaves its edge only when it is ended and empty: no failure    *)
(* makes it drop what reached the last edge (executor.cpp:72-75).          *)
THEOREM LastEdgeIsDrained == ~FileSink => (Spec => []LastEdgeDrained)
<1> SUFFICES ASSUME ~FileSink PROVE Spec => []LastEdgeDrained
  OBVIOUS
<1>1. ASSUME IInv, OpenInv, started, active = 0, closer = "open"
      PROVE  sent[OutQ] = sent[Sink]
  <2>1. queue[Sink].buf = << >> /\ held[Sink] = << >>
    BY <1>1, AllDone, SinkFacts DEF OpenInv, OpenParts, SinkDrained
  <2>2. /\ sent[Sink] = rcvd[Sink] + Len(queue[Sink].buf)
        /\ rcvd[Sink] = sent[OutQ] + Len(held[Sink])
        /\ sent[Sink] \in Nat /\ rcvd[Sink] \in Nat /\ sent[OutQ] \in Nat
    BY <1>1, InvParts, DataNumbers, SinkFacts
  <2>3. Len(queue[Sink].buf) = 0 /\ Len(held[Sink]) = 0
    BY <2>1
  <2>4. QED
    BY <2>2, <2>3
<1>2. IInv /\ OpenInv => LastEdgeDrained
  BY <1>1 DEF LastEdgeDrained
<1>3. QED
  BY <1>2, OpenInvariance, PTL

-----------------------------------------------------------------------------
(* The session carries a stream, whichever its endpoints are.              *)

(* A worker that failed does so with an error on record, and the sink that *)
(* left without one has passed on the whole of its edge.                   *)
FailureRecorded ==
  \A w \in Workers : pc[w] \in {"cancel", "endout"} => error # "Ok"

CleanExit ==
  error = "Ok" /\ pc[Sink] \in {"leave", "done"} =>
    EndedWith(Sink, "Eof") /\ queue[Sink].buf = << >> /\ held[Sink] = << >>

CarryInv == FailureRecorded /\ CleanExit

LEMMA CarryKept ==
  ASSUME CarryInv, EndsKept, error' = error,
         pc'[Sink] \in {"leave", "done"} => pc[Sink] \in {"leave", "done"},
         held'[Sink] = held[Sink] \/ pc'[Sink] \notin {"leave", "done"},
         FailureRecorded'
  PROVE  CarryInv'
BY SinkFacts DEF CarryInv, CleanExit, EndsKept, EndedWith

LEMMA CarryWorker ==
  ASSUME IInv, CarryInv, EndsKept, NEW w \in Workers, WorkerStep(w)
  PROVE  CarryInv'
<1>1. CASE \/ PopFrame(w) \/ PopEnd(w) \/ Emit(w)
          \/ EmitRefused(w) \/ ProcessOk(w) \/ NodeFails(w)
  <2>1. /\ error' = error /\ OthersStay(w)
        /\ pc[w] \in {"pop", "work", "flush"}
        /\ pc'[w] \in {"pop", "work", "flush", "fail"}
    BY <1>1, WorkerTypes
       DEF PopFrame, PopEnd, QueueEnds, ReadFails, Emit, EmitRefused, ProcessOk,
           NodeFails, Goto, OthersStay
  <2>2. FailureRecorded'
    BY <2>1 DEF CarryInv, FailureRecorded, OthersStay
  <2>3. /\ pc'[Sink] \in {"leave", "done"} => pc[Sink] \in {"leave", "done"}
        /\ held'[Sink] = held[Sink] \/ pc'[Sink] \notin {"leave", "done"}
    BY <2>1, SinkFacts DEF OthersStay
  <2>4. QED
    BY <2>1, <2>2, <2>3, CarryKept
<1>2. CASE FlushOk(w)
  <2>1. /\ error' = error /\ OthersStay(w) /\ held' = held
        /\ pc[w] = "flush" /\ pc'[w] = "leave"
    BY <1>2, WorkerTypes DEF FlushOk, Goto, OthersStay
  <2>2. FailureRecorded'
    BY <2>1 DEF CarryInv, FailureRecorded, OthersStay
  <2>3. CASE w # Sink
    <3>1. pc'[Sink] = pc[Sink]
      BY <2>1, <2>3, SinkFacts DEF OthersStay
    <3>2. QED
      BY <2>1, <2>2, <3>1, CarryKept
  <2>4. CASE w = Sink
    <3>1. EndedWith(Sink, "Eof") /\ queue[Sink].buf = << >> /\ held[Sink] = << >>
      BY <2>1, <2>4, SinkFacts DEF IInv, WorkerState, WorkerAt
    <3>2. CleanExit'
      BY <2>1, <3>1, SinkFacts DEF CleanExit, EndsKept, EndedWith
    <3>3. QED
      BY <2>2, <3>2 DEF CarryInv
  <2>5. QED
    BY <2>3, <2>4
<1>3. CASE FailRecord(w)
  <2>1. status[w] \in Errors /\ "Ok" \notin Errors
        /\ \A s \in Errors : s \notin Benign
    BY <1>3, ConstantTypes
       DEF FailRecord, IInv, WorkerState, WorkerAt, Benign
  <2>2. error' # "Ok"
    BY <1>3, <2>1 DEF FailRecord, FirstError
  <2>3. QED
    BY <2>2 DEF CarryInv, FailureRecorded, CleanExit
<1>4. CASE FailCancel(w) \/ EndOutput(w)
  <2>1. error' = error /\ error # "Ok"
    BY <1>4 DEF FailCancel, EndOutput, Goto, CarryInv, FailureRecorded
  <2>2. QED
    BY <2>1 DEF CarryInv, FailureRecorded, CleanExit
<1>5. CASE Leave(w)
  <2>1. /\ error' = error /\ OthersStay(w) /\ held' = held
        /\ pc[w] = "leave" /\ pc'[w] = "done"
    BY <1>5, WorkerTypes DEF Leave, Goto, OthersStay
  <2>2. FailureRecorded'
    BY <2>1 DEF CarryInv, FailureRecorded, OthersStay
  <2>3. pc'[Sink] \in {"leave", "done"} => pc[Sink] \in {"leave", "done"}
    BY <2>1, SinkFacts DEF OthersStay
  <2>4. QED
    BY <2>1, <2>2, <2>3, CarryKept
<1>6. QED
  BY <1>1, <1>2, <1>3, <1>4, <1>5 DEF WorkerStep

LEMMA CarryStep ==
  ASSUME IInv, CarryInv, [Next]_vars
  PROVE  CarryInv'
<1>1. EndsKept
  BY StepInv
<1>2. CASE Push \/ PushEos \/ Pull \/ CloseBegin \/ CloserStep \/ UNCHANGED vars
  <2>1. UNCHANGED << pc, held, error >>
    BY <1>2 DEF Push, PushEos, Pull, PullFrame, PullEnd, CloseBegin, CloserStep,
                CloseCancel, CloseJoin, workerVars, vars
  <2>2. FailureRecorded'
    BY <2>1 DEF CarryInv, FailureRecorded
  <2>3. QED
    BY <1>1, <2>1, <2>2, CarryKept
<1>3. CASE Start
  BY <1>3, SinkFacts DEF Start, CarryInv, FailureRecorded, CleanExit
<1>4. ASSUME NEW w \in Workers, WorkerStep(w) PROVE CarryInv'
  BY <1>1, <1>4, CarryWorker
<1>5. QED
  BY <1>2, <1>3, <1>4 DEF Next

LEMMA CarryInvariance == Spec => [](IInv /\ CarryInv)
<1>1. Init => IInv /\ CarryInv
  <2>1. ASSUME Init PROVE CarryInv
    BY <2>1, SinkFacts DEF Init, CarryInv, FailureRecorded, CleanExit
  <2>2. QED
    BY <2>1, InitInv
<1>2. IInv /\ CarryInv /\ [Next]_vars => (IInv /\ CarryInv)'
  BY StepInv, CarryStep
<1>3. QED
  BY <1>1, <1>2, PTL DEF Spec

(* A thread that has not left counts.                                      *)
LEMMA RunningCounts ==
  ASSUME IInv, NEW w \in Workers, pc[w] \notin {"unborn", "done"}
  PROVE  active # 0 /\ active \in Nat /\ active <= NodeCount
<1>1. IsFiniteSet({v \in Workers : pc[v] \notin {"unborn", "done"}})
  <2>1. IsFiniteSet(0 .. NodeCount - 1)
    BY ConstantTypes, FS_Interval
  <2>2. QED
    BY <2>1, FS_Subset DEF Workers
<1>2. {v \in Workers : pc[v] \notin {"unborn", "done"}} # {}
  OBVIOUS
<1>3. QED
  BY <1>1, <1>2, FS_EmptySet, ConstantTypes
     DEF IInv, ActiveCount, TypeOK, ControlTypeOK

(* What the application learns does not change while threads run.          *)
LEMMA OutcomeStays ==
  ASSUME verdict' = verdict,
         \/ UNCHANGED << error, started, active >>
         \/ (~started \/ active # 0) /\ (~started' \/ active' # 0)
  PROVE  Outcome' = Outcome
BY DEF Outcome

(* What a step does to the input side of the stream.                       *)
InputStays == Accepted' = Accepted /\ (Sealed => Sealed')

LEMMA InputTypes ==
  ASSUME IInv
  PROVE  /\ Accepted \in Nat /\ Sealed \in BOOLEAN
         /\ \A q \in 1 .. OutQ : sent[q] <= Accepted
<1>1. /\ rcvd[0] \in Nat /\ sent[0] \in Nat /\ queue[0].end \in BOOLEAN
      /\ sent[0] = rcvd[0] + Len(queue[0].buf) /\ Len(queue[0].buf) \in Nat
  BY InvParts, DataNumbers, ConstantTypes DEF QueueType
<1>2. ASSUME NEW q \in 1 .. OutQ PROVE sent[q] <= Accepted
  <2>1. sent[q] <= rcvd[0] /\ sent[q] \in Nat
    <3>1. q \in Queues /\ q # 0
      BY ConstantTypes DEF Queues, OutQ
    <3>2. QED
      BY <3>1, InvParts, DataNumbers
  <2>2. rcvd[0] <= sent[0]
    BY <1>1
  <2>3. QED
    BY <1>1, <2>1, <2>2 DEF Accepted
<1>3. QED
  BY <1>1, <1>2 DEF Accepted, Sealed

(* Steps outside the source and its file keep the input.                   *)
LEMMA InputKept ==
  ASSUME EndsKept, sent'[0] = sent[0] \/ FileSource, rcvd'[0] = rcvd[0] \/ ~FileSource,
         status'[0] = status[0] \/ status[0] # "Eof" \/ ~FileSource
  PROVE  InputStays
BY ConstantTypes DEF InputStays, Accepted, Sealed, EndsKept

(* The steps of the stream that a step of the session is.                  *)
LEMMA Seals ==
  ASSUME IInv, IInv', InputStays, delivered' = delivered, Outcome' = Outcome
  PROVE  [Carrier!Next]_(Carrier!vars)
<1>1. Sealed \in BOOLEAN /\ Sealed' \in BOOLEAN
  BY ConstantTypes DEF IInv, TypeOK, DataTypeOK, QueueType, Sealed
<1>2. CASE Sealed' = Sealed
  BY <1>2 DEF Carrier!vars, InputStays
<1>3. CASE Sealed' # Sealed
  <2>1. Sealed' = TRUE
    BY <1>1, <1>3 DEF InputStays
  <2>2. Carrier!Seal
    BY <2>1 DEF Carrier!Seal, InputStays
  <2>3. QED
    BY <2>2 DEF Carrier!Next
<1>4. QED
  BY <1>2, <1>3

(* A push is an acceptance unless the source reads a file.                 *)
LEMMA Accepts ==
  ASSUME IInv, ~FileSource, Push
  PROVE  Carrier!Next
<1>1. ~queue[0].end /\ sent'[0] = sent[0] + 1 /\ queue'[0].end = queue[0].end
  <2>1. queue[0] \in QueueType /\ sent[0] \in Nat /\ 0 \in Queues
    BY InvParts, DataNumbers, ConstantTypes
  <2>2. ~queue[0].end
    BY <2>1, OpenQueue DEF Push
  <2>3. sent[0] + 1 \in 1 .. MaxFrames
    BY <2>1, ConstantTypes DEF Push
  <2>4. sent'[0] = sent[0] + 1
    BY <2>1 DEF Push, IInv, TypeOK, DataTypeOK
  <2>5. queue'[0].end = queue[0].end
    BY <2>1, <2>3, MoveBy DEF Push
  <2>6. QED
    BY <2>2, <2>4, <2>5
<1>2. delivered' = delivered /\ Outcome' = Outcome
  BY OutcomeStays DEF Push, appVars
<1>3. Carrier!Accept
  BY <1>1, <1>2 DEF Carrier!Accept, Accepted, Sealed
<1>4. QED
  BY <1>3 DEF Carrier!Next

(* A file is accepted frame by frame, as the source reads it.              *)
LEMMA Reads ==
  ASSUME IInv, FileSource, PopFrame(0)
  PROVE  Carrier!Next
<1>1. /\ pc[0] = "pop" /\ rcvd' = [rcvd EXCEPT ![0] = @ + 1]
      /\ UNCHANGED << delivered, verdict, status, active, error, started >>
  BY DEF PopFrame, Goto, appVars
<1>2. rcvd'[0] = rcvd[0] + 1
  BY <1>1, ConstantTypes DEF IInv, TypeOK, DataTypeOK
<1>3. status[0] = "Ok"
  BY <1>1, WorkerTypes, ConstantTypes DEF WorkerAt
<1>4. Outcome' = Outcome
  BY <1>1, OutcomeStays
<1>5. Carrier!Accept
  BY <1>1, <1>2, <1>3, <1>4 DEF Carrier!Accept, Accepted, Sealed
<1>6. QED
  BY <1>5 DEF Carrier!Next

LEMMA Delivers == ASSUME IInv, PullFrame PROVE Carrier!Next
<1>1. /\ queue[OutQ].buf # << >>
      /\ queue[OutQ].buf \in Seq(1 .. MaxFrames)
      /\ sent[OutQ] = rcvd[OutQ] + Len(queue[OutQ].buf)
      /\ sent[OutQ] \in Nat /\ rcvd[OutQ] \in Nat /\ Accepted \in Nat
      /\ sent[OutQ] <= Accepted /\ Len(delivered) = rcvd[OutQ]
  <2>1. OutQ \in 1 .. OutQ
    BY ConstantTypes DEF OutQ
  <2>2. sent[OutQ] <= Accepted /\ Accepted \in Nat
    BY <2>1, InputTypes
  <2>3. QED
    BY <2>2, InvParts, DataNumbers, SinkFacts DEF PullFrame
<1>2. Len(queue[OutQ].buf) >= 1 /\ Head(queue[OutQ].buf) = queue[OutQ].buf[1]
      /\ Len(queue[OutQ].buf) \in Nat
  BY <1>1, TailType
<1>3. Head(queue[OutQ].buf) = Len(delivered) + 1
  BY <1>1, <1>2, SinkFacts DEF IInv, Contents
<1>4. Len(delivered) < Accepted
  BY <1>1, <1>2
<1>5. ~FileSink /\ verdict = "None"
  BY <1>1 DEF IInv, Contents, VerdictFinal
<1>6. Outcome = "None" /\ Outcome' = "None"
  BY <1>5 DEF Outcome, PullFrame
<1>7. /\ delivered' = Append(delivered, Len(delivered) + 1)
      /\ Accepted' = Accepted /\ Sealed' = Sealed
  <2>1. delivered' = Append(delivered, Len(delivered) + 1)
    BY <1>3 DEF PullFrame
  <2>2. /\ sent'[0] = sent[0] /\ queue'[0] = queue[0] /\ rcvd'[0] = rcvd[0]
        /\ status' = status
    BY SinkFacts, ConstantTypes
       DEF PullFrame, workerVars, IInv, TypeOK, DataTypeOK
  <2>3. QED
    BY <2>1, <2>2 DEF Accepted, Sealed
<1>8. Carrier!Deliver
  BY <1>4, <1>6, <1>7 DEF Carrier!Deliver
<1>9. QED
  BY <1>8 DEF Carrier!Next

(* The end that pull() reports is an error, or the queue's clean end.      *)
LEMMA Concludes == ASSUME IInv, PullEnd PROVE [Carrier!Next]_(Carrier!vars)
<1>1. /\ queue[OutQ].end /\ queue[OutQ].buf = << >>
      /\ verdict' = queue[OutQ].status
      /\ UNCHANGED << queue, sent, delivered, error, started, active >>
      /\ Accepted' = Accepted /\ Sealed' = Sealed
  BY DEF PullEnd, MayPop, PopStatus, appVars, workerVars, Accepted, Sealed
<1>2. CASE FileSink \/ verdict # "None"
  <2>1. Outcome' = Outcome
    BY <1>1, <1>2 DEF Outcome, IInv, VerdictFinal, EndedWith
  <2>2. QED
    BY <1>1, <2>1 DEF Carrier!vars
<1>3. CASE ~FileSink /\ verdict = "None"
  <2>1. Outcome = "None" /\ Outcome' = queue[OutQ].status
    BY <1>1, <1>3 DEF Outcome
  <2>2. queue[OutQ].status \in Errors \cup {"Eof"}
    BY InvParts, DataNumbers, SinkFacts DEF QueueType
  <2>3. queue[OutQ].status = "Eof" => Sealed /\ Len(delivered) = Accepted
    <3>1. /\ sent[OutQ] = rcvd[OutQ] + Len(queue[OutQ].buf)
          /\ rcvd[OutQ] \in Nat /\ Len(delivered) = rcvd[OutQ]
      BY InvParts, DataNumbers, SinkFacts
    <3>2. Len(queue[OutQ].buf) = 0
      BY <1>1
    <3>3. QED
      BY <1>1, <3>1, <3>2, EofNoError DEF EndedWith
  <2>4. Carrier!Conclude(queue[OutQ].status)
    BY <1>1, <2>1, <2>2, <2>3 DEF Carrier!Conclude
  <2>5. queue[OutQ].status \in Statuses
    BY <2>2 DEF Statuses, Benign
  <2>6. QED
    BY <2>4, <2>5 DEF Carrier!Next
<1>4. QED
  BY <1>2, <1>3

(* A file sink delivers by writing.                                        *)
LEMMA Writes ==
  ASSUME IInv, FileSink, Emit(Sink)
  PROVE  Carrier!Next
<1>1. /\ pc[Sink] \in {"work", "flush"} /\ held[Sink] # << >>
      /\ delivered' = Append(delivered, Head(held[Sink]))
      /\ sent' = [sent EXCEPT ![Sink + 1] = @ + 1]
      /\ rcvd' = [rcvd EXCEPT ![OutQ] = @ + 1]
      /\ UNCHANGED << queue, verdict, status, error, started, active >>
  BY DEF Emit, appVars
<1>2. /\ held[Sink] \in Seq(1 .. MaxFrames) /\ rcvd[Sink] = sent[OutQ] + Len(held[Sink])
      /\ sent[Sink] = rcvd[Sink] + Len(queue[Sink].buf)
      /\ sent[OutQ] = rcvd[OutQ] + Len(queue[OutQ].buf)
      /\ Len(queue[Sink].buf) \in Nat /\ Len(delivered) = rcvd[OutQ]
      /\ sent[Sink] \in Nat /\ sent[OutQ] \in Nat /\ rcvd[OutQ] \in Nat
      /\ rcvd[Sink] \in Nat
  BY <1>1, InvParts, DataNumbers, SinkFacts
<1>11. Accepted \in Nat /\ sent[Sink] <= Accepted
  BY InputTypes, SinkFacts
<1>12. Accepted' = Accepted /\ Sealed' = Sealed
  <2>1. sent'[0] = sent[0] /\ rcvd'[0] = rcvd[0]
    BY <1>1, SinkFacts, ConstantTypes DEF IInv, TypeOK, DataTypeOK
  <2>2. QED
    BY <1>1, <2>1 DEF Accepted, Sealed
<1>3. /\ Len(held[Sink]) >= 1 /\ Head(held[Sink]) = held[Sink][1]
      /\ Len(held[Sink]) \in Nat
  BY <1>1, <1>2, TailType
<1>4. sent[OutQ] = Len(delivered)
  <2>1. Len(queue[OutQ].buf) = 0
    BY DEF IInv, Contents
  <2>2. QED
    BY <1>2, <2>1
<1>5. Head(held[Sink]) = Len(delivered) + 1
  BY <1>3, <1>4, SinkFacts DEF IInv, Contents
<1>6. Len(delivered) < Accepted
  BY <1>2, <1>3, <1>4, <1>11, SMTT(40)
<1>7. active # 0
  BY <1>1, RunningCounts, SinkFacts
<1>8. Outcome = "None" /\ Outcome' = "None"
  BY <1>1, <1>7 DEF Outcome
<1>9. Carrier!Deliver
  BY <1>1, <1>5, <1>6, <1>8, <1>12 DEF Carrier!Deliver
<1>10. QED
  BY <1>9 DEF Carrier!Next

(* The last thread to leave a file session lets wait() return.             *)
LEMMA Returns ==
  ASSUME IInv, IInv', CarryInv, EndsKept, NEW w \in Workers, Leave(w)
  PROVE  [Carrier!Next]_(Carrier!vars)
<1>1. /\ pc[w] = "leave" /\ pc' = [pc EXCEPT ![w] = "done"]
      /\ UNCHANGED << queue, sent, rcvd, delivered, held, verdict, status >>
      /\ UNCHANGED << error, started >>
  BY DEF Leave, Goto, appVars
<1>6. Accepted' = Accepted /\ Sealed' = Sealed /\ InputStays
  BY <1>1 DEF Accepted, Sealed, InputStays
<1>2. active # 0
  BY <1>1, RunningCounts
<1>3. CASE ~FileSink \/ ~started \/ active' # 0
  <2>1. Outcome' = Outcome
    BY <1>1, <1>2, <1>3 DEF Outcome
  <2>2. QED
    BY <1>1, <1>6, <2>1, Seals
<1>4. CASE FileSink /\ started /\ active' = 0
  <2>1. Outcome = "None" /\ Outcome' = IF error = "Ok" THEN "Eof" ELSE error
    BY <1>1, <1>2, <1>4 DEF Outcome
  <2>2. pc[Sink] \in {"leave", "done"}
    <3>1. {v \in Workers : pc'[v] \notin {"unborn", "done"}} = {}
      <4>1. IsFiniteSet(0 .. NodeCount - 1)
        BY ConstantTypes, FS_Interval
      <4>2. IsFiniteSet({v \in Workers : pc'[v] \notin {"unborn", "done"}})
        BY <4>1, FS_Subset DEF Workers
      <4>3. QED
        BY <1>4, <4>2, FS_EmptySet DEF IInv, ActiveCount
    <3>2. pc'[Sink] \in {"unborn", "done"}
      BY <3>1, SinkFacts
    <3>3. pc[Sink] # "unborn"
      BY <1>4, SinkFacts DEF IInv, BornWhenStarted
    <3>4. QED
      BY <1>1, <3>2, <3>3, WorkerTypes, SinkFacts
  <2>3. error = "Ok" => Sealed /\ Len(delivered) = Accepted
    <3>1. SUFFICES ASSUME error = "Ok"
                   PROVE  Sealed /\ Len(delivered) = Accepted
      OBVIOUS
    <3>2. EndedWith(Sink, "Eof") /\ queue[Sink].buf = << >> /\ held[Sink] = << >>
      BY <2>2, <3>1 DEF CarryInv, CleanExit
    <3>3. sent[Sink] = Accepted /\ Sealed
      <4>1. /\ sent[Sink] = Accepted
            /\ FileSource \/ queue[0].end
            /\ \A v \in 0 .. Sink - 1 : status[v] = "Eof"
        BY <3>2, SinkFacts DEF IInv, EofChain
      <4>2. 0 \in 0 .. Sink - 1
        BY ConstantTypes DEF Sink
      <4>3. QED
        BY <4>1, <4>2 DEF Sealed
    <3>4. /\ sent[Sink] = rcvd[Sink] + Len(queue[Sink].buf)
          /\ rcvd[Sink] = sent[OutQ] + Len(held[Sink])
          /\ sent[OutQ] = rcvd[OutQ] + Len(queue[OutQ].buf)
          /\ rcvd[Sink] \in Nat /\ sent[OutQ] \in Nat /\ rcvd[OutQ] \in Nat
          /\ Len(delivered) = rcvd[OutQ]
      BY InvParts, DataNumbers, SinkFacts
    <3>5. /\ Len(queue[Sink].buf) = 0 /\ Len(held[Sink]) = 0
          /\ Len(queue[OutQ].buf) = 0
      BY <1>4, <3>2 DEF IInv, Contents
    <3>6. QED
      BY <3>3, <3>4, <3>5
  <2>4. error \in Errors \cup {"Ok"}
    BY DEF IInv, TypeOK, ControlTypeOK
  <2>5. Carrier!Conclude(IF error = "Ok" THEN "Eof" ELSE error)
    BY <1>1, <1>6, <2>1, <2>3, <2>4 DEF Carrier!Conclude
  <2>6. (IF error = "Ok" THEN "Eof" ELSE error) \in Statuses
    BY <2>4 DEF Statuses, Benign
  <2>7. QED
    BY <2>5, <2>6 DEF Carrier!Next
<1>5. QED
  BY <1>3, <1>4

(* What the source took for its end it does not take back, and it reads    *)
(* no more.                                                                *)
LEMMA SourceStays ==
  ASSUME IInv, EndsKept, NEW w \in Workers, WorkerStep(w),
         ~(w = 0 /\ FileSource /\ PopFrame(w)), ~(w = Sink /\ FileSink /\ Emit(w))
  PROVE  InputStays
<1>1. /\ sent'[0] = sent[0]
      /\ rcvd'[0] = rcvd[0] \/ ~FileSource
  <2>1. CASE Emit(w)
    <3>1. w + 1 # 0 /\ 0 \in Queues /\ OutQ # 0
      BY ConstantTypes DEF Workers, OutQ
    <3>2. sent \in [Queues -> 0 .. MaxFrames] /\ rcvd \in [Queues -> 0 .. MaxFrames]
      BY DEF IInv, TypeOK, DataTypeOK
    <3>3. sent' = [sent EXCEPT ![w + 1] = @ + 1]
      BY <2>1 DEF Emit
    <3>4. rcvd' = rcvd \/ rcvd' = [rcvd EXCEPT ![OutQ] = @ + 1]
      BY <2>1 DEF Emit
    <3>5. QED
      BY <3>1, <3>2, <3>3, <3>4
  <2>2. CASE PopFrame(w)
    BY <2>2, WorkerTypes, ConstantTypes DEF PopFrame, IInv, TypeOK, DataTypeOK
  <2>3. CASE ~Emit(w) /\ ~PopFrame(w)
    BY <2>3 DEF WorkerStep, PopEnd, QueueEnds, ReadFails, EmitRefused, ProcessOk, NodeFails,
                FlushOk, FailRecord, FailCancel, EndOutput, Leave
  <2>4. QED
    BY <2>1, <2>2, <2>3
<1>2. CASE PopEnd(w) \/ EmitRefused(w) \/ NodeFails(w)
  <2>1. CASE w # 0
    <3>1. status'[0] = status[0]
      BY <1>2, <2>1, WorkerTypes, ConstantTypes
         DEF PopEnd, QueueEnds, ReadFails, EmitRefused, NodeFails, IInv, TypeOK,
             ControlTypeOK
    <3>2. QED
      BY <1>1, <3>1, InputKept
  <2>2. CASE w = 0
    <3>1. /\ pc[0] \in {"pop", "work", "flush"}
          /\ pc[0] = "flush" => held[0] # << >> \/ IsCodec(0)
      BY <1>2, <2>2 DEF PopEnd, QueueEnds, ReadFails, EmitRefused, NodeFails
    <3>2. pc[0] \in {"pop", "work"}
      BY <3>1, WorkerTypes, ConstantTypes DEF WorkerAt, IsCodec
    <3>3. status[0] = "Ok"
      BY <3>2, WorkerTypes, ConstantTypes DEF WorkerAt
    <3>4. QED
      BY <1>1, <3>3, InputKept
  <2>3. QED
    BY <2>1, <2>2
<1>3. CASE ~(PopEnd(w) \/ EmitRefused(w) \/ NodeFails(w))
  <2>1. status' = status
    BY <1>3 DEF WorkerStep, PopFrame, Emit, ProcessOk, FlushOk, FailRecord,
                FailCancel, EndOutput, Leave
  <2>2. QED
    BY <1>1, <2>1, InputKept
<1>4. QED
  BY <1>2, <1>3

LEMMA CarriesWorker ==
  ASSUME IInv, IInv', CarryInv, EndsKept, NEW w \in Workers, WorkerStep(w)
  PROVE  [Carrier!Next]_(Carrier!vars)
<1>1. CASE Leave(w)
  BY <1>1, Returns
<1>2. CASE w = Sink /\ FileSink /\ Emit(w)
  BY <1>2, Writes
<1>5. CASE w = 0 /\ FileSource /\ PopFrame(w)
  BY <1>5, Reads
<1>3. CASE /\ ~Leave(w) /\ ~(w = Sink /\ FileSink /\ Emit(w))
           /\ ~(w = 0 /\ FileSource /\ PopFrame(w))
  <2>1. /\ pc[w] \notin {"unborn", "done"}
        /\ UNCHANGED << verdict, started, active, delivered >>
    BY <1>3 DEF WorkerStep, PopFrame, PopEnd, QueueEnds, ReadFails, Emit, EmitRefused,
                ProcessOk, NodeFails, FlushOk, FailRecord, FailCancel,
                EndOutput, Goto, appVars
  <2>2. InputStays
    BY <1>3, SourceStays
  <2>3. active # 0
    BY <2>1, RunningCounts
  <2>4. Outcome' = Outcome
    BY <2>1, <2>3, OutcomeStays
  <2>5. QED
    BY <2>1, <2>2, <2>4, Seals
<1>4. QED
  BY <1>1, <1>2, <1>3, <1>5

LEMMA CarriesStep ==
  ASSUME IInv, CarryInv, [Next]_vars
  PROVE  [Carrier!Next]_(Carrier!vars)
<1>1. IInv' /\ EndsKept
  BY StepInv
<1>2. CASE Push
  <2>1. CASE ~FileSource
    BY <1>2, <2>1, Accepts
  <2>2. CASE FileSource
    <3>1. /\ UNCHANGED << rcvd, status, delivered, verdict >>
          /\ UNCHANGED << error, started, active >>
      BY <1>2 DEF Push, workerVars, appVars
    <3>2. InputStays
      BY <1>1, <2>2, <3>1, InputKept
    <3>3. Outcome' = Outcome
      BY <3>1, OutcomeStays
    <3>4. QED
      BY <1>1, <3>1, <3>2, <3>3, Seals
  <2>3. QED
    BY <2>1, <2>2
<1>3. CASE Pull
  BY <1>3, Delivers, Concludes DEF Pull
<1>4. CASE Start
  <2>1. /\ UNCHANGED << sent, rcvd, status, delivered, verdict >>
        /\ ~started /\ active' # 0
    BY <1>4, ConstantTypes DEF Start
  <2>2. Outcome' = Outcome
    BY <2>1, OutcomeStays
  <2>4. InputStays
    BY <1>1, <2>1, InputKept
  <2>3. QED
    BY <1>1, <2>1, <2>2, <2>4, Seals
<1>5. ASSUME NEW w \in Workers, WorkerStep(w)
      PROVE  [Carrier!Next]_(Carrier!vars)
  BY <1>1, <1>5, CarriesWorker
<1>6. CASE PushEos \/ CloseBegin \/ CloserStep \/ UNCHANGED vars
  <2>1. /\ UNCHANGED << sent, rcvd, status, delivered, verdict >>
        /\ UNCHANGED << error, started, active >>
    BY <1>6 DEF PushEos, CloseBegin, CloserStep, CloseCancel, CloseJoin, vars,
                workerVars, appVars
  <2>2. Outcome' = Outcome
    BY <2>1, OutcomeStays
  <2>4. InputStays
    BY <1>1, <2>1, InputKept
  <2>3. QED
    BY <1>1, <2>1, <2>2, <2>4, Seals
<1>7. QED
  BY <1>2, <1>3, <1>4, <1>5, <1>6 DEF Next

LEMMA CarriesInit == ASSUME Init PROVE Carrier!Init
<1>1. Accepted = 0 /\ Sealed = FALSE
  <2>1. 0 \in Queues /\ 0 \in Workers
    BY ConstantTypes
  <2>2. CASE FileSource
    BY <2>1, <2>2 DEF Init, Accepted, Sealed
  <2>3. CASE ~FileSource
    BY <2>1, <2>3 DEF Init, EmptyQueue, Accepted, Sealed
  <2>4. QED
    BY <2>2, <2>3
<1>2. delivered = << >> /\ Outcome = "None"
  BY DEF Init, Outcome
<1>3. QED
  BY <1>1, <1>2 DEF Carrier!Init

(* Whatever the endpoints, the number of nodes and the capacity, a session *)
(* is a stream: frames leave in order, an Eof follows the last of them and *)
(* only an error or a close cuts them off (session.cpp, executor.cpp).     *)
THEOREM SessionIsAStream == Spec => CarriesStream
<1>1. Init => Carrier!Init
  BY CarriesInit
<1>2. IInv /\ CarryInv /\ [Next]_vars => [Carrier!Next]_(Carrier!vars)
  BY CarriesStep
<1>3. QED
  BY <1>1, <1>2, CarryInvariance, PTL DEF Spec, CarriesStream, Carrier!Spec
=============================================================================
