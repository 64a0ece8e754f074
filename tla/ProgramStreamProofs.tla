------------------------- MODULE ProgramStreamProofs -------------------------
(***************************************************************************)
(* The program stream is lossless: whatever was muxed, in whatever pieces  *)
(* it arrives and wherever the receiver joined, the demuxer gives out the  *)
(* access units that begin after that point, whole, in order and each      *)
(* once, and never calls a stream malformed.                               *)
(*                                                                         *)
(* The argument goes along the wire.  A fragment Carries its headers and   *)
(* its bytes, packet (k, n) of unit k lies at Base, Pes and Ends, and from *)
(* a place that is Near the next packet the first start code in sight is   *)
(* one of that packet's headers or one that next() passes over             *)
(* (FirstCode).  Reading relates the demuxer to such a place: its buffer   *)
(* is what the wire holds there, and the open unit and the frames are what *)
(* went by.  Every round of next() keeps Reading and gets further, waits   *)
(* for the packet's end, or hands out a frame (ScanGives); so does a call  *)
(* (NextGives).  The invariant PsInv says that the receiver is Reading.    *)
(***************************************************************************)
EXTENDS ProgramStream, FiniteSetTheorems, SequenceTheorems, WellFoundedInduction, TLAPS

-----------------------------------------------------------------------------
(* Recursions, and numbers.                                                *)

(* A set of numbers that is not empty has a least one.                     *)
LEMMA LeastNumber ==
  ASSUME NEW T, T \subseteq Nat, T # {}
  PROVE  \E m \in T : \A k \in T : m <= k
<1> DEFINE less == {p \in Nat \X Nat : p[1] < p[2]}
<1>1. IsWellFoundedOn(less, Nat)
  BY NatLessThanWellFounded DEF OpToRel
<1> HIDE DEF less
<1>2. PICK m \in T : \A k \in T : ~(<< k, m >> \in less)
  BY <1>1, WFMin
<1>3. ASSUME NEW k \in T PROVE m <= k
  <2>1. ~(<< k, m >> \in less) /\ m \in Nat /\ k \in Nat
    BY <1>2
  <2> QED
    BY <2>1 DEF less
<1> QED
  BY <1>3

(* Induction up to N, over a set.                                          *)
LEMMA Induction ==
  ASSUME NEW N \in Nat, NEW T, 0 \in T, \A n \in 1 .. N : n - 1 \in T => n \in T
  PROVE  0 .. N \subseteq T
<1> DEFINE bad == {n \in 0 .. N : n \notin T}
<1>1. SUFFICES ASSUME bad # {} PROVE FALSE
  OBVIOUS
<1> HIDE DEF bad
<1>2. bad \subseteq Nat
  BY DEF bad
<1>3. PICK m \in bad : \A k \in bad : m <= k
  BY <1>1, <1>2, LeastNumber
<1> USE DEF bad
<1>4. m \in 0 .. N /\ m \notin T /\ m # 0
  BY <1>3
<1>5. m - 1 \in 0 .. N /\ m \in 1 .. N
  BY <1>4
<1>6. m - 1 \in bad => m <= m - 1
  BY <1>3
<1> QED
  BY <1>4, <1>5, <1>6

Follows(f, base, step, n) == IF n = 0 THEN base ELSE step[n][f[n - 1]]

Stepping(N, S, base, step) == base \in S /\ step \in [1 .. N -> [S -> S]]

(* A function given by its first value and its steps exists.               *)
LEMMA Recursion ==
  ASSUME NEW N \in Nat, NEW S, NEW base, NEW step, Stepping(N, S, base, step)
  PROVE  \E f \in [0 .. N -> S] : \A n \in 0 .. N : f[n] = Follows(f, base, step, n)
<1> USE DEF Stepping
<1> DEFINE upto(m) == \E f \in [0 .. N -> S] : \A n \in 0 .. m : f[n] = Follows(f, base, step, n)
           T == {m \in 0 .. N : upto(m)}
<1>1. 0 \in T
  <2> DEFINE f == [n \in 0 .. N |-> base]
  <2>1. f \in [0 .. N -> S] /\ \A n \in 0 .. 0 : f[n] = Follows(f, base, step, n)
    BY DEF Follows
  <2> QED
    BY <2>1
<1>2. ASSUME NEW m \in 1 .. N, m - 1 \in T
      PROVE  m \in T
  <2>1. PICK f \in [0 .. N -> S] : \A n \in 0 .. m - 1 : f[n] = Follows(f, base, step, n)
    BY <1>2
  <2> DEFINE g == [n \in 0 .. N |-> IF n = m THEN step[m][f[m - 1]] ELSE f[n]]
  <2>2. m - 1 \in 0 .. N /\ f[m - 1] \in S /\ step[m][f[m - 1]] \in S
    OBVIOUS
  <2>3. g \in [0 .. N -> S]
    BY <2>2
  <2>4. ASSUME NEW n \in 0 .. m PROVE g[n] = Follows(g, base, step, n)
    <3>1. CASE n = m
      BY <2>2, <3>1 DEF Follows
    <3>2. CASE n # m
      <4>1. n \in 0 .. m - 1 /\ n \in 0 .. N /\ n - 1 # m /\ (n # 0 => n - 1 \in 0 .. N)
        BY <3>2
      <4>2. g[n] = f[n] /\ (n # 0 => g[n - 1] = f[n - 1])
        BY <4>1
      <4>3. f[n] = Follows(f, base, step, n)
        BY <2>1, <4>1
      <4> QED
        BY <4>2, <4>3 DEF Follows
    <3> QED
      BY <3>1, <3>2
  <2> HIDE DEF g
  <2>5. upto(m)
    BY <2>3, <2>4
  <2> QED
    BY <2>5
<1> HIDE DEF T
<1>3. 0 .. N \subseteq T
  BY <1>1, <1>2, Induction
<1>4. N \in T
  BY <1>3
<1> QED
  BY <1>4 DEF T

(* A function on 1 .. n is a sequence of length n.                         *)
LEMMA FunctionIsSeq ==
  ASSUME NEW n \in Nat, NEW S, NEW f \in [1 .. n -> S]
  PROVE  f \in Seq(S) /\ Len(f) = n
<1>1. f \in Seq(S)
  BY SeqDef
<1>2. DOMAIN f = 1 .. Len(f) /\ Len(f) \in Nat
  BY <1>1, LenProperties
<1>3. DOMAIN f = 1 .. n
  OBVIOUS
<1>4. Len(f) = n
  BY <1>2, <1>3
<1> QED
  BY <1>1, <1>4

(* What the recursion of Joined builds.                                    *)
LEMMA JoinedIs ==
  ASSUME NEW ss, Len(ss) \in Nat, \A k \in 1 .. Len(ss) : ss[k] \in Seq(Int)
  PROVE  /\ \A k \in 0 .. Len(ss) : Joined(ss)[k] \in Seq(Int)
         /\ Joined(ss)[0] = << >>
         /\ \A k \in 1 .. Len(ss) : Joined(ss)[k] = Joined(ss)[k - 1] \o ss[k]
<1> DEFINE N == Len(ss)
           nil == << >>
           cat(f, k) == f[k - 1] \o ss[k]
           next(f, k) == IF k = 0 THEN nil ELSE cat(f, k)
           step == [k \in 1 .. N |-> [s \in Seq(Int) |-> s \o ss[k]]]
           follows(f) == f = [k \in 0 .. N |-> next(f, k)]
           chosen == CHOOSE f : follows(f)
<1>17. nil \in Seq(Int)
  BY EmptySeq
<1> HIDE DEF nil, cat
<1>1. N \in Nat /\ \A k \in 1 .. N : ss[k] \in Seq(Int)
  OBVIOUS
<1>2. \A k \in 1 .. N, s \in Seq(Int) : step[k][s] = s \o ss[k]
  OBVIOUS
<1>3. Stepping(N, Seq(Int), nil, step)
  <2>1. \A k \in 1 .. N, s \in Seq(Int) : s \o ss[k] \in Seq(Int)
    BY <1>1, ConcatProperties
  <2> QED
    BY <2>1, <1>17 DEF Stepping
<1> HIDE DEF step, N
<1>4. PICK f \in [0 .. N -> Seq(Int)] : \A k \in 0 .. N : f[k] = Follows(f, nil, step, k)
  <2> DEFINE S == Seq(Int)
  <2>1. N \in Nat
    BY <1>1
  <2>2. Stepping(N, S, nil, step)
    BY <1>3
  <2> HIDE DEF S, chosen, follows, next
  <2>3. \E f \in [0 .. N -> S] : \A k \in 0 .. N : f[k] = Follows(f, nil, step, k)
    BY ONLY <2>1, <2>2, Recursion
  <2> QED
    BY <2>3 DEF S
<1>5. ASSUME NEW g, NEW k \in 0 .. N, k # 0 => g[k - 1] \in Seq(Int)
      PROVE  Follows(g, nil, step, k) = next(g, k)
  <2>1. k # 0 => k \in 1 .. N
    BY <1>1
  <2> QED
    BY <1>2, <1>5, <2>1 DEF Follows, cat
<1>6. ASSUME NEW k \in 0 .. N PROVE f[k] = next(f, k)
  <2>1. k # 0 => k - 1 \in 0 .. N
    BY <1>1
  <2>2. Follows(f, nil, step, k) = next(f, k)
    BY <1>5, <2>1
  <2> QED
    BY <1>4, <2>2
<1>7. f = [k \in 0 .. N |-> f[k]]
  BY <1>4
<1> HIDE DEF next
<1>8. follows(f)
  BY <1>6, <1>7
<1>9. follows(chosen)
  BY <1>8
<1>10. Joined(ss) = chosen
  BY DEF Joined, next, N, nil, cat
<1> HIDE DEF chosen
<1>11. \A k \in 0 .. N : chosen[k] = next(chosen, k)
  BY <1>9
<1> DEFINE T == {k \in 0 .. N : chosen[k] \in Seq(Int)}
<1>16. chosen[0] = nil /\ \A k \in 1 .. N : chosen[k] = cat(chosen, k)
  <2>1. chosen[0] = next(chosen, 0)
    BY <1>1, <1>11
  <2>2. ASSUME NEW k \in 1 .. N PROVE chosen[k] = cat(chosen, k)
    <3>1. chosen[k] = next(chosen, k)
      BY <1>1, <1>11
    <3> QED
      BY <1>1, <3>1 DEF next
  <2> QED
    BY <2>1, <2>2 DEF next
<1>12. 0 \in T
  BY <1>1, <1>16, <1>17
<1>13. ASSUME NEW k \in 1 .. N, k - 1 \in T PROVE k \in T
  <2>1. chosen[k] = cat(chosen, k) /\ chosen[k - 1] \in Seq(Int)
    BY <1>1, <1>16, <1>13
  <2>2. cat(chosen, k) \in Seq(Int)
    BY <1>1, <2>1, ConcatProperties DEF cat
  <2> QED
    BY <1>1, <2>1, <2>2
<1> HIDE DEF T
<1>14. 0 .. N \subseteq T
  BY <1>1, <1>12, <1>13, Induction
<1> QED
  BY <1>10, <1>14, <1>16 DEF T, N, nil, cat

Ran(f, x, m) == f = [k \in 0 .. m |-> IF k = 0 THEN GoOn(x, 0) ELSE Scan(f[k - 1])]

(* The rounds of next() follow their recursion.                            *)
LEMMA RoundsAre ==
  ASSUME NEW x, Len(x.buf) \in Nat
  PROVE  /\ Rounds(x)[0] = GoOn(x, 0)
         /\ \A k \in 1 .. Len(x.buf) + 1 : Rounds(x)[k] = Scan(Rounds(x)[k - 1])
<1> DEFINE N == Len(x.buf) + 1
           T == {m \in 0 .. N : \E f : Ran(f, x, m)}
<1>0. N \in Nat
  OBVIOUS
<1> HIDE DEF N
<1>1. 0 \in T
  <2> DEFINE f == [k \in 0 .. 0 |-> GoOn(x, 0)]
             g == [k \in 0 .. 0 |-> IF k = 0 THEN GoOn(x, 0) ELSE Scan(f[k - 1])]
  <2>1. \A k \in 0 .. 0 : GoOn(x, 0) = IF k = 0 THEN GoOn(x, 0) ELSE Scan(f[k - 1])
    OBVIOUS
  <2>2. f = g
    BY <2>1
  <2>3. Ran(f, x, 0)
    BY <2>2 DEF Ran
  <2> QED
    BY <1>0, <2>3
<1>2. ASSUME NEW m \in 1 .. N, m - 1 \in T PROVE m \in T
  <2>1. PICK f : Ran(f, x, m - 1)
    BY <1>2
  <2>2. \A k \in 0 .. m - 1 : f[k] = IF k = 0 THEN GoOn(x, 0) ELSE Scan(f[k - 1])
    BY <2>1 DEF Ran
  <2> DEFINE g == [k \in 0 .. m |-> IF k = m THEN Scan(f[m - 1]) ELSE f[k]]
             e(k) == IF k = 0 THEN GoOn(x, 0) ELSE Scan(g[k - 1])
             h == [k \in 0 .. m |-> e(k)]
  <2>3. \A k \in 0 .. m : g[k] = IF k = m THEN Scan(f[m - 1]) ELSE f[k]
    OBVIOUS
  <2>4. g = [k \in 0 .. m |-> g[k]]
    OBVIOUS
  <2> HIDE DEF g
  <2>5. ASSUME NEW k \in 0 .. m PROVE g[k] = e(k)
    <3>0. m \in Nat /\ k \in Nat /\ m # 0
      BY <1>0
    <3>1. CASE k = m
      <4>1. m - 1 \in 0 .. m /\ m - 1 # m /\ m \in 0 .. m
        BY <3>0
      <4>2. g[m - 1] = f[m - 1] /\ g[m] = Scan(f[m - 1])
        BY <2>3, <4>1
      <4> QED
        BY <3>0, <3>1, <4>2
    <3>2. CASE k # m
      <4>1. k \in 0 .. m - 1 /\ (k # 0 => k - 1 \in 0 .. m /\ k - 1 # m)
        BY <3>0, <3>2
      <4>2. g[k] = f[k] /\ (k # 0 => g[k - 1] = f[k - 1])
        BY <2>3, <3>2, <4>1
      <4>3. f[k] = IF k = 0 THEN GoOn(x, 0) ELSE Scan(f[k - 1])
        BY <2>2, <4>1
      <4> QED
        BY <4>2, <4>3
    <3> QED
      BY <3>1, <3>2
  <2> HIDE DEF e
  <2>6. g = h
    BY <2>4, <2>5
  <2>7. Ran(g, x, m)
    BY <2>6 DEF Ran, e
  <2> QED
    BY <1>0, <2>7
<1> HIDE DEF T
<1>3. 0 .. N \subseteq T
  BY <1>0, <1>1, <1>2, Induction
<1>4. N \in T
  BY <1>0, <1>3
<1> DEFINE chosen == CHOOSE f : Ran(f, x, N)
<1>5. Ran(chosen, x, N)
  BY <1>4 DEF T
<1>6. Rounds(x) = chosen
  BY DEF Rounds, Ran, N
<1> HIDE DEF chosen
<1>7. \A k \in 0 .. N : chosen[k] = IF k = 0 THEN GoOn(x, 0) ELSE Scan(chosen[k - 1])
  BY <1>5 DEF Ran
<1>8. /\ chosen[0] = GoOn(x, 0)
      /\ \A k \in 1 .. N : chosen[k] = Scan(chosen[k - 1])
  BY <1>0, <1>7
<1> QED
  BY <1>6, <1>8 DEF N

(* The video entry is the only one of the stream map that is muxed.        *)
LEMMA OneEntry ==
  ASSUME NEW d, NEW q \in Nat, NEW known, NEW codec \in Codecs,
         d[q + 1] = StreamType(codec), d[q + 2] = Video, U16(d, q + 2) = 0
  PROVE  MapCodec(d, q, q + 4, known) = codec
<1>0. \/ StreamType(codec) = 27 /\ codec = "Avc"
      \/ StreamType(codec) = 36 /\ codec = "Hevc"
  BY DEF StreamType, Codecs
<1> DEFINE end == q + 4
           first == [q |-> q, known |-> known]
           last == [q |-> q + 4, known |-> codec]
           next(e) == NextEntry(d, end, e)
           runs(f) == f = [k \in 0 .. end |-> IF k = 0 THEN first ELSE next(f[k - 1])]
           chosen == CHOOSE f : runs(f)
           f0 == [k \in 0 .. end |-> IF k = 0 THEN first ELSE last]
<1>1. next(first) = last
  <2>2. d[q + 2] \in 224 .. 239
    BY DEF Video
  <2>3. q + 4 + U16(d, q + 2) = q + 4 /\ ~(q + 4 > end)
    OBVIOUS
  <2> QED
    BY <1>0, <2>2, <2>3 DEF NextEntry
<1>2. next(last) = last
  <2>1. last.q + 4 > end
    OBVIOUS
  <2> QED
    BY <2>1 DEF NextEntry
<1>3. end \in Nat /\ end # 0
  OBVIOUS
<1> HIDE DEF first, last, next, end
<1>4. \A k \in 0 .. end : f0[k] = IF k = 0 THEN first ELSE last
  OBVIOUS
<1>5. f0 = [k \in 0 .. end |-> f0[k]]
  OBVIOUS
<1> HIDE DEF f0
<1>6. ASSUME NEW k \in 0 .. end PROVE f0[k] = IF k = 0 THEN first ELSE next(f0[k - 1])
  <2>1. k # 0 => k - 1 \in 0 .. end
    BY <1>3
  <2> QED
    BY <1>1, <1>2, <1>4, <2>1
<1>7. runs(f0)
  BY <1>5, <1>6
<1>8. runs(chosen)
  BY <1>7
<1>9. Entries(d, q, end, known) = chosen
  BY DEF Entries, first, next
<1> HIDE DEF chosen
<1>10. \A k \in 0 .. end : chosen[k] = IF k = 0 THEN first ELSE next(chosen[k - 1])
  BY <1>8
<1> DEFINE T == {k \in 0 .. end : chosen[k] = IF k = 0 THEN first ELSE last}
<1>11. 0 \in T
  BY <1>3, <1>10
<1>12. ASSUME NEW k \in 1 .. end, k - 1 \in T PROVE k \in T
  <2>1. k \in 0 .. end /\ k # 0
    BY <1>3
  <2>2. chosen[k] = next(chosen[k - 1])
    BY <1>10, <2>1
  <2>3. chosen[k - 1] = first \/ chosen[k - 1] = last
    BY <1>12
  <2> QED
    BY <1>1, <1>2, <2>1, <2>2, <2>3
<1> HIDE DEF T
<1>13. 0 .. end \subseteq T
  BY <1>3, <1>11, <1>12, Induction
<1>14. chosen[end] = last
  BY <1>3, <1>13 DEF T
<1>15. Entries(d, q, end, known)[end].known = codec
  BY <1>9, <1>14 DEF last
<1> QED
  BY <1>15 DEF MapCodec, end

ByteSeqs(ss) == Len(ss) \in Nat /\ \A k \in 1 .. Len(ss) : ss[k] \in Seq(Int)

(* The parts of a joined sequence lie one after the other.                 *)
LEMMA JoinedGrows ==
  ASSUME NEW ss, ByteSeqs(ss)
  PROVE  /\ \A k \in 0 .. Len(ss) : Joined(ss)[k] \in Seq(Int) /\ Len(Joined(ss)[k]) \in Nat
         /\ Len(Joined(ss)[0]) = 0
         /\ \A k \in 1 .. Len(ss) :
              /\ Len(Joined(ss)[k]) = Len(Joined(ss)[k - 1]) + Len(ss[k])
              /\ Len(ss[k]) \in Nat
              /\ \A i \in 1 .. Len(Joined(ss)[k - 1]) : Joined(ss)[k][i] = Joined(ss)[k - 1][i]
              /\ \A i \in 1 .. Len(ss[k]) : Joined(ss)[k][Len(Joined(ss)[k - 1]) + i] = ss[k][i]
<1> DEFINE N == Len(ss)
           J == Joined(ss)
<1>1. N \in Nat /\ \A k \in 1 .. N : ss[k] \in Seq(Int)
  BY DEF ByteSeqs
<1>2. /\ \A k \in 0 .. N : J[k] \in Seq(Int)
      /\ J[0] = << >>
      /\ \A k \in 1 .. N : J[k] = J[k - 1] \o ss[k]
  BY <1>1, JoinedIs
<1> HIDE DEF N, J
<1>3. Len(J[0]) = 0
  BY <1>2, EmptySeq
<1>4. \A k \in 0 .. N : J[k] \in Seq(Int) /\ Len(J[k]) \in Nat
  BY <1>2, LenProperties
<1>5. ASSUME NEW k \in 1 .. N
      PROVE  /\ Len(J[k]) = Len(J[k - 1]) + Len(ss[k])
             /\ Len(ss[k]) \in Nat
             /\ \A i \in 1 .. Len(J[k - 1]) : J[k][i] = J[k - 1][i]
             /\ \A i \in 1 .. Len(ss[k]) : J[k][Len(J[k - 1]) + i] = ss[k][i]
  <2> DEFINE a == J[k - 1]
             b == ss[k]
             c == a \o b
  <2>1. k - 1 \in 0 .. N
    BY <1>1
  <2>2. a \in Seq(Int) /\ b \in Seq(Int) /\ Len(a) \in Nat /\ Len(b) \in Nat
    BY <1>1, <1>4, <2>1, LenProperties
  <2>3. J[k] = c
    BY <1>2
  <2>4. /\ Len(c) = Len(a) + Len(b)
        /\ \A i \in 1 .. Len(a) + Len(b) : c[i] = IF i <= Len(a) THEN a[i] ELSE b[i - Len(a)]
    BY <2>2, ConcatProperties
  <2> HIDE DEF a, b, c
  <2>5. \A i \in 1 .. Len(a) : c[i] = a[i]
    BY <2>2, <2>4
  <2>6. ASSUME NEW i \in 1 .. Len(b) PROVE c[Len(a) + i] = b[i]
    <3>1. Len(a) + i \in 1 .. Len(a) + Len(b) /\ ~(Len(a) + i <= Len(a)) /\ Len(a) + i - Len(a) = i
      BY <2>2
    <3> QED
      BY <2>4, <3>1
  <2> QED
    BY <2>2, <2>3, <2>4, <2>5, <2>6 DEF a, b
<1> QED
  BY <1>3, <1>4, <1>5 DEF N, J

(* What is joined stays where it is.                                       *)
LEMMA JoinedKeeps ==
  ASSUME NEW ss, ByteSeqs(ss), NEW k \in 0 .. Len(ss), NEW m \in 0 .. Len(ss), k <= m
  PROVE  /\ Len(Joined(ss)[k]) <= Len(Joined(ss)[m])
         /\ \A i \in 1 .. Len(Joined(ss)[k]) : Joined(ss)[m][i] = Joined(ss)[k][i]
<1> DEFINE J == Joined(ss)
           keeps(n) == /\ Len(J[k]) <= Len(J[n])
                       /\ \A i \in 1 .. Len(J[k]) : J[n][i] = J[k][i]
           T == {n \in 0 .. Len(ss) : k <= n => keeps(n)}
<1>1. /\ \A n \in 0 .. Len(ss) : Len(J[n]) \in Nat
      /\ \A n \in 1 .. Len(ss) :
           /\ Len(J[n]) = Len(J[n - 1]) + Len(ss[n])
           /\ Len(ss[n]) \in Nat
           /\ \A i \in 1 .. Len(J[n - 1]) : J[n][i] = J[n - 1][i]
  BY JoinedGrows, ZenonT(60)
<1>2. Len(ss) \in Nat
  BY DEF ByteSeqs
<1> HIDE DEF J
<1>3. keeps(k)
  BY <1>1
<1>4. 0 \in T
  <2>1. k <= 0 => k = 0
    BY <1>2
  <2> QED
    BY <1>2, <1>3, <2>1
<1>5. ASSUME NEW n \in 1 .. Len(ss), n - 1 \in T PROVE n \in T
  <2>1. CASE k <= n - 1
    <3>1. keeps(n - 1)
      BY <1>5, <2>1
    <3>2. n - 1 \in 0 .. Len(ss) /\ n \in 0 .. Len(ss) /\ k \in 0 .. Len(ss)
      BY <1>2
    <3>3. /\ Len(J[n - 1]) \in Nat /\ Len(J[n]) \in Nat /\ Len(J[k]) \in Nat /\ Len(ss[n]) \in Nat
          /\ Len(J[n]) = Len(J[n - 1]) + Len(ss[n])
          /\ \A i \in 1 .. Len(J[n - 1]) : J[n][i] = J[n - 1][i]
      BY <1>1, <3>2
    <3>4. Len(J[k]) <= Len(J[n])
      <4>1. \A a, b, c, d \in Nat : c <= a /\ b = a + d => c <= b
        OBVIOUS
      <4> QED
        BY <3>1, <3>3, <4>1
    <3>5. ASSUME NEW i \in 1 .. Len(J[k]) PROVE J[n][i] = J[k][i]
      <4>1. i \in 1 .. Len(J[n - 1])
        BY <3>1, <3>3
      <4> QED
        BY <3>1, <3>3, <4>1
    <3> QED
      BY <3>2, <3>4, <3>5
  <2>2. CASE ~(k <= n - 1)
    <3>1. k <= n => k = n
      BY <1>2, <2>2
    <3> QED
      BY <1>2, <1>3, <3>1
  <2> QED
    BY <2>1, <2>2
<1> HIDE DEF T
<1>6. 0 .. Len(ss) \subseteq T
  BY <1>2, <1>4, <1>5, Induction
<1>7. keeps(m)
  BY <1>6 DEF T
<1> QED
  BY <1>7 DEF J

(* Where each part lies in the whole.                                      *)
LEMMA FlattenIs ==
  ASSUME NEW ss, ByteSeqs(ss)
  PROVE  /\ Flatten(ss) \in Seq(Int) /\ Len(Flatten(ss)) \in Nat
         /\ Len(Flatten(ss)) = Len(Joined(ss)[Len(ss)])
         /\ \A k \in 1 .. Len(ss) :
              /\ Len(Joined(ss)[k - 1]) \in Nat
              /\ Len(Joined(ss)[k]) = Len(Joined(ss)[k - 1]) + Len(ss[k])
              /\ Len(Joined(ss)[k]) <= Len(Flatten(ss))
              /\ \A i \in 1 .. Len(ss[k]) : Flatten(ss)[Len(Joined(ss)[k - 1]) + i] = ss[k][i]
<1> DEFINE J == Joined(ss)
           N == Len(ss)
<1>1. N \in Nat
  BY DEF ByteSeqs
<1>2. Flatten(ss) = J[N]
  BY DEF Flatten
<1>3. /\ \A k \in 0 .. N : J[k] \in Seq(Int) /\ Len(J[k]) \in Nat
      /\ \A k \in 1 .. N :
           /\ Len(J[k]) = Len(J[k - 1]) + Len(ss[k])
           /\ Len(ss[k]) \in Nat
           /\ \A i \in 1 .. Len(ss[k]) : J[k][Len(J[k - 1]) + i] = ss[k][i]
  BY JoinedGrows, ZenonT(60)
<1>4. \A k \in 0 .. N : /\ Len(J[k]) <= Len(J[N])
                        /\ \A i \in 1 .. Len(J[k]) : J[N][i] = J[k][i]
  <2>1. N \in 0 .. N /\ \A k \in 0 .. N : k <= N
    BY <1>1
  <2> QED
    BY <2>1, JoinedKeeps
<1> HIDE DEF J, N
<1>5. ASSUME NEW k \in 1 .. N
      PROVE  /\ Len(J[k - 1]) \in Nat
             /\ Len(J[k]) = Len(J[k - 1]) + Len(ss[k])
             /\ Len(J[k]) <= Len(J[N])
             /\ \A i \in 1 .. Len(ss[k]) : J[N][Len(J[k - 1]) + i] = ss[k][i]
  <2>1. k - 1 \in 0 .. N /\ k \in 0 .. N
    BY <1>1
  <2>2. /\ Len(J[k - 1]) \in Nat /\ Len(J[k]) \in Nat /\ Len(ss[k]) \in Nat
        /\ Len(J[k]) = Len(J[k - 1]) + Len(ss[k])
        /\ Len(J[k]) <= Len(J[N])
    BY <1>3, <1>4, <2>1
  <2>3. ASSUME NEW i \in 1 .. Len(ss[k]) PROVE J[N][Len(J[k - 1]) + i] = ss[k][i]
    <3>1. Len(J[k - 1]) + i \in 1 .. Len(J[k])
      <4>1. \A a, b, c \in Nat : b = a + c /\ i \in 1 .. c => a + i \in 1 .. b
        OBVIOUS
      <4> QED
        BY <2>2, <4>1
    <3>2. J[N][Len(J[k - 1]) + i] = J[k][Len(J[k - 1]) + i]
      BY <1>4, <2>1, <3>1
    <3> QED
      BY <1>3, <3>2
  <2> QED
    BY <2>2, <2>3
<1>6. N \in 0 .. N
  BY <1>1
<1> QED
  BY <1>2, <1>3, <1>5, <1>6 DEF J, N

(* The first parts alone are joined as they are within the whole.          *)
LEMMA JoinedAgree ==
  ASSUME NEW ss, ByteSeqs(ss), NEW tt, ByteSeqs(tt), Len(ss) <= Len(tt),
         \A k \in 1 .. Len(ss) : ss[k] = tt[k]
  PROVE  \A k \in 0 .. Len(ss) : Joined(ss)[k] = Joined(tt)[k]
<1> DEFINE I == Joined(ss)
           J == Joined(tt)
           N == Len(ss)
           T == {n \in 0 .. N : I[n] = J[n]}
<1>1. N \in Nat /\ N <= Len(tt) /\ Len(tt) \in Nat
  BY DEF ByteSeqs
<1>2. I[0] = << >> /\ \A k \in 1 .. N : I[k] = I[k - 1] \o ss[k]
  BY JoinedIs DEF ByteSeqs
<1>3. J[0] = << >> /\ \A k \in 1 .. Len(tt) : J[k] = J[k - 1] \o tt[k]
  BY JoinedIs DEF ByteSeqs
<1>4. \A k \in 1 .. N : ss[k] = tt[k]
  OBVIOUS
<1> HIDE DEF I, J, N
<1>5. I[0] = J[0]
  BY <1>2, <1>3
<1>6. ASSUME NEW k \in 1 .. N, I[k - 1] = J[k - 1] PROVE I[k] = J[k]
  <2>1. k \in 1 .. Len(tt)
    BY <1>1
  <2>2. I[k - 1] \o ss[k] = J[k - 1] \o tt[k]
    BY <1>4, <1>6
  <2>3. I[k] = I[k - 1] \o ss[k]
    BY <1>2
  <2>4. J[k] = J[k - 1] \o tt[k]
    BY <1>3, <2>1
  <2> QED
    BY <2>2, <2>3, <2>4
<1>7. 0 \in T
  BY <1>1, <1>5
<1>8. ASSUME NEW k \in 1 .. N, k - 1 \in T PROVE k \in T
  <2>1. k \in 0 .. N
    BY <1>1
  <2> QED
    BY <1>6, <1>8, <2>1
<1> HIDE DEF T
<1>9. 0 .. N \subseteq T
  BY <1>1, <1>7, <1>8, Induction
<1> QED
  BY <1>9 DEF T, I, J, N

(* Products of numbers are numbers, and commute.                           *)
LEMMA Products ==
  ASSUME NEW a \in Nat, NEW b \in Nat
  PROVE  a * b \in Nat /\ a * b = b * a
OBVIOUS

(* A product grows with its factor.                                        *)
LEMMA Grows ==
  ASSUME NEW a \in Nat, NEW b \in Nat, NEW n \in Nat, a <= b
  PROVE  a * n <= b * n /\ a * n \in Nat /\ b * n \in Nat
<1>1. b - a \in Nat
  OBVIOUS
<1>2. (b - a) * n \in Nat
  BY <1>1, Products
<1>3. (b - a) * n = b * n - a * n
  OBVIOUS
<1>4. a * n \in Nat /\ b * n \in Nat
  BY Products
<1> QED
  BY <1>2, <1>3, <1>4

(* The quotient and the rest, and that there are no others.                *)
LEMMA Quotient ==
  ASSUME NEW a \in Nat, NEW n \in Nat \ {0}
  PROVE  /\ a \div n \in Nat /\ a % n \in Nat /\ a % n < n
         /\ a = n * (a \div n) + (a % n) /\ n * (a \div n) \in Nat
<1>1. /\ a \div n \in Int /\ a % n \in 0 .. n - 1
      /\ a = n * (a \div n) + (a % n)
  OBVIOUS
<1>2. a \div n \in Nat
  OBVIOUS
<1> QED
  BY <1>1, <1>2, Products

(* Where the n-th fragment of a unit ends.                                 *)
Cut(d, n) == IF n * PesChunk > Len(d) THEN Len(d) ELSE n * PesChunk

IsUnit(d) == d \in Seq(0 .. 255) /\ d # << >>

(* The cuts of a unit.                                                     *)
LEMMA CutsAre ==
  ASSUME NEW d, IsUnit(d)
  PROVE  /\ Fragments(d) \in Nat \ {0}
         /\ Cut(d, 0) = 0 /\ Cut(d, Fragments(d)) = Len(d)
         /\ \A n \in 1 .. Fragments(d) :
              /\ Cut(d, n) \in Nat /\ Cut(d, n - 1) \in Nat
              /\ Cut(d, n - 1) = (n - 1) * PesChunk
              /\ Cut(d, n - 1) < Cut(d, n) /\ Cut(d, n) <= Len(d)
              /\ Cut(d, n) - Cut(d, n - 1) <= PesChunk
<1> DEFINE p == PesChunk
           l == Len(d)
           F == Fragments(d)
           q == F * p
<1>1. p \in Nat \ {0}
  BY StreamAssumption
<1>2. l \in Nat \ {0}
  BY EmptySeq DEF IsUnit
<1>3. F = (l + p - 1) \div p
  BY DEF Fragments
<1> HIDE DEF p, l
<1>4. l + p - 1 \in Nat
  BY <1>1, <1>2
<1> HIDE DEF F
<1>5. /\ F \in Nat /\ (l + p - 1) % p \in Nat /\ (l + p - 1) % p < p
      /\ l + p - 1 = p * F + ((l + p - 1) % p)
  BY <1>1, <1>3, <1>4, Quotient
<1>6. p * F = q /\ q \in Nat
  BY <1>1, <1>5, Products
<1> HIDE DEF q
<1>7. l <= q /\ q < l + p
  <2> DEFINE r == (l + p - 1) % p
  <2>1. r \in Nat /\ r < p /\ l + p - 1 = q + r
    BY <1>5, <1>6
  <2> HIDE DEF r
  <2> QED
    BY <1>1, <1>2, <1>6, <2>1
<1>8. F # 0
  <2>1. F = 0 => q = 0
    BY <1>1 DEF q
  <2> QED
    BY <1>2, <1>7, <2>1
<1>9. Cut(d, 0) = 0
  BY <1>1, <1>2 DEF Cut, p, l
<1>10. Cut(d, F) = l
  <2>1. Cut(d, F) = IF q > l THEN l ELSE q
    BY DEF Cut, q, p, l
  <2> QED
    BY <1>2, <1>6, <1>7, <2>1
<1>11. ASSUME NEW n \in 1 .. F
       PROVE  /\ Cut(d, n) \in Nat /\ Cut(d, n - 1) \in Nat
              /\ Cut(d, n - 1) = (n - 1) * p
              /\ Cut(d, n - 1) < Cut(d, n) /\ Cut(d, n) <= l
              /\ Cut(d, n) - Cut(d, n - 1) <= p
  <2> DEFINE a == (n - 1) * p
             b == n * p
             c == (F - 1) * p
  <2>1. n \in Nat /\ n - 1 \in Nat /\ F - 1 \in Nat /\ n - 1 <= F - 1 /\ p \in Nat
    BY <1>1, <1>5
  <2>2. a \in Nat /\ b \in Nat /\ c \in Nat /\ a <= c
    BY <2>1, Products, Grows
  <2>3. b = a + p /\ q = c + p
    <3>1. n * p = (n - 1) * p + p
      BY <2>1
    <3>2. F * p = (F - 1) * p + p
      BY <2>1, <1>5
    <3> QED
      BY <3>1, <3>2 DEF q
  <2>4. Cut(d, n) = IF b > l THEN l ELSE b
    BY DEF Cut, p, l
  <2>5. Cut(d, n - 1) = IF a > l THEN l ELSE a
    BY DEF Cut, p, l
  <2> HIDE DEF a, b, c
  <2>6. a < l
    BY <1>1, <1>2, <1>6, <1>7, <2>2, <2>3
  <2>7. /\ Cut(d, n - 1) = a /\ Cut(d, n) \in Nat
        /\ a < Cut(d, n) /\ Cut(d, n) <= l /\ Cut(d, n) - a <= p
    BY <1>1, <1>2, <2>2, <2>3, <2>4, <2>5, <2>6
  <2> QED
    BY <2>2, <2>7 DEF a
<1> QED
  BY <1>5, <1>8, <1>9, <1>10, <1>11 DEF F, l, p

(* A unit up to a cut, and the fragment that follows.                      *)
LEMMA ChunkIs ==
  ASSUME NEW d, IsUnit(d), NEW n \in 1 .. Fragments(d)
  PROVE  /\ Chunk(d, n) \in Seq(0 .. 255)
         /\ Len(Chunk(d, n)) = Cut(d, n) - Cut(d, n - 1)
         /\ Len(Chunk(d, n)) \in 1 .. PesChunk
         /\ SubSeq(d, 1, Cut(d, n - 1)) \o Chunk(d, n) = SubSeq(d, 1, Cut(d, n))
         /\ n = 1 => Chunk(d, n) = SubSeq(d, 1, Cut(d, 1))
         /\ SubSeq(d, 1, Cut(d, n)) \in Seq(0 .. 255)
         /\ Len(SubSeq(d, 1, Cut(d, n))) = Cut(d, n)
<1> DEFINE a == Cut(d, n - 1)
           b == Cut(d, n)
           l == Len(d)
<1>1. /\ a \in Nat /\ b \in Nat /\ a = (n - 1) * PesChunk /\ a < b /\ b <= l /\ b - a <= PesChunk
  BY CutsAre
<1>2. Cut(d, 0) = 0
  BY CutsAre
<1>3. d \in Seq(0 .. 255) /\ l \in Nat /\ PesChunk \in Nat
  BY LenProperties, StreamAssumption DEF IsUnit
<1>4. Chunk(d, n) = SubSeq(d, a + 1, b)
  BY <1>1 DEF Chunk, Cut
<1>5. n = 1 => a = 0
  BY <1>2
<1>6. n = 1 => b = Cut(d, 1)
  OBVIOUS
<1> HIDE DEF a, b, l
<1>13. \A i \in 1 .. l : d[i] \in 0 .. 255
  BY <1>3, ElementOfSeq DEF l
<1>14. (\A i \in a + 1 .. b : i \in 1 .. l) /\ (\A i \in 1 .. b : i \in 1 .. l)
  BY <1>1, <1>3, SMTT(40)
<1>7. a + 1 \in Int /\ b \in Int /\ \A i \in a + 1 .. b : d[i] \in 0 .. 255
  BY <1>1, <1>13, <1>14
<1>8. /\ SubSeq(d, a + 1, b) \in Seq(0 .. 255)
      /\ Len(SubSeq(d, a + 1, b)) = IF a + 1 <= b THEN b - (a + 1) + 1 ELSE 0
  BY <1>7, SubSeqProperties
<1>9. Len(SubSeq(d, a + 1, b)) = b - a /\ b - a \in 1 .. PesChunk
  BY <1>1, <1>3, <1>8
<1>10. SubSeq(d, 1, a) \o SubSeq(d, a + 1, b) = SubSeq(d, 1, b)
  <2>1. 1 \in 1 .. l + 1 /\ a \in 1 - 1 .. l /\ b \in a .. l
    BY <1>1, <1>3
  <2> QED
    BY <1>3, <2>1, ConcatAdjacentSubSeq DEF l
<1>11. SubSeq(d, 1, b) \in Seq(0 .. 255) /\ Len(SubSeq(d, 1, b)) = b
  <2>1. 1 \in Int /\ b \in Int /\ \A i \in 1 .. b : d[i] \in 0 .. 255
    BY <1>1, <1>13, <1>14
  <2>2. /\ SubSeq(d, 1, b) \in Seq(0 .. 255)
        /\ Len(SubSeq(d, 1, b)) = IF 1 <= b THEN b - 1 + 1 ELSE 0
    BY <2>1, SubSeqProperties
  <2> QED
    BY <1>1, <2>2
<1>12. n = 1 => SubSeq(d, a + 1, b) = SubSeq(d, 1, Cut(d, 1))
  <2>1. ASSUME n = 1 PROVE a + 1 = 1 /\ b = Cut(d, 1)
    BY <1>5, <1>6, <2>1
  <2>2. ASSUME n = 1 PROVE SubSeq(d, a + 1, b) = SubSeq(d, 1, Cut(d, 1))
    BY <2>1, <2>2
  <2> QED
    BY <2>2
<1> QED
  BY <1>4, <1>8, <1>9, <1>10, <1>11, <1>12 DEF a, b

-----------------------------------------------------------------------------
(* The bytes of the muxer.                                                 *)

StartsWith(w, o, id) == w[o + 1] = 0 /\ w[o + 2] = 0 /\ w[o + 3] = 1 /\ w[o + 4] = id
Fillers(w, a, b) == \A i \in a .. b : w[i] = Filler

(* The bytes of the headers.                                               *)
LEMMA FillIs ==
  ASSUME NEW n \in Nat
  PROVE  Fill(n) \in Seq(Int) /\ Len(Fill(n)) = n /\ \A i \in 1 .. n : Fill(n)[i] = Filler
<1>1. [k \in 1 .. n |-> Filler] \in [1 .. n -> Int]
  BY DEF Filler
<1>2. [k \in 1 .. n |-> Filler] \in Seq(Int) /\ Len([k \in 1 .. n |-> Filler]) = n
  BY <1>1, FunctionIsSeq
<1> QED
  BY <1>2 DEF Fill

LEMMA Filled ==
  ASSUME NEW s \in Seq(Int), NEW n \in Nat
  PROVE  /\ s \o Fill(n) \in Seq(Int) /\ Len(s \o Fill(n)) = Len(s) + n
         /\ \A i \in 1 .. Len(s) : (s \o Fill(n))[i] = s[i]
         /\ \A i \in Len(s) + 1 .. Len(s) + n : (s \o Fill(n))[i] = Filler
<1> DEFINE f == Fill(n)
           c == s \o f
           l == Len(s)
<1>1. f \in Seq(Int) /\ Len(f) = n /\ \A i \in 1 .. n : f[i] = Filler
  BY FillIs
<1>2. l \in Nat
  BY LenProperties
<1> HIDE DEF f
<1>3. /\ c \in Seq(Int) /\ Len(c) = l + n
      /\ \A i \in 1 .. l + n : c[i] = IF i <= l THEN s[i] ELSE f[i - l]
  BY <1>1, ConcatProperties
<1> HIDE DEF c, l
<1>4. \A i \in 1 .. l : c[i] = s[i]
  BY <1>1, <1>2, <1>3
<1>5. ASSUME NEW i \in l + 1 .. l + n PROVE c[i] = Filler
  <2>1. i \in 1 .. l + n /\ ~(i <= l) /\ i - l \in 1 .. n
    BY <1>2
  <2> QED
    BY <1>1, <1>3, <2>1
<1> QED
  BY <1>3, <1>4, <1>5 DEF c, f, l

LEMMA PackIs ==
  /\ PackHeader \in Seq(Int) /\ Len(PackHeader) = 14
  /\ StartsWith(PackHeader, 0, Pack)
  /\ Fillers(PackHeader, 5, 14)
<1> DEFINE s == << 0, 0, 1, Pack >>
<1>1. s \in Seq(Int) /\ Len(s) = 4 /\ s[1] = 0 /\ s[2] = 0 /\ s[3] = 1 /\ s[4] = Pack
  BY DEF Pack
<1>2. PackHeader = s \o Fill(10)
  BY DEF PackHeader
<1> HIDE DEF s
<1> DEFINE c == s \o Fill(10)
<1>8. s \in Seq(Int) /\ 10 \in Nat
  BY <1>1
<1>7. /\ c \in Seq(Int) /\ Len(c) = Len(s) + 10
      /\ \A i \in 1 .. Len(s) : c[i] = s[i]
      /\ \A i \in Len(s) + 1 .. Len(s) + 10 : c[i] = Filler
  BY <1>8, Filled, Zenon
<1> HIDE DEF c
<1>3. /\ c \in Seq(Int) /\ Len(c) = 14
      /\ \A i \in 1 .. 4 : c[i] = s[i]
      /\ Fillers(c, 5, 14)
  BY <1>1, <1>7 DEF Fillers
<1>4. StartsWith(c, 0, Pack)
  BY <1>1, <1>3 DEF StartsWith
<1> QED
  BY <1>2, <1>3, <1>4 DEF c

LEMMA SystemIs ==
  /\ SystemHeader \in Seq(Int) /\ Len(SystemHeader) = 15
  /\ StartsWith(SystemHeader, 0, System)
  /\ SystemHeader[5] = 0 /\ SystemHeader[6] = 9
  /\ Fillers(SystemHeader, 7, 15)
<1> DEFINE s == << 0, 0, 1, System, 0, 9 >>
<1>1. /\ s \in Seq(Int) /\ Len(s) = 6 /\ s[1] = 0 /\ s[2] = 0 /\ s[3] = 1 /\ s[4] = System
      /\ s[5] = 0 /\ s[6] = 9
  BY DEF System
<1>2. SystemHeader = s \o Fill(9)
  BY DEF SystemHeader
<1> HIDE DEF s
<1> DEFINE c == s \o Fill(9)
<1>8. s \in Seq(Int) /\ 9 \in Nat
  BY <1>1
<1>7. /\ c \in Seq(Int) /\ Len(c) = Len(s) + 9
      /\ \A i \in 1 .. Len(s) : c[i] = s[i]
      /\ \A i \in Len(s) + 1 .. Len(s) + 9 : c[i] = Filler
  BY <1>8, Filled, Zenon
<1> HIDE DEF c
<1>3. /\ c \in Seq(Int) /\ Len(c) = 15
      /\ \A i \in 1 .. 6 : c[i] = s[i]
      /\ Fillers(c, 7, 15)
  BY <1>1, <1>7 DEF Fillers
<1>4. StartsWith(c, 0, System) /\ c[5] = 0 /\ c[6] = 9
  BY <1>1, <1>3 DEF StartsWith
<1> QED
  BY <1>2, <1>3, <1>4 DEF c

MapBytes(w, o, codec) ==
  /\ StartsWith(w, o, Map)
  /\ w[o + 5] = 0 /\ w[o + 6] = 14 /\ w[o + 7] = 192 /\ w[o + 8] = 255
  /\ w[o + 9] = 0 /\ w[o + 10] = 0 /\ w[o + 11] = 0 /\ w[o + 12] = 4
  /\ w[o + 13] = StreamType(codec) /\ w[o + 14] = Video
  /\ w[o + 15] = 0 /\ w[o + 16] = 0
  /\ Fillers(w, o + 17, o + 20)

LEMMA MapIs ==
  ASSUME NEW codec
  PROVE  /\ StreamMap(codec) \in Seq(Int) /\ Len(StreamMap(codec)) = 20
         /\ MapBytes(StreamMap(codec), 0, codec)
<1> DEFINE t == StreamType(codec)
           s == << 0, 0, 1, Map, 0, 14, 192, 255, 0, 0, 0, 4, t, Video, 0, 0 >>
<1>1. t \in Int
  BY DEF StreamType
<1> HIDE DEF t
<1>2. /\ s \in Seq(Int) /\ Len(s) = 16 /\ s[1] = 0 /\ s[2] = 0 /\ s[3] = 1 /\ s[4] = Map
      /\ s[5] = 0 /\ s[6] = 14 /\ s[7] = 192 /\ s[8] = 255 /\ s[9] = 0 /\ s[10] = 0
      /\ s[11] = 0 /\ s[12] = 4 /\ s[13] = t /\ s[14] = Video /\ s[15] = 0 /\ s[16] = 0
  BY <1>1 DEF Map, Video
<1>3. StreamMap(codec) = s \o Fill(4)
  BY DEF StreamMap, t
<1> HIDE DEF s
<1> DEFINE c == s \o Fill(4)
<1>8. s \in Seq(Int) /\ 4 \in Nat
  BY <1>2
<1>7. /\ c \in Seq(Int) /\ Len(c) = Len(s) + 4
      /\ \A i \in 1 .. Len(s) : c[i] = s[i]
      /\ \A i \in Len(s) + 1 .. Len(s) + 4 : c[i] = Filler
  BY <1>8, Filled, Zenon
<1> HIDE DEF c
<1>4. /\ c \in Seq(Int) /\ Len(c) = 20
      /\ \A i \in 1 .. 16 : c[i] = s[i]
      /\ Fillers(c, 17, 20)
  BY <1>2, <1>7 DEF Fillers
<1>5. MapBytes(c, 0, codec)
  BY <1>2, <1>4 DEF StartsWith, MapBytes, Fillers, t
<1> QED
  BY <1>3, <1>4, <1>5 DEF c

Hdr(n) == IF n = 1 THEN 14 ELSE 9

PesBytes(w, o, first, pts, len) ==
  /\ StartsWith(w, o, Video)
  /\ w[o + 5] \in Nat /\ w[o + 6] \in Nat
  /\ 256 * w[o + 5] + w[o + 6] = (IF first THEN 8 ELSE 3) + len
  /\ IF first THEN /\ w[o + 7] = 132 /\ w[o + 8] = 128 /\ w[o + 9] = 5
                   /\ w[o + 10] = 32 + Wrapped(pts)
                   /\ Fillers(w, o + 11, o + 14)
              ELSE w[o + 7] = 128 /\ w[o + 8] = 0 /\ w[o + 9] = 0

LEMMA WrappedIn ==
  ASSUME NEW pts \in Int
  PROVE  Wrapped(pts) \in Nat
  BY StreamAssumption DEF Wrapped

LEMMA PesHeaderIs ==
  ASSUME NEW n \in Nat, NEW pts \in Int, NEW len \in Nat
  PROVE  /\ PesHeader(n = 1, pts, len) \in Seq(Int)
         /\ Len(PesHeader(n = 1, pts, len)) = Hdr(n)
         /\ PesBytes(PesHeader(n = 1, pts, len), 0, n = 1, pts, len)
<1>1. ASSUME NEW v \in Nat
      PROVE  /\ v \div 256 \in Nat /\ v % 256 \in Nat /\ 256 * (v \div 256) + (v % 256) = v
  OBVIOUS
<1>2. CASE n = 1
  <2> DEFINE v == 8 + len
             h == v \div 256
             l == v % 256
             p == Wrapped(pts)
             s == << 0, 0, 1, Video, h, l, 132, 128, 5, 32 + p >>
  <2>1. h \in Nat /\ l \in Nat /\ 256 * h + l = 8 + len
    BY <1>1
  <2>2. p \in Nat
    BY WrappedIn
  <2> HIDE DEF h, l, p
  <2>3. /\ s \in Seq(Int) /\ Len(s) = 10 /\ s[1] = 0 /\ s[2] = 0 /\ s[3] = 1 /\ s[4] = Video
        /\ s[5] = h /\ s[6] = l /\ s[7] = 132 /\ s[8] = 128 /\ s[9] = 5 /\ s[10] = 32 + p
    BY <2>1, <2>2 DEF Video
  <2>4. PesHeader(n = 1, pts, len) = s \o Fill(4)
    BY <1>2 DEF PesHeader, WrPts, h, l, p
  <2> HIDE DEF s
  <2> DEFINE c == s \o Fill(4)
  <2>8. s \in Seq(Int) /\ 4 \in Nat
    BY <2>3
  <2>7. /\ c \in Seq(Int) /\ Len(c) = Len(s) + 4
        /\ \A i \in 1 .. Len(s) : c[i] = s[i]
        /\ \A i \in Len(s) + 1 .. Len(s) + 4 : c[i] = Filler
    BY <2>8, Filled, Zenon
  <2> HIDE DEF c
  <2>5. /\ c \in Seq(Int) /\ Len(c) = 14
        /\ \A i \in 1 .. 10 : c[i] = s[i]
        /\ Fillers(c, 11, 14)
    BY <2>3, <2>7 DEF Fillers
  <2>11. /\ c[1] = 0 /\ c[2] = 0 /\ c[3] = 1 /\ c[4] = Video /\ c[5] = h /\ c[6] = l
         /\ c[7] = 132 /\ c[8] = 128 /\ c[9] = 5 /\ c[10] = 32 + p
    BY <2>3, <2>5
  <2>12. \A i \in 11 .. 14 : c[i] = Filler
    BY <2>5 DEF Fillers
  <2>13. StartsWith(c, 0, Video) /\ Fillers(c, 0 + 11, 0 + 14)
    BY <2>11, <2>12 DEF StartsWith, Fillers
  <2>9. PesBytes(c, 0, TRUE, pts, len)
    BY <2>1, <2>11, <2>13 DEF PesBytes, p
  <2>10. (n = 1) = TRUE
    BY <1>2
  <2>6. PesBytes(c, 0, n = 1, pts, len)
    BY <2>9, <2>10
  <2> QED
    BY <1>2, <2>4, <2>5, <2>6 DEF Hdr, c
<1>3. CASE n # 1
  <2> DEFINE v == 3 + len
             h == v \div 256
             l == v % 256
             s == << 0, 0, 1, Video, h, l, 128, 0, 0 >>
  <2>1. h \in Nat /\ l \in Nat /\ 256 * h + l = 3 + len
    BY <1>1
  <2> HIDE DEF h, l
  <2>3. /\ s \in Seq(Int) /\ Len(s) = 9 /\ s[1] = 0 /\ s[2] = 0 /\ s[3] = 1 /\ s[4] = Video
        /\ s[5] = h /\ s[6] = l /\ s[7] = 128 /\ s[8] = 0 /\ s[9] = 0
    BY <2>1 DEF Video
  <2>4. PesHeader(n = 1, pts, len) = s
    BY <1>3 DEF PesHeader, h, l
  <2> HIDE DEF s
  <2>5. PesBytes(s, 0, n = 1, pts, len)
    BY <1>3, <2>1, <2>3, SMTT(40) DEF StartsWith, PesBytes
  <2> QED
    BY <1>3, <2>3, <2>4, <2>5 DEF Hdr
<1> QED
  BY <1>2, <1>3

(* A sequence lies in another one, after the first o.                      *)
Lies(w, o, s) == \A i \in 1 .. Len(s) : w[o + i] = s[i]

(* The parts of what lies on the wire.                                     *)
LEMMA LiesBoth ==
  ASSUME NEW w, NEW o \in Nat, NEW s \in Seq(Int), NEW t \in Seq(Int), NEW l \in Nat, Len(s) = l,
         Lies(w, o, s \o t)
  PROVE  Lies(w, o, s) /\ Lies(w, o + l, t)
<1> DEFINE c == s \o t
           m == Len(t)
<1>1. m \in Nat
  BY LenProperties
<1>2. Len(c) = l + m /\ \A i \in 1 .. l + m : c[i] = IF i <= l THEN s[i] ELSE t[i - l]
  BY ConcatProperties
<1>3. \A i \in 1 .. Len(c) : w[o + i] = c[i]
  BY DEF Lies
<1> HIDE DEF c, m
<1>4. ASSUME NEW i \in 1 .. l PROVE w[o + i] = s[i]
  <2>1. i \in 1 .. l + m /\ i <= l
    BY <1>1
  <2> QED
    BY <1>2, <1>3, <2>1
<1>5. ASSUME NEW i \in 1 .. m PROVE w[o + l + i] = t[i]
  <2>1. l + i \in 1 .. l + m /\ ~(l + i <= l) /\ l + i - l = i /\ o + (l + i) = o + l + i
    BY <1>1
  <2>2. w[o + (l + i)] = c[l + i] /\ c[l + i] = t[l + i - l]
    BY <1>2, <1>3, <2>1
  <2> QED
    BY <2>1, <2>2
<1> QED
  BY <1>4, <1>5 DEF Lies, m

LEMMA LiesFillers ==
  ASSUME NEW w, NEW o \in Nat, NEW s, NEW l \in Nat, Len(s) = l, Lies(w, o, s),
         NEW a \in Nat, a > 0, NEW b \in Nat, b <= l, Fillers(s, a, b)
  PROVE  Fillers(w, o + a, o + b)
<1>1. ASSUME NEW i \in o + a .. o + b PROVE w[i] = Filler
  <2>1. i - o \in a .. b /\ i - o \in 1 .. l /\ o + (i - o) = i
    OBVIOUS
  <2>2. w[o + (i - o)] = s[i - o] /\ s[i - o] = Filler
    BY <2>1 DEF Lies, Fillers
  <2> QED
    BY <2>1, <2>2
<1> QED
  BY <1>1 DEF Fillers

(* The bytes of the headers on the wire.                                   *)
LEMMA PackLies ==
  ASSUME NEW w, NEW o \in Nat, Lies(w, o, PackHeader)
  PROVE  StartsWith(w, o, Pack) /\ Fillers(w, o + 5, o + 14)
<1> DEFINE s == PackHeader
<1>1. Len(s) = 14 /\ s[1] = 0 /\ s[2] = 0 /\ s[3] = 1 /\ s[4] = Pack /\ Fillers(s, 5, 14)
  BY PackIs DEF StartsWith
<1>2. Lies(w, o, s)
  OBVIOUS
<1> HIDE DEF s
<1>3. w[o + 1] = s[1] /\ w[o + 2] = s[2] /\ w[o + 3] = s[3] /\ w[o + 4] = s[4]
  BY <1>1, <1>2 DEF Lies
<1>4. Fillers(w, o + 5, o + 14)
  <2>1. 14 \in Nat /\ 5 \in Nat /\ 5 > 0 /\ 14 <= 14
    OBVIOUS
  <2> QED
    BY <1>1, <1>2, <2>1, LiesFillers, Zenon
<1> QED
  BY <1>1, <1>3, <1>4 DEF StartsWith

LEMMA SystemLies ==
  ASSUME NEW w, NEW o \in Nat, Lies(w, o, SystemHeader)
  PROVE  /\ StartsWith(w, o, System) /\ w[o + 5] = 0 /\ w[o + 6] = 9
         /\ Fillers(w, o + 7, o + 15)
<1> DEFINE s == SystemHeader
<1>1. /\ Len(s) = 15 /\ s[1] = 0 /\ s[2] = 0 /\ s[3] = 1 /\ s[4] = System
      /\ s[5] = 0 /\ s[6] = 9 /\ Fillers(s, 7, 15)
  BY SystemIs DEF StartsWith
<1>2. Lies(w, o, s)
  OBVIOUS
<1> HIDE DEF s
<1>3. /\ w[o + 1] = s[1] /\ w[o + 2] = s[2] /\ w[o + 3] = s[3] /\ w[o + 4] = s[4]
      /\ w[o + 5] = s[5] /\ w[o + 6] = s[6]
  BY <1>1, <1>2 DEF Lies
<1>4. Fillers(w, o + 7, o + 15)
  <2>1. 15 \in Nat /\ 7 \in Nat /\ 7 > 0 /\ 15 <= 15
    OBVIOUS
  <2> QED
    BY <1>1, <1>2, <2>1, LiesFillers, Zenon
<1> QED
  BY <1>1, <1>3, <1>4 DEF StartsWith

LEMMA MapLies ==
  ASSUME NEW w, NEW o \in Nat, NEW codec, Lies(w, o, StreamMap(codec))
  PROVE  MapBytes(w, o, codec)
<1> DEFINE s == StreamMap(codec)
           t == StreamType(codec)
<1>1. Len(s) = 20 /\ MapBytes(s, 0, codec)
  BY MapIs
<1>2. Lies(w, o, s)
  OBVIOUS
<1> HIDE DEF s, t
<1>3. /\ s[1] = 0 /\ s[2] = 0 /\ s[3] = 1 /\ s[4] = Map
      /\ s[5] = 0 /\ s[6] = 14 /\ s[7] = 192 /\ s[8] = 255 /\ s[9] = 0 /\ s[10] = 0
      /\ s[11] = 0 /\ s[12] = 4 /\ s[13] = t /\ s[14] = Video /\ s[15] = 0 /\ s[16] = 0
      /\ Fillers(s, 17, 20)
  BY <1>1 DEF MapBytes, StartsWith, t
<1>4. \A i \in 1 .. 20 : w[o + i] = s[i]
  BY <1>1, <1>2 DEF Lies
<1>5. /\ w[o + 1] = 0 /\ w[o + 2] = 0 /\ w[o + 3] = 1 /\ w[o + 4] = Map
      /\ w[o + 5] = 0 /\ w[o + 6] = 14 /\ w[o + 7] = 192 /\ w[o + 8] = 255
  BY <1>3, <1>4
<1>6. /\ w[o + 9] = 0 /\ w[o + 10] = 0 /\ w[o + 11] = 0 /\ w[o + 12] = 4 /\ w[o + 13] = t
      /\ w[o + 14] = Video /\ w[o + 15] = 0 /\ w[o + 16] = 0
  BY <1>3, <1>4
<1>7. Fillers(w, o + 17, o + 20)
  <2>1. 20 \in Nat /\ 17 \in Nat /\ 17 > 0 /\ 20 <= 20
    OBVIOUS
  <2>2. Len(s) = 20 /\ Lies(w, o, s) /\ Fillers(s, 17, 20)
    BY <1>1, <1>2, <1>3
  <2> QED
    BY <2>1, <2>2, LiesFillers, Zenon
<1> QED
  BY <1>5, <1>6, <1>7 DEF MapBytes, StartsWith, t

LEMMA PesLies ==
  ASSUME NEW w, NEW o \in Nat, NEW n \in Nat, NEW pts \in Int, NEW len \in Nat,
         Lies(w, o, PesHeader(n = 1, pts, len))
  PROVE  PesBytes(w, o, n = 1, pts, len)
<1> DEFINE s == PesHeader(n = 1, pts, len)
           p == Wrapped(pts)
<1>1. Len(s) = Hdr(n) /\ PesBytes(s, 0, n = 1, pts, len)
  BY PesHeaderIs
<1>2. Lies(w, o, s)
  OBVIOUS
<1> HIDE DEF s, p
<1>3. CASE n = 1
  <2>1. /\ s[1] = 0 /\ s[2] = 0 /\ s[3] = 1 /\ s[4] = Video
        /\ s[5] \in Nat /\ s[6] \in Nat /\ 256 * s[5] + s[6] = 8 + len
        /\ s[7] = 132 /\ s[8] = 128 /\ s[9] = 5 /\ s[10] = 32 + p /\ Fillers(s, 11, 14)
    BY <1>1, <1>3 DEF PesBytes, StartsWith, p
  <2>2. Len(s) = 14
    BY <1>1, <1>3 DEF Hdr
  <2>3. \A i \in 1 .. 14 : w[o + i] = s[i]
    BY <1>2, <2>2 DEF Lies
  <2>4. /\ w[o + 1] = 0 /\ w[o + 2] = 0 /\ w[o + 3] = 1 /\ w[o + 4] = Video
        /\ w[o + 5] = s[5] /\ w[o + 6] = s[6]
        /\ w[o + 7] = 132 /\ w[o + 8] = 128 /\ w[o + 9] = 5 /\ w[o + 10] = 32 + p
    BY <2>1, <2>3
  <2>5. Fillers(w, o + 11, o + 14)
    <3>1. 14 \in Nat /\ 11 \in Nat /\ 11 > 0 /\ 14 <= 14
      OBVIOUS
    <3>2. Len(s) = 14 /\ Lies(w, o, s) /\ Fillers(s, 11, 14)
      BY <1>2, <2>1, <2>2
    <3> QED
      BY <3>1, <3>2, LiesFillers, Zenon
  <2>6. PesBytes(w, o, TRUE, pts, len)
    BY <2>1, <2>4, <2>5 DEF PesBytes, StartsWith, p
  <2>7. (n = 1) = TRUE
    BY <1>3
  <2> QED
    BY <2>6, <2>7
<1>4. CASE n # 1
  <2>1. /\ s[1] = 0 /\ s[2] = 0 /\ s[3] = 1 /\ s[4] = Video
        /\ s[5] \in Nat /\ s[6] \in Nat /\ 256 * s[5] + s[6] = 3 + len
        /\ s[7] = 128 /\ s[8] = 0 /\ s[9] = 0
    BY <1>1, <1>4 DEF PesBytes, StartsWith, p
  <2>2. Len(s) = 9
    BY <1>1, <1>4 DEF Hdr
  <2>3. \A i \in 1 .. 9 : w[o + i] = s[i]
    BY <1>2, <2>2 DEF Lies
  <2>4. /\ w[o + 1] = 0 /\ w[o + 2] = 0 /\ w[o + 3] = 1 /\ w[o + 4] = Video
        /\ w[o + 5] = s[5] /\ w[o + 6] = s[6]
        /\ w[o + 7] = 128 /\ w[o + 8] = 0 /\ w[o + 9] = 0
    BY <2>1, <2>3
  <2>6. PesBytes(w, o, FALSE, pts, len)
    BY <2>1, <2>4 DEF PesBytes, StartsWith
  <2>7. (n = 1) = FALSE
    BY <1>4
  <2> QED
    BY <2>6, <2>7
<1> QED
  BY <1>3, <1>4

(* Where the PES packet of a fragment begins.                              *)
Off(u, n) == IF Marked(u, n) THEN 49 ELSE 14

Carries(w, o, u, n) ==
  /\ StartsWith(w, o, Pack) /\ Fillers(w, o + 5, o + 14)
  /\ Marked(u, n) => /\ StartsWith(w, o + 14, System) /\ w[o + 19] = 0 /\ w[o + 20] = 9
                     /\ Fillers(w, o + 21, o + 29)
                     /\ MapBytes(w, o + 29, u.codec)
  /\ PesBytes(w, o + Off(u, n), n = 1, u.pts, Len(Chunk(u.data, n)))
  /\ Lies(w, o + Off(u, n) + Hdr(n), Chunk(u.data, n))

IsAccessUnit(u) == IsUnit(u.data) /\ u.pts \in Int

(* The bytes of a fragment.                                                *)
LEMMA FragmentIs ==
  ASSUME NEW u, IsAccessUnit(u), NEW n \in 1 .. Fragments(u.data)
  PROVE  /\ Fragment(u, n) \in Seq(Int)
         /\ Len(Fragment(u, n)) = Off(u, n) + Hdr(n) + Len(Chunk(u.data, n))
         /\ \A w : \A o \in Nat : Lies(w, o, Fragment(u, n)) => Carries(w, o, u, n)
<1> DEFINE c == Chunk(u.data, n)
           l == Len(c)
           m == IF Marked(u, n) THEN SystemHeader \o StreamMap(u.codec) ELSE << >>
           h == PesHeader(n = 1, u.pts, l)
           k == IF Marked(u, n) THEN 35 ELSE 0
           H == Hdr(n)
           a == PackHeader \o m
           b == a \o h
           f == b \o c
<1>1. c \in Seq(Int) /\ l \in Nat
  <2>1. c \in Seq(0 .. 255) /\ l \in 1 .. PesChunk
    BY ChunkIs DEF IsAccessUnit
  <2>2. 0 .. 255 \subseteq Int
    OBVIOUS
  <2>3. c \in Seq(Int)
    BY <2>1, <2>2, SeqMonotonic, Zenon
  <2>4. l \in Nat
    BY <2>1
  <2> QED
    BY <2>3, <2>4
<1>2. n \in Nat /\ u.pts \in Int
  BY CutsAre DEF IsAccessUnit
<1>3. f = Fragment(u, n)
  BY DEF Fragment
<1> HIDE DEF c, l
<1>4. h \in Seq(Int) /\ Len(h) = H /\ H \in Nat
  <2>1. h \in Seq(Int) /\ Len(h) = Hdr(n)
    BY <1>1, <1>2, PesHeaderIs
  <2> QED
    BY <2>1 DEF Hdr
<1>5. m \in Seq(Int) /\ Len(m) = k /\ k \in Nat
  <2>1. CASE Marked(u, n)
    <3>1. /\ SystemHeader \in Seq(Int) /\ Len(SystemHeader) = 15
          /\ StreamMap(u.codec) \in Seq(Int) /\ Len(StreamMap(u.codec)) = 20
      BY SystemIs, MapIs
    <3>2. /\ SystemHeader \o StreamMap(u.codec) \in Seq(Int)
          /\ Len(SystemHeader \o StreamMap(u.codec))
               = Len(SystemHeader) + Len(StreamMap(u.codec))
      BY <3>1, ConcatProperties, Zenon
    <3>3. m = SystemHeader \o StreamMap(u.codec) /\ k = 35
      BY <2>1
    <3> HIDE DEF m
    <3> QED
      BY <3>1, <3>2, <3>3
  <2>2. CASE ~Marked(u, n)
    BY <2>2, EmptySeq
  <2> QED
    BY <2>1, <2>2
<1>6. PackHeader \in Seq(Int) /\ Len(PackHeader) = 14
  BY PackIs
<1>7. Off(u, n) = 14 + k
  BY DEF Off
<1> HIDE DEF m, h, k, H
<1>8. a \in Seq(Int) /\ Len(a) = 14 + k
  <2>1. a \in Seq(Int) /\ Len(a) = Len(PackHeader) + Len(m)
    BY <1>5, <1>6, ConcatProperties, Zenon
  <2> QED
    BY <1>5, <1>6, <2>1
<1> HIDE DEF a
<1>9. b \in Seq(Int) /\ Len(b) = 14 + k + H
  BY <1>4, <1>8, ConcatProperties
<1> HIDE DEF b
<1>10. f \in Seq(Int) /\ Len(f) = 14 + k + H + l
  BY <1>1, <1>9, ConcatProperties DEF l
<1>11. ASSUME NEW w, NEW o \in Nat, Lies(w, o, f) PROVE Carries(w, o, u, n)
  <2>0. 14 + k \in Nat /\ 14 + k + H \in Nat /\ 14 \in Nat /\ o + 14 \in Nat /\ o + (14 + k) \in Nat
    BY <1>4, <1>5
  <2>1. Lies(w, o, b) /\ Lies(w, o + (14 + k + H), c)
    BY <1>1, <1>9, <1>11, <2>0, LiesBoth DEF f
  <2>2. Lies(w, o, a) /\ Lies(w, o + (14 + k), h)
    BY <1>4, <1>8, <2>0, <2>1, LiesBoth DEF b
  <2>3. Lies(w, o, PackHeader) /\ Lies(w, o + 14, m)
    BY <1>5, <1>6, <2>0, <2>2, LiesBoth DEF a
  <2>4. StartsWith(w, o, Pack) /\ Fillers(w, o + 5, o + 14)
    BY <2>3, PackLies
  <2>5. ASSUME Marked(u, n)
        PROVE  /\ StartsWith(w, o + 14, System) /\ w[o + 19] = 0 /\ w[o + 20] = 9
               /\ Fillers(w, o + 21, o + 29)
               /\ MapBytes(w, o + 29, u.codec)
    <3>1. Lies(w, o + 14, SystemHeader \o StreamMap(u.codec))
      BY <2>3, <2>5 DEF m
    <3>2. /\ SystemHeader \in Seq(Int) /\ Len(SystemHeader) = 15
          /\ StreamMap(u.codec) \in Seq(Int)
      BY SystemIs, MapIs
    <3>3. 15 \in Nat
      OBVIOUS
    <3>4. Lies(w, o + 14, SystemHeader) /\ Lies(w, o + 14 + 15, StreamMap(u.codec))
      BY <2>0, <3>1, <3>2, <3>3, LiesBoth, ZenonT(60)
    <3>5. o + 14 + 15 = o + 29 /\ o + 29 \in Nat
      OBVIOUS
    <3>6. MapBytes(w, o + 29, u.codec)
      BY <3>4, <3>5, MapLies
    <3>7. /\ StartsWith(w, o + 14, System) /\ w[o + 14 + 5] = 0 /\ w[o + 14 + 6] = 9
          /\ Fillers(w, o + 14 + 7, o + 14 + 15)
      BY <2>0, <3>4, SystemLies
    <3>8. o + 14 + 5 = o + 19 /\ o + 14 + 6 = o + 20 /\ o + 14 + 7 = o + 21
      OBVIOUS
    <3> QED
      BY <3>5, <3>6, <3>7, <3>8
  <2>6. PesBytes(w, o + (14 + k), n = 1, u.pts, l)
    BY <1>1, <1>2, <2>0, <2>2, PesLies DEF h
  <2>7. o + (14 + k) = o + Off(u, n) /\ o + (14 + k + H) = o + Off(u, n) + H
    BY <1>4, <1>5, <1>7
  <2> QED
    BY <2>1, <2>4, <2>5, <2>6, <2>7 DEF Carries, c, l, H
<1>12. 14 + k + H + l = Off(u, n) + H + l
  BY <1>7
<1> QED
  BY <1>3, <1>10, <1>11, <1>12 DEF c, l, H

-----------------------------------------------------------------------------
(* A stream on the wire.                                                   *)

(* What send() made.                                                       *)
Muxed(codec) ==
  /\ codec \in Codecs /\ Len(stream) \in Nat \ {0}
  /\ \A k \in 1 .. Len(stream) :
       /\ stream[k].codec = codec /\ stream[k].data \in Units[codec]
       /\ Muxable(stream[k]) /\ stream[k].pts = k - 2
  /\ wire = Flatten([k \in 1 .. Len(stream) |-> MuxFrame(stream[k])])

FragsOf(u) == [n \in 1 .. Fragments(u.data) |-> Fragment(u, n)]
Count(k)   == Fragments(stream[k].data)
Base(k, n) == Starts(k) + (IF n = 1 THEN 0 ELSE Len(Joined(FragsOf(stream[k]))[n - 1]))
Pes(k, n)  == Base(k, n) + Off(stream[k], n)
Ends(k, n) == Pes(k, n) + Hdr(n) + Len(Chunk(stream[k].data, n))

(* The units of a stream.                                                  *)
LEMMA UnitsAre ==
  ASSUME NEW codec, Muxed(codec), NEW k \in 1 .. Len(stream)
  PROVE  /\ IsAccessUnit(stream[k]) /\ stream[k].codec = codec
         /\ Len(stream[k].data) \in Nat \ {0} /\ Len(stream[k].data) <= MaxPayload
         /\ Count(k) \in Nat \ {0}
         /\ \/ Joins \subseteq {0}
            \/ \A n \in 1 .. Count(k) : NalsOnly(<< 0, 0 >> \o Chunk(stream[k].data, n))
<1>1. /\ codec \in Codecs /\ stream[k].codec = codec /\ stream[k].data \in Units[codec]
      /\ Muxable(stream[k]) /\ stream[k].pts = k - 2 /\ Len(stream) \in Nat
  BY DEF Muxed
<1> DEFINE d == stream[k].data
<1>2. /\ d \in Seq(0 .. 255)
      /\ Joins \subseteq {0} \/ \A n \in 1 .. Fragments(d) : NalsOnly(<< 0, 0 >> \o Chunk(d, n))
  BY <1>1, UnitsAssumption, Zenon
<1>3. d # << >> /\ Len(d) <= MaxPayload
  BY <1>1 DEF Muxable
<1>4. stream[k].pts \in Int
  BY <1>1
<1>5. IsUnit(d)
  BY <1>2, <1>3 DEF IsUnit
<1>6. Fragments(d) \in Nat \ {0}
  BY <1>5, CutsAre
<1> HIDE DEF d
<1>7. Len(d) \in Nat \ {0}
  BY <1>2, <1>3, EmptySeq
<1> QED
  BY <1>1, <1>2, <1>3, <1>4, <1>5, <1>6, <1>7 DEF IsAccessUnit, Count, d

(* A muxed unit: its fragments, one after the other.                       *)
LEMMA FrameIs ==
  ASSUME NEW u, IsAccessUnit(u)
  PROVE  /\ ByteSeqs(FragsOf(u)) /\ Len(FragsOf(u)) = Fragments(u.data)
         /\ MuxFrame(u) = Flatten(FragsOf(u))
         /\ MuxFrame(u) \in Seq(Int)
<1> DEFINE F == Fragments(u.data)
           fs == FragsOf(u)
<1>1. F \in Nat
  BY CutsAre DEF IsAccessUnit
<1>2. \A n \in 1 .. F : Fragment(u, n) \in Seq(Int)
  BY FragmentIs
<1>3. fs = [n \in 1 .. F |-> Fragment(u, n)]
  BY DEF FragsOf
<1>4. MuxFrame(u) = Flatten(fs)
  BY DEF MuxFrame, FragsOf
<1> HIDE DEF F, fs
<1>5. fs \in [1 .. F -> Seq(Int)]
  BY <1>2, <1>3
<1>6. fs \in Seq(Seq(Int)) /\ Len(fs) = F
  BY <1>1, <1>5, FunctionIsSeq
<1>7. ByteSeqs(fs)
  BY <1>1, <1>5, <1>6 DEF ByteSeqs
<1>8. Flatten(fs) \in Seq(Int)
  BY <1>7, FlattenIs
<1> QED
  BY <1>4, <1>6, <1>7, <1>8 DEF fs, F

(* A stretch of units is a sequence of byte sequences.                     *)
LEMMA FramesAre ==
  ASSUME NEW codec, Muxed(codec), NEW m \in 0 .. Len(stream), NEW ss,
         ss = [i \in 1 .. m |-> MuxFrame(stream[i])]
  PROVE  ByteSeqs(ss) /\ Len(ss) = m /\ \A i \in 1 .. m : ss[i] = MuxFrame(stream[i])
<1>1. Len(stream) \in Nat
  BY DEF Muxed
<1>2. ASSUME NEW i \in 1 .. m PROVE MuxFrame(stream[i]) \in Seq(Int)
  <2>1. i \in 1 .. Len(stream)
    BY <1>1
  <2> QED
    BY <2>1, UnitsAre, FrameIs
<1>3. ss \in [1 .. m -> Seq(Int)] /\ m \in Nat
  BY <1>1, <1>2
<1>4. ss \in Seq(Seq(Int)) /\ Len(ss) = m
  BY <1>3, FunctionIsSeq
<1> QED
  BY <1>3, <1>4 DEF ByteSeqs

(* Where the units start.                                                  *)
LEMMA StartsAre ==
  ASSUME NEW codec, Muxed(codec)
  PROVE  /\ wire \in Seq(Int) /\ Len(wire) \in Nat
         /\ Starts(1) = 0 /\ Starts(Len(stream) + 1) = Len(wire)
         /\ \A k \in 1 .. Len(stream) :
              /\ Starts(k) \in Nat
              /\ Starts(k + 1) = Starts(k) + Len(MuxFrame(stream[k]))
              /\ Starts(k + 1) <= Len(wire)
              /\ Lies(wire, Starts(k), MuxFrame(stream[k]))
<1> DEFINE K == Len(stream)
           fs == [i \in 1 .. K |-> MuxFrame(stream[i])]
           J == Joined(fs)
<1>1. K \in Nat
  BY DEF Muxed
<1>2. wire = Flatten(fs)
  BY DEF Muxed
<1>3. ByteSeqs(fs) /\ Len(fs) = K /\ \A i \in 1 .. K : fs[i] = MuxFrame(stream[i])
  <2>1. K \in 0 .. Len(stream)
    BY <1>1
  <2> QED
    BY <2>1, FramesAre
<1>4. ASSUME NEW k \in 1 .. K + 1 PROVE Starts(k) = Len(J[k - 1])
  <2> DEFINE m == k - 1
             ps == [i \in 1 .. m |-> MuxFrame(stream[i])]
  <2>1. m \in 0 .. Len(stream) /\ m \in Nat /\ m <= K
    BY <1>1
  <2>2. Starts(k) = Len(Flatten(ps))
    BY DEF Starts
  <2> HIDE DEF m
  <2>3. ByteSeqs(ps) /\ Len(ps) = m /\ \A i \in 1 .. m : ps[i] = MuxFrame(stream[i])
    BY <2>1, FramesAre
  <2> HIDE DEF ps, fs
  <2>4. \A i \in 1 .. m : ps[i] = fs[i]
    <3>1. \A i \in 1 .. m : i \in 1 .. K
      BY <1>1, <2>1
    <3> QED
      BY <1>3, <2>3, <3>1
  <2>5. \A i \in 0 .. Len(ps) : Joined(ps)[i] = Joined(fs)[i]
    BY <1>3, <2>1, <2>3, <2>4, JoinedAgree
  <2>6. Len(Flatten(ps)) = Len(Joined(ps)[m])
    BY <2>3, FlattenIs
  <2>7. Joined(ps)[m] = J[m]
    BY <2>1, <2>3, <2>5
  <2> QED
    BY <2>2, <2>6, <2>7 DEF m
<1> HIDE DEF fs, K
<1>9. /\ Flatten(fs) \in Seq(Int) /\ Len(Flatten(fs)) \in Nat
      /\ Len(Flatten(fs)) = Len(J[Len(fs)])
      /\ \A k \in 1 .. Len(fs) :
           /\ Len(J[k - 1]) \in Nat
           /\ Len(J[k]) = Len(J[k - 1]) + Len(fs[k])
           /\ Len(J[k]) <= Len(Flatten(fs))
           /\ \A i \in 1 .. Len(fs[k]) : Flatten(fs)[Len(J[k - 1]) + i] = fs[k][i]
  BY <1>3, FlattenIs, ZenonT(60)
<1>10. Len(fs) = K
  BY <1>3
<1>5. /\ Flatten(fs) \in Seq(Int) /\ Len(Flatten(fs)) \in Nat
      /\ Len(Flatten(fs)) = Len(J[K])
      /\ \A k \in 1 .. K :
           /\ Len(J[k - 1]) \in Nat
           /\ Len(J[k]) = Len(J[k - 1]) + Len(fs[k])
           /\ Len(J[k]) <= Len(Flatten(fs))
           /\ \A i \in 1 .. Len(fs[k]) : Flatten(fs)[Len(J[k - 1]) + i] = fs[k][i]
  BY <1>9, <1>10
<1>6. Len(J[0]) = 0
  BY <1>3, JoinedGrows
<1> HIDE DEF J, K
<1>7. Starts(1) = 0 /\ Starts(K + 1) = Len(wire)
  <2>1. 1 \in 1 .. K + 1 /\ K + 1 \in 1 .. K + 1 /\ 1 - 1 = 0 /\ K + 1 - 1 = K
    BY <1>1
  <2>2. Starts(1) = Len(J[0])
    BY <1>4, <2>1
  <2>3. Starts(K + 1) = Len(J[K])
    <3> DEFINE m == K + 1
    <3>1. m \in 1 .. K + 1 /\ m - 1 = K
      BY <1>1
    <3> HIDE DEF m
    <3>2. Starts(m) = Len(J[m - 1])
      BY <1>4, <3>1
    <3> QED
      BY <3>1, <3>2 DEF m
  <2> QED
    BY <1>2, <1>5, <1>6, <2>2, <2>3
<1>8. ASSUME NEW k \in 1 .. K
      PROVE  /\ Starts(k) \in Nat
             /\ Starts(k + 1) = Starts(k) + Len(MuxFrame(stream[k]))
             /\ Starts(k + 1) <= Len(wire)
             /\ Lies(wire, Starts(k), MuxFrame(stream[k]))
  <2>1. k \in 1 .. K + 1 /\ k + 1 \in 1 .. K + 1 /\ k + 1 - 1 = k
    BY <1>1
  <2>2. Starts(k) = Len(J[k - 1]) /\ Starts(k + 1) = Len(J[k]) /\ fs[k] = MuxFrame(stream[k])
    BY <1>3, <1>4, <2>1
  <2>3. \A i \in 1 .. Len(fs[k]) : wire[Len(J[k - 1]) + i] = fs[k][i]
    BY <1>2, <1>5
  <2>4. Lies(wire, Starts(k), MuxFrame(stream[k]))
    BY <2>2, <2>3 DEF Lies
  <2> QED
    BY <1>2, <1>5, <2>2, <2>4
<1> QED
  BY <1>2, <1>5, <1>7, <1>8 DEF K

(* Where the packets lie on the wire.                                      *)
LEMMA PacketsAre ==
  ASSUME NEW codec, Muxed(codec), NEW k \in 1 .. Len(stream), NEW n \in 1 .. Count(k)
  PROVE  /\ Base(k, n) \in Nat /\ Ends(k, n) \in Nat /\ Ends(k, n) <= Len(wire)
         /\ Carries(wire, Base(k, n), stream[k], n)
         /\ Len(Chunk(stream[k].data, n)) \in 1 .. PesChunk
         /\ Base(k, 1) = Starts(k)
         /\ n < Count(k) => Base(k, n + 1) = Ends(k, n)
         /\ n = Count(k) => Starts(k + 1) = Ends(k, n)
<1> DEFINE u == stream[k]
           F == Count(k)
           fs == FragsOf(u)
           J == Joined(fs)
           s == Starts(k)
           W == Len(wire)
           l == Len(Chunk(u.data, n))
<1>1. IsAccessUnit(u) /\ F \in Nat \ {0}
  BY UnitsAre
<1>2. ByteSeqs(fs) /\ Len(fs) = F /\ MuxFrame(u) = Flatten(fs)
  BY <1>1, FrameIs DEF Count
<1>3. n \in 1 .. F /\ n \in Nat /\ fs[n] = Fragment(u, n)
  BY <1>1 DEF FragsOf, Count
<1>4. /\ s \in Nat /\ Starts(k + 1) = s + Len(MuxFrame(u)) /\ Starts(k + 1) <= W
      /\ Lies(wire, s, MuxFrame(u)) /\ W \in Nat
  BY StartsAre
<1>5. /\ Len(Fragment(u, n)) = Off(u, n) + Hdr(n) + l
      /\ \A o \in Nat : Lies(wire, o, Fragment(u, n)) => Carries(wire, o, u, n)
  BY <1>1, <1>3, FragmentIs DEF Count
<1>6. l \in 1 .. PesChunk /\ l \in Nat
  BY <1>1, <1>3, ChunkIs, StreamAssumption DEF Count, IsAccessUnit
<1> HIDE DEF u, fs, s, l, W
<1>7. /\ Len(Flatten(fs)) \in Nat /\ Len(Flatten(fs)) = Len(J[F])
      /\ Len(J[n - 1]) \in Nat
      /\ Len(J[n]) = Len(J[n - 1]) + Len(fs[n])
      /\ Len(J[n]) <= Len(Flatten(fs))
      /\ \A i \in 1 .. Len(fs[n]) : Flatten(fs)[Len(J[n - 1]) + i] = fs[n][i]
  <2>1. /\ Len(Flatten(fs)) \in Nat /\ Len(Flatten(fs)) = Len(J[Len(fs)])
        /\ \A i \in 1 .. Len(fs) :
             /\ Len(J[i - 1]) \in Nat
             /\ Len(J[i]) = Len(J[i - 1]) + Len(fs[i])
             /\ Len(J[i]) <= Len(Flatten(fs))
             /\ \A j \in 1 .. Len(fs[i]) : Flatten(fs)[Len(J[i - 1]) + j] = fs[i][j]
    BY <1>2, FlattenIs
  <2>2. n \in 1 .. Len(fs) /\ Len(fs) = F
    BY <1>2, <1>3
  <2> HIDE DEF J
  <2> QED
    BY <2>1, <2>2
<1>8. Len(J[0]) = 0
  BY <1>2, JoinedGrows
<1>9. Base(k, n) = s + Len(J[n - 1]) /\ Base(k, 1) = s
  <2>1. n = 1 => n - 1 = 0
    OBVIOUS
  <2> QED
    BY <1>4, <1>8, <2>1 DEF Base, fs, u, s
<1>10. n < F => Base(k, n + 1) = s + Len(J[n])
  <2>1. n + 1 # 1 /\ n + 1 - 1 = n
    BY <1>3
  <2> QED
    BY <2>1 DEF Base, fs, u, s
<1> DEFINE a == Len(J[n - 1])
           b == Len(J[n])
           m == Len(Flatten(fs))
           q == Off(u, n)
           H == Hdr(n)
<1>11. q \in Nat /\ H \in Nat
  BY DEF Off, Hdr
<1>12. Len(fs[n]) = q + H + l
  BY <1>3, <1>5
<1>13. Ends(k, n) = Base(k, n) + q + H + l
  BY DEF Ends, Pes, u, l
<1>14. /\ a \in Nat /\ m \in Nat /\ b = a + (q + H + l) /\ b <= m
       /\ Base(k, n) = s + a /\ (n < F => Base(k, n + 1) = s + b)
       /\ Starts(k + 1) = s + m /\ (n = F => m = b)
  BY <1>2, <1>4, <1>7, <1>9, <1>10, <1>12
<1>15. Lies(wire, s + a, Fragment(u, n))
  <2>1. ASSUME NEW i \in 1 .. Len(fs[n]) PROVE wire[s + a + i] = fs[n][i]
    <3>4. \A x, y, z, v \in Nat : i \in 1 .. z /\ y = x + z /\ y <= v
            => x + i \in 1 .. v /\ s + (x + i) = s + x + i
      BY <1>4
    <3>5. q + H + l \in Nat /\ b \in Nat
      BY <1>6, <1>11, <1>14, SMTT(40)
    <3>1. a + i \in 1 .. m /\ s + (a + i) = s + a + i
      BY <1>12, <1>14, <3>4, <3>5
    <3>2. wire[s + (a + i)] = Flatten(fs)[a + i]
      BY <1>2, <1>4, <3>1 DEF Lies
    <3>3. Flatten(fs)[a + i] = fs[n][i]
      BY <1>7
    <3> QED
      BY <3>1, <3>2, <3>3
  <2> QED
    BY <1>3, <2>1 DEF Lies
<1> HIDE DEF a, b, m, q, H
<1>16. s + a \in Nat /\ Carries(wire, s + a, u, n)
  <2>1. s + a \in Nat
    BY <1>4, <1>14
  <2> QED
    BY <1>5, <1>15, <2>1
<1>17. /\ Base(k, n) \in Nat /\ Ends(k, n) \in Nat /\ Ends(k, n) <= W
       /\ (n < F => Base(k, n + 1) = Ends(k, n)) /\ (n = F => Starts(k + 1) = Ends(k, n))
  BY <1>4, <1>6, <1>11, <1>13, <1>14
<1> QED
  BY <1>6, <1>9, <1>14, <1>16, <1>17 DEF W, F, u, l, s

CodeAt(w, s) == w[s + 1] = 0 /\ w[s + 2] = 0 /\ w[s + 3] = 1

(* The start codes among the headers that go before a PES packet.          *)
LEMMA HeaderCodes ==
  ASSUME NEW w, NEW o \in Nat, NEW u, NEW n, Carries(w, o, u, n),
         NEW s \in Nat, o <= s, s < o + Off(u, n), CodeAt(w, s)
  PROVE  s = o \/ (Marked(u, n) /\ s \in {o + 14, o + 29})
<1>1. /\ w[o + 4] = Pack /\ \A i \in o + 5 .. o + 14 : w[i] = Filler
  BY DEF Carries, StartsWith, Fillers
<1>2. w[o + Off(u, n) + 1] = 0 /\ w[o + Off(u, n) + 2] = 0
  BY DEF Carries, PesBytes, StartsWith
<1>3. w[s + 3] = 1
  BY DEF CodeAt
<1>4. SUFFICES ASSUME s # o PROVE Marked(u, n) /\ s \in {o + 14, o + 29}
  OBVIOUS
<1>5. s + 3 >= o + 15
  <2>1. s + 3 # o + 4
    BY <1>1, <1>3 DEF Pack
  <2>2. s + 3 \notin o + 5 .. o + 14
    BY <1>1, <1>3 DEF Filler
  <2> QED
    BY <1>4, <2>1, <2>2
<1>6. CASE ~Marked(u, n)
  <2>1. Off(u, n) = 14
    BY <1>6 DEF Off
  <2>2. w[o + 15] = 0 /\ w[o + 16] = 0
    BY <1>2, <2>1
  <2>3. s + 3 \in {o + 15, o + 16}
    BY <1>5, <2>1
  <2> QED
    BY <1>3, <2>2, <2>3
<1>7. CASE Marked(u, n)
  <2>1. Off(u, n) = 49
    BY <1>7 DEF Off
  <2>2. w[o + 50] = 0 /\ w[o + 51] = 0
    BY <1>2, <2>1
  <2>3. /\ StartsWith(w, o + 14, System) /\ w[o + 19] = 0 /\ w[o + 20] = 9
        /\ Fillers(w, o + 21, o + 29)
        /\ MapBytes(w, o + 29, u.codec)
    BY <1>7 DEF Carries
  <2>4. w[o + 15] = 0 /\ w[o + 16] = 0 /\ w[o + 18] = System
    BY <2>3 DEF StartsWith
  <2>5. \A i \in o + 21 .. o + 29 : w[i] = Filler
    BY <2>3 DEF Fillers
  <2>6. /\ w[o + 30] = 0 /\ w[o + 31] = 0 /\ w[o + 33] = Map
        /\ w[o + 34] = 0 /\ w[o + 35] = 14 /\ w[o + 36] = 192 /\ w[o + 37] = 255
        /\ w[o + 38] = 0 /\ w[o + 39] = 0 /\ w[o + 40] = 0 /\ w[o + 41] = 4
        /\ w[o + 42] = StreamType(u.codec) /\ w[o + 43] = Video
        /\ w[o + 44] = 0 /\ w[o + 45] = 0
    BY <2>3 DEF MapBytes, StartsWith
  <2>7. \A i \in o + 46 .. o + 49 : w[i] = Filler
    BY <2>3 DEF MapBytes, Fillers
  <2>8. StreamType(u.codec) # 1
    BY DEF StreamType
  <2> DEFINE j == s + 3 - o
  <2>9. j \in Nat /\ j >= 15 /\ j <= 51 /\ w[o + j] = 1
    BY <1>3, <1>5, <2>1
  <2> HIDE DEF j
  <2>10. j \notin 21 .. 29 /\ j \notin 46 .. 49
    <3>1. j \in 21 .. 29 => o + j \in o + 21 .. o + 29
      BY <2>9
    <3>2. j \in 46 .. 49 => o + j \in o + 46 .. o + 49
      BY <2>9
    <3> QED
      BY <2>5, <2>7, <2>9, <3>1, <3>2 DEF Filler
  <2>11. j \notin {15, 16, 18, 19, 20}
    BY <2>3, <2>4, <2>9 DEF System
  <2>12. j \notin {30, 31, 33, 34, 35, 36, 37, 38}
    BY <2>6, <2>9 DEF Map
  <2>13. j \notin {39, 40, 41, 42, 43, 44, 45, 50, 51}
    BY <2>2, <2>6, <2>8, <2>9 DEF Video
  <2>14. j = 17 \/ j = 32
    BY <2>9, <2>10, <2>11, <2>12, <2>13
  <2>15. s = o + 14 \/ s = o + 29
    BY <2>14 DEF j
  <2> QED
    BY <1>7, <2>15
<1> QED
  BY <1>6, <1>7

(* Start codes in the rest of a packet: none in its header, and in its     *)
(* payload those of NAL units.                                             *)
LEMMA BodyCodes ==
  ASSUME NEW w, NEW o \in Nat, NEW u, NEW n, NEW q, NEW e, Carries(w, o, u, n),
         Chunk(u.data, n) \in Seq(0 .. 255),
         q = o + Off(u, n) + Hdr(n), e = q + Len(Chunk(u.data, n)),
         NEW s \in Nat, o + Off(u, n) < s, s + 3 <= e, CodeAt(w, s)
  PROVE  /\ s >= q - 2
         /\ s + 3 < e => /\ w[s + 4] \in 0 .. 255
                         /\ NalsOnly(<< 0, 0 >> \o Chunk(u.data, n)) => w[s + 4] < 128
<1> DEFINE c == Chunk(u.data, n)
           p == o + Off(u, n)
           l == Len(c)
           d == << 0, 0 >> \o c
<1>1. p \in Nat /\ l \in Nat /\ q \in Nat /\ e \in Nat /\ q = p + Hdr(n) /\ e = q + l
  <2>1. Off(u, n) \in Nat /\ Hdr(n) \in Nat
    BY DEF Off, Hdr
  <2>2. l \in Nat
    BY LenProperties
  <2> HIDE DEF c
  <2> QED
    BY <2>1, <2>2 DEF c
<1>2. /\ w[s + 1] = 0 /\ w[s + 2] = 0 /\ w[s + 3] = 1
  BY DEF CodeAt
<1>3. p < s
  OBVIOUS
<1>4. PesBytes(w, p, n = 1, u.pts, l)
  BY DEF Carries
<1>5. w[p + 3] = 1 /\ w[p + 4] = Video
  BY <1>4 DEF PesBytes, StartsWith
<1>6. \A i \in 1 .. l : w[q + i] = c[i]
  <2>1. Lies(w, o + Off(u, n) + Hdr(n), c)
    BY DEF Carries
  <2> QED
    BY <2>1 DEF Lies
<1>7. /\ c \in Seq(0 .. 255) /\ << 0, 0 >> \in Seq(0 .. 255) /\ Len(<< 0, 0 >>) = 2
      /\ << 0, 0 >>[1] = 0 /\ << 0, 0 >>[2] = 0
  OBVIOUS
<1>8. /\ Len(d) = 2 + l
      /\ \A i \in 1 .. 2 + l : d[i] = IF i <= 2 THEN << 0, 0 >>[i] ELSE c[i - 2]
  BY <1>7, ConcatProperties
<1>9. d[1] = 0 /\ d[2] = 0 /\ \A i \in 1 .. l : d[i + 2] = c[i]
  <2>1. 1 \in 1 .. 2 + l /\ 2 \in 1 .. 2 + l /\ 1 <= 2 /\ 2 <= 2
    BY <1>1
  <2>2. \A i \in 1 .. l : i + 2 \in 1 .. 2 + l /\ ~(i + 2 <= 2) /\ i + 2 - 2 = i
    BY <1>1
  <2> HIDE DEF d, l
  <2> QED
    BY <1>7, <1>8, <2>1, <2>2
<1>10. \A i \in 1 .. l : c[i] \in 0 .. 255
  BY ElementOfSeq
<1> HIDE DEF c, p, l, d
<1>11. s >= p + 4
  <2>1. s # p + 1
    <3>1. s = p + 1 => s + 3 = p + 4
      BY <1>1
    <3> QED
      BY <1>2, <1>5, <3>1 DEF Video
  <2>2. s # p + 2 /\ s # p + 3
    <3>1. (s = p + 2 => s + 1 = p + 3) /\ (s = p + 3 => s + 1 = p + 4)
      BY <1>1
    <3> QED
      BY <1>2, <1>5, <3>1 DEF Video
  <2> QED
    BY <1>1, <1>3, <2>1, <2>2
<1>12. /\ n = 1 => s >= q
       /\ n # 1 => s >= q - 2 /\ w[q - 1] = 0 /\ w[q] = 0
  <2>1. CASE n = 1
    <3>1. q = p + 14
      BY <1>1, <2>1 DEF Hdr
    <3>2. PesBytes(w, p, TRUE, u.pts, l)
      BY <1>4, <2>1
    <3>3. /\ w[p + 7] = 132 /\ w[p + 8] = 128 /\ w[p + 9] = 5
          /\ w[p + 10] = 32 + Wrapped(u.pts) /\ \A i \in p + 11 .. p + 14 : w[i] = Filler
      BY <3>2 DEF PesBytes, Fillers
    <3>4. s + 1 # p + 7 /\ s + 1 # p + 8 /\ s + 1 # p + 9
      BY <1>2, <3>3, SMTT(40)
    <3>5. s + 2 # p + 7 /\ s + 2 # p + 8 /\ s + 3 # p + 7
      BY <1>2, <3>3, SMTT(40)
    <3>6. s + 1 \notin p + 11 .. p + 14 /\ s + 2 \notin p + 11 .. p + 14
      BY <1>2, <3>3, SMTT(40) DEF Filler
    <3> QED
      BY <1>1, <1>11, <2>1, <3>1, <3>4, <3>5, <3>6
  <2>2. CASE n # 1
    <3>1. q = p + 9
      BY <1>1, <2>2 DEF Hdr
    <3>2. PesBytes(w, p, FALSE, u.pts, l)
      BY <1>4, <2>2
    <3>3. w[p + 7] = 128 /\ w[p + 8] = 0 /\ w[p + 9] = 0
      BY <3>2 DEF PesBytes
    <3>4. s + 3 # p + 7 /\ s + 3 # p + 8 /\ s + 3 # p + 9
      BY <1>2, <3>3
    <3>5. q - 1 = p + 8 /\ q = p + 9
      BY <1>1, <3>1
    <3> QED
      BY <1>1, <1>11, <2>2, <3>3, <3>4, <3>5, SMTT(40)
  <2> QED
    BY <2>1, <2>2
<1>13. s >= q - 2
  BY <1>1, <1>12
<1>14. ASSUME s + 3 < e
       PROVE  w[s + 4] \in 0 .. 255 /\ (NalsOnly(d) => w[s + 4] < 128)
  <2> DEFINE i == s + 3 - q
  <2>12. Len(d) = 2 + l /\ s + 3 < q + l /\ s >= q - 2 /\ l \in Nat /\ q \in Nat
    BY <1>1, <1>8, <1>13, <1>14
  <2>11. \A a, b, m \in Nat :
          (a >= b - 2 /\ a + 3 < b + m) =>
             /\ a + 3 - b \in Nat /\ a + 3 - b >= 1 /\ (a + 3 - b) + 3 <= 2 + m
             /\ a + 3 - b \in 1 .. (2 + m) - 3 /\ a = b + (a + 3 - b) - 3
    OBVIOUS
  <2>13. /\ i \in Nat /\ i >= 1 /\ i + 3 <= 2 + l
         /\ i \in 1 .. (2 + l) - 3 /\ s = q + i - 3
    BY <2>11, <2>12, Zenon
  <2>1. i \in Nat /\ i >= 1 /\ i + 3 <= 2 + l /\ i \in 1 .. Len(d) - 3 /\ s = q + i - 3
    BY <2>12, <2>13, Zenon
  <2> HIDE DEF i
  <2>2. \A j \in 1 .. l : d[j + 2] = w[q + j]
    BY <1>6, <1>9
  <2>3. d[i + 3] = w[s + 4] /\ w[s + 4] \in 0 .. 255
    <3>1. i + 1 \in 1 .. l /\ i + 1 + 2 = i + 3 /\ q + (i + 1) = s + 4
      BY <1>1, <2>1, SMTT(40)
    <3>2. d[i + 1 + 2] = w[q + (i + 1)] /\ w[q + (i + 1)] = c[i + 1] /\ c[i + 1] \in 0 .. 255
      BY <1>6, <1>10, <2>2, <3>1
    <3> QED
      BY <3>1, <3>2
  <2>4. d[i + 2] = 1
    <3>1. i \in 1 .. l /\ q + i = s + 3
      BY <1>1, <2>1, SMTT(40)
    <3> QED
      BY <1>2, <2>2, <3>1
  <2>5. d[i + 1] = 0
    <3>1. CASE i = 1
      BY <1>9, <3>1
    <3>2. CASE i # 1
      <4>1. i - 1 \in 1 .. l /\ q + (i - 1) = s + 2 /\ i - 1 + 2 = i + 1
        BY <1>1, <2>1, <3>2, SMTT(40)
      <4>2. d[i - 1 + 2] = w[q + (i - 1)]
        BY <2>2, <4>1
      <4> QED
        BY <1>2, <4>1, <4>2
    <3> QED
      BY <3>1, <3>2
  <2>6. d[i] = 0
    <3>1. CASE i \in {1, 2}
      BY <1>9, <3>1
    <3>2. CASE i \notin {1, 2}
      <4>1. i - 2 \in 1 .. l /\ q + (i - 2) = s + 1 /\ i - 2 + 2 = i
        BY <1>1, <2>1, <3>2
      <4>2. d[i - 2 + 2] = w[q + (i - 2)]
        BY <2>2, <4>1
      <4> QED
        BY <1>2, <4>1, <4>2
    <3> QED
      BY <3>1, <3>2
  <2>7. NalsOnly(d) => d[i + 3] < 128
    BY <2>1, <2>4, <2>5, <2>6 DEF NalsOnly
  <2> QED
    BY <2>3, <2>7
<1> QED
  BY <1>13, <1>14 DEF d, c

(* The packet that the demuxer expects next; past the last one there is    *)
(* the end of the stream.                                                  *)
At(k, n) == \/ k \in 1 .. Len(stream) /\ n \in 1 .. Count(k)
            \/ k = Len(stream) + 1 /\ n = 1

Prev(k, n) == IF n > 1 THEN Pes(k, n - 1) ELSE IF k > 1 THEN Pes(k - 1, Count(k - 1)) ELSE -1

(* The packet before the next one, if there is one.                        *)
LEMMA PrevIs ==
  ASSUME NEW codec, Muxed(codec), NEW k, NEW n, At(k, n)
  PROVE  \/ k = 1 /\ n = 1 /\ Base(k, n) = 0 /\ Prev(k, n) = -1
         \/ \E i \in 1 .. Len(stream) : \E m \in 1 .. Count(i) :
              /\ Prev(k, n) = Pes(i, m) /\ Base(k, n) = Ends(i, m)
              /\ \/ i = k /\ n = m + 1
                 \/ k = i + 1 /\ n = 1 /\ m = Count(i)
<1>1. Len(stream) \in Nat \ {0}
  BY DEF Muxed
<1>2. \A i \in 1 .. Len(stream) : Count(i) \in Nat \ {0}
  BY UnitsAre
<1>3. CASE n > 1 /\ k \in 1 .. Len(stream) /\ n \in 1 .. Count(k)
  <2>1. n - 1 \in 1 .. Count(k) /\ n - 1 < Count(k) /\ n = n - 1 + 1
    BY <1>2, <1>3
  <2>2. Prev(k, n) = Pes(k, n - 1) /\ Base(k, n) = Ends(k, n - 1)
    BY <1>3, <2>1, PacketsAre DEF Prev
  <2> QED
    BY <1>3, <2>1, <2>2
<1>4. CASE n = 1 /\ k > 1 /\ k \in 1 .. Len(stream) + 1
  <2> DEFINE i == k - 1
             m == Count(i)
  <2>1. i \in 1 .. Len(stream) /\ k = i + 1
    BY <1>1, <1>4
  <2>2. m \in 1 .. Count(i)
    BY <1>2, <2>1
  <2>3. Starts(i + 1) = Ends(i, m)
    BY <2>1, <2>2, PacketsAre
  <2>4. Starts(i + 1) \in Nat /\ Prev(k, n) = Pes(i, m)
    <3>1. Ends(i, m) \in Nat
      BY <2>1, <2>2, PacketsAre
    <3> QED
      BY <1>4, <2>3, <3>1 DEF Prev
  <2>5. Base(k, n) = Ends(i, m)
    BY <1>4, <2>1, <2>3, <2>4 DEF Base
  <2> HIDE DEF i
  <2> QED
    BY <1>4, <2>1, <2>2, <2>4, <2>5
<1>5. CASE n = 1 /\ k = 1
  <2>1. Starts(1) = 0
    BY StartsAre
  <2> QED
    BY <1>5, <2>1 DEF Base, Prev
<1> QED
  BY <1>1, <1>2, <1>3, <1>4, <1>5 DEF At

(* Sizes within a packet.                                                  *)
LEMMA PacketShape ==
  ASSUME NEW codec, Muxed(codec), NEW k \in 1 .. Len(stream), NEW n \in 1 .. Count(k)
  PROVE  /\ Base(k, n) \in Nat /\ Pes(k, n) \in Nat /\ Ends(k, n) \in Nat
         /\ Pes(k, n) = Base(k, n) + (IF Marked(stream[k], n) THEN 49 ELSE 14)
         /\ Pes(k, n) + 10 <= Ends(k, n) /\ Ends(k, n) <= Len(wire)
         /\ n = 1 => Pes(k, n) + 15 <= Ends(k, n)
<1>1. /\ Base(k, n) \in Nat /\ Ends(k, n) \in Nat /\ Ends(k, n) <= Len(wire)
      /\ Len(Chunk(stream[k].data, n)) \in 1 .. PesChunk
  BY PacketsAre
<1> DEFINE l == Len(Chunk(stream[k].data, n))
<1>2. l \in Nat /\ l >= 1
  BY <1>1, StreamAssumption
<1>3. Ends(k, n) = Pes(k, n) + Hdr(n) + l
  BY DEF Ends
<1> HIDE DEF l
<1>4. Pes(k, n) = Base(k, n) + (IF Marked(stream[k], n) THEN 49 ELSE 14)
  BY DEF Pes, Off
<1>5. Hdr(n) \in Nat /\ Hdr(n) >= 9 /\ (n = 1 => Hdr(n) = 14)
  BY DEF Hdr
<1> DEFINE b == Base(k, n)
           p == Pes(k, n)
           e == Ends(k, n)
           h == Hdr(n)
<1> HIDE DEF b, p, e, h
<1>6. b \in Nat /\ e \in Nat /\ e = p + h + l /\ h \in Nat /\ h >= 9
  BY <1>1, <1>3, <1>5 DEF b, p, e, h
<1>7. p \in Nat /\ b + 14 <= p
  BY <1>4, <1>6, SMTT(40) DEF b, p
<1>8. p + 10 <= e /\ (h = 14 => p + 15 <= e)
  BY <1>2, <1>6, <1>7
<1> QED
  BY <1>1, <1>4, <1>5, <1>7, <1>8 DEF b, p, e, h

(* The units and packets come in order.                                    *)
LEMMA StartsGrow ==
  ASSUME NEW codec, Muxed(codec), NEW i \in 1 .. Len(stream) + 1, NEW k \in i .. Len(stream) + 1
  PROVE  Starts(i) \in Nat /\ Starts(k) \in Nat /\ Starts(i) <= Starts(k)
<1> DEFINE K == Len(stream)
           T == {m \in 0 .. K : Starts(m + 1) \in Nat /\ (i <= m + 1 => Starts(i) <= Starts(m + 1))}
<1>1. K \in Nat
  BY DEF Muxed
<1>2. Starts(1) = 0
  BY StartsAre
<1>3. ASSUME NEW m \in 1 .. K
      PROVE  Starts(m) \in Nat /\ Starts(m + 1) \in Nat /\ Starts(m) <= Starts(m + 1)
  <2>1. MuxFrame(stream[m]) \in Seq(Int)
    BY UnitsAre, FrameIs
  <2>2. Len(MuxFrame(stream[m])) \in Nat
    BY <2>1, LenProperties
  <2>3. Starts(m) \in Nat /\ Starts(m + 1) = Starts(m) + Len(MuxFrame(stream[m]))
    BY StartsAre
  <2> QED
    BY <2>2, <2>3
<1> HIDE DEF K
<1>4. 0 \in T
  <2>1. i <= 0 + 1 => i = 1
    OBVIOUS
  <2>2. 0 + 1 = 1
    OBVIOUS
  <2> QED
    BY <1>1, <1>2, <2>1, <2>2
<1>5. ASSUME NEW m \in 1 .. K, m - 1 \in T PROVE m \in T
  <2>1. m - 1 + 1 = m /\ m \in 0 .. K
    BY <1>1
  <2>2. Starts(m) \in Nat /\ Starts(m + 1) \in Nat /\ Starts(m) <= Starts(m + 1)
    BY <1>3
  <2>3. i <= m => Starts(i) <= Starts(m)
    BY <1>5, <2>1
  <2>4. CASE i <= m
    <3>1. i \in 1 .. K
      BY <1>1, <2>4 DEF K
    <3>2. Starts(i) \in Nat
      BY <1>3, <3>1
    <3> QED
      BY <2>1, <2>2, <2>3, <2>4, <3>2
  <2>5. CASE ~(i <= m)
    <3>1. i <= m + 1 => i = m + 1
      BY <2>5 DEF K
    <3> QED
      BY <2>1, <2>2, <3>1
  <2> QED
    BY <2>4, <2>5
<1> HIDE DEF T
<1>6. 0 .. K \subseteq T
  BY <1>1, <1>4, <1>5, Induction
<1>7. k - 1 \in T /\ i - 1 \in T /\ k - 1 + 1 = k /\ i - 1 + 1 = i /\ i <= k
  BY <1>1, <1>6 DEF K
<1> QED
  BY <1>7 DEF T

LEMMA BasesGrow ==
  ASSUME NEW codec, Muxed(codec), NEW k \in 1 .. Len(stream), NEW n \in 1 .. Count(k)
  PROVE  /\ Starts(k) <= Base(k, n) /\ Ends(k, n) <= Starts(k + 1)
         /\ Pes(k, 1) <= Pes(k, n) /\ Ends(k, 1) <= Ends(k, n)
         /\ n > 1 => Ends(k, 1) <= Base(k, n)
<1> DEFINE F == Count(k)
           up(m) == /\ Starts(k) <= Base(k, m)
                    /\ Pes(k, 1) <= Pes(k, m) /\ Ends(k, 1) <= Ends(k, m)
                    /\ m > 1 => Ends(k, 1) <= Base(k, m)
           T == {m \in 0 .. F : m > 0 => up(m)}
           V == {m \in 0 .. F - 1 : Ends(k, F - m) <= Starts(k + 1)}
<1>1. F \in Nat \ {0}
  BY UnitsAre
<1>2. ASSUME NEW m \in 1 .. F
      PROVE  /\ Base(k, m) \in Nat /\ Pes(k, m) \in Nat /\ Ends(k, m) \in Nat
             /\ Base(k, m) <= Pes(k, m) /\ Pes(k, m) + 10 <= Ends(k, m)
  <2>1. /\ Base(k, m) \in Nat /\ Pes(k, m) \in Nat /\ Ends(k, m) \in Nat
        /\ Pes(k, m) = Base(k, m) + (IF Marked(stream[k], m) THEN 49 ELSE 14)
        /\ Pes(k, m) + 10 <= Ends(k, m)
    BY PacketShape
  <2> QED
    BY <2>1
<1>3. \A m \in 1 .. F : /\ Base(k, 1) = Starts(k)
                        /\ m < F => Base(k, m + 1) = Ends(k, m)
                        /\ m = F => Starts(k + 1) = Ends(k, m)
  BY PacketsAre
<1> HIDE DEF F
<1>4. 0 \in T
  BY <1>1
<1>5. ASSUME NEW m \in 1 .. F, m - 1 \in T PROVE m \in T
  <2>1. m \in 0 .. F /\ m > 0
    BY <1>1
  <2>2. 1 \in 1 .. F /\ Base(k, 1) \in Nat /\ Base(k, 1) = Starts(k)
    BY <1>1, <1>2, <1>3
  <2>3. CASE m = 1
    <3>1. up(1)
      BY <1>2, <2>2
    <3> QED
      BY <2>1, <2>3, <3>1
  <2>4. CASE m # 1
    <3> DEFINE j == m - 1
    <3>1. j \in 1 .. F /\ j < F /\ j + 1 = m /\ m > 1
      BY <1>1, <2>4
    <3>2. up(j)
      BY <1>5, <3>1
    <3> HIDE DEF j
    <3>3. Base(k, m) = Ends(k, j)
      BY <1>3, <3>1
    <3>4. /\ Base(k, j) \in Nat /\ Pes(k, j) \in Nat /\ Ends(k, j) \in Nat
          /\ Base(k, j) <= Pes(k, j) /\ Pes(k, j) + 10 <= Ends(k, j)
      BY <1>2, <3>1
    <3>5. /\ Base(k, m) \in Nat /\ Pes(k, m) \in Nat /\ Ends(k, m) \in Nat
          /\ Base(k, m) <= Pes(k, m) /\ Pes(k, m) + 10 <= Ends(k, m)
      BY <1>2
    <3>6. Pes(k, 1) \in Nat /\ Ends(k, 1) \in Nat /\ Starts(k) \in Nat
      BY <1>2, <2>2
    <3>7. up(m)
      BY <3>1, <3>2, <3>3, <3>4, <3>5, <3>6, SMTT(40)
    <3> QED
      BY <2>1, <3>7
  <2> QED
    BY <2>3, <2>4
<1>6. 0 .. F \subseteq T
  <2> HIDE DEF T
  <2> QED
    BY <1>1, <1>4, <1>5, Induction
<1>7. up(n)
  <2>1. n \in T /\ n > 0
    BY <1>6 DEF F
  <2> QED
    BY <2>1
<1>8. 0 \in V
  BY <1>1, <1>2, <1>3
<1>9. ASSUME NEW m \in 1 .. F - 1, m - 1 \in V PROVE m \in V
  <2> DEFINE j == F - m
  <2>1. j \in 1 .. F /\ j < F /\ j + 1 = F - (m - 1) /\ j + 1 \in 1 .. F /\ m \in 0 .. F - 1
    BY <1>1
  <2>2. Ends(k, j + 1) <= Starts(k + 1)
    BY <1>9, <2>1
  <2> HIDE DEF j
  <2>3. Base(k, j + 1) = Ends(k, j)
    BY <1>3, <2>1
  <2>4. /\ Ends(k, j) \in Nat /\ Pes(k, j + 1) \in Nat /\ Ends(k, j + 1) \in Nat
        /\ Base(k, j + 1) <= Pes(k, j + 1) /\ Pes(k, j + 1) + 10 <= Ends(k, j + 1)
    BY <1>2, <2>1
  <2>5. Starts(k + 1) \in Nat
    BY <1>1, <1>2, <1>3
  <2>6. Ends(k, j) <= Starts(k + 1)
    BY <2>2, <2>3, <2>4, <2>5
  <2> QED
    BY <2>1, <2>6 DEF j
<1>10. 0 .. F - 1 \subseteq V
  <2> HIDE DEF V
  <2>1. F - 1 \in Nat
    BY <1>1
  <2> QED
    BY <1>8, <1>9, <2>1, Induction
<1>11. Ends(k, n) <= Starts(k + 1)
  <2>1. F - n \in V /\ F - (F - n) = n
    BY <1>1, <1>10 DEF F
  <2> QED
    BY <2>1
<1> QED
  BY <1>7, <1>11

-----------------------------------------------------------------------------
(* A place on the wire.                                                    *)

(* How far the demuxer may be when that packet is next, of bytes up to g:  *)
(* it has not passed the packet's start code, and it has taken the packet  *)
(* before whole, unless the receiver joined too late for it.               *)
Limit(k, n) == IF k > Len(stream) THEN Len(wire) ELSE Pes(k, n)
Near(p, k, n, g) ==
  /\ At(k, n) /\ p \in Nat /\ join <= p /\ p <= Limit(k, n)
  /\ Prev(k, n) >= join => Base(k, n) <= g /\ Base(k, n) <= p + 3

(* The unit of the packet before, and whether its beginning was received.  *)
Cur(k, n)    == IF n = 1 THEN k - 1 ELSE k
Opened(k, n) == Cur(k, n) >= 1 /\ Pes(Cur(k, n), 1) >= join

(* The units before a place of the wire, and those after it.               *)
LEMMA Before ==
  ASSUME NEW codec, Muxed(codec), NEW k, NEW n, At(k, n),
         NEW i \in 1 .. Len(stream), i < k \/ (i = k /\ n > 1)
  PROVE  /\ Pes(i, 1) <= Prev(k, n) /\ Ends(i, 1) <= Base(k, n)
         /\ Pes(i, 1) \in Nat /\ Ends(i, 1) \in Nat /\ Prev(k, n) \in Nat /\ Base(k, n) \in Nat
         /\ Pes(i, 1) + 15 <= Ends(i, 1)
         /\ Pes(i, 1) >= Starts(i) + 14 /\ (Marked(stream[i], 1) => Pes(i, 1) = Starts(i) + 49)
         /\ Starts(i) \in Nat
<1>1. Len(stream) \in Nat /\ 1 \in 1 .. Count(i)
  BY UnitsAre DEF Muxed
<1>2. /\ Pes(i, 1) \in Nat /\ Ends(i, 1) \in Nat /\ Pes(i, 1) + 15 <= Ends(i, 1)
      /\ Base(i, 1) \in Nat
      /\ Pes(i, 1) = Base(i, 1) + (IF Marked(stream[i], 1) THEN 49 ELSE 14)
  BY <1>1, PacketShape
<1>3. Base(i, 1) = Starts(i)
  BY <1>1, PacketsAre
<1>4. Ends(i, 1) <= Starts(i + 1)
  BY <1>1, BasesGrow
<1>5. ASSUME NEW m \in i + 1 .. Len(stream) + 1
      PROVE  Ends(i, 1) <= Starts(m) /\ Starts(m) \in Nat
  <2>1. i + 1 \in 1 .. Len(stream) + 1
    BY <1>1
  <2>2. Starts(i + 1) \in Nat /\ Starts(m) \in Nat /\ Starts(i + 1) <= Starts(m)
    BY <2>1, StartsGrow
  <2> QED
    BY <1>2, <1>4, <2>2
<1>6. CASE n > 1
  <2>1. k \in 1 .. Len(stream) /\ n \in 1 .. Count(k) /\ Count(k) \in Nat
    BY <1>6, UnitsAre DEF At
  <2> DEFINE m == n - 1
  <2>2. m \in 1 .. Count(k)
    BY <1>6, <2>1
  <2>3. Prev(k, n) = Pes(k, m)
    BY <1>6 DEF Prev
  <2> HIDE DEF m
  <2>4. Pes(k, m) \in Nat /\ Base(k, m) \in Nat /\ Base(k, m) <= Pes(k, m) /\ Base(k, n) \in Nat
    <3>1. /\ Pes(k, m) \in Nat /\ Base(k, m) \in Nat
          /\ Pes(k, m) = Base(k, m) + (IF Marked(stream[k], m) THEN 49 ELSE 14)
      BY <2>1, <2>2, PacketShape
    <3>2. Base(k, n) \in Nat
      BY <2>1, PacketShape
    <3> QED
      BY <3>1, <3>2
  <2>5. CASE i = k
    <3>1. Pes(k, 1) <= Pes(k, m)
      BY <2>1, <2>2, BasesGrow
    <3>2. Ends(k, 1) <= Base(k, n)
      BY <1>6, <2>1, BasesGrow
    <3> QED
      BY <1>2, <1>3, <2>3, <2>4, <2>5, <3>1, <3>2
  <2>6. CASE i # k
    <3>1. k \in i + 1 .. Len(stream) + 1
      BY <1>1, <2>1, <2>6
    <3>2. Ends(i, 1) <= Starts(k) /\ Starts(k) \in Nat
      BY <1>5, <3>1
    <3>3. Starts(k) <= Base(k, m) /\ Starts(k) <= Base(k, n)
      BY <2>1, <2>2, BasesGrow
    <3> QED
      BY <1>2, <1>3, <2>3, <2>4, <3>2, <3>3, SMTT(40)
  <2> QED
    BY <2>5, <2>6
<1>7. CASE n = 1
  <2>1. k \in i + 1 .. Len(stream) + 1 /\ i < k
    BY <1>1, <1>7 DEF At
  <2>2. Ends(i, 1) <= Starts(k) /\ Starts(k) \in Nat /\ Base(k, n) = Starts(k)
    BY <1>5, <1>7, <2>1 DEF Base
  <2> DEFINE j == k - 1
             m == Count(j)
  <2>3. j \in 1 .. Len(stream) /\ Prev(k, n) = Pes(j, m) /\ i <= j
    BY <1>1, <1>7, <2>1 DEF Prev
  <2>4. m \in 1 .. Count(j)
    BY <2>3, UnitsAre
  <2> HIDE DEF j, m
  <2>5. Pes(j, m) \in Nat /\ Base(j, m) \in Nat /\ Base(j, m) <= Pes(j, m)
    <3>1. /\ Pes(j, m) \in Nat /\ Base(j, m) \in Nat
          /\ Pes(j, m) = Base(j, m) + (IF Marked(stream[j], m) THEN 49 ELSE 14)
      BY <2>3, <2>4, PacketShape
    <3> QED
      BY <3>1
  <2>6. Pes(i, 1) <= Pes(j, m)
    <3>1. CASE i = j
      BY <2>3, <2>4, <3>1, BasesGrow
    <3>2. CASE i # j
      <4>1. j \in i + 1 .. Len(stream) + 1
        BY <1>1, <2>3, <3>2
      <4>2. Ends(i, 1) <= Starts(j) /\ Starts(j) \in Nat
        BY <1>5, <4>1
      <4>3. Starts(j) <= Base(j, m)
        BY <2>3, <2>4, BasesGrow
      <4> QED
        BY <1>2, <2>5, <4>2, <4>3
    <3> QED
      BY <3>1, <3>2
  <2> QED
    BY <1>2, <1>3, <2>2, <2>3, <2>5, <2>6
<1> QED
  <2>1. n > 1 \/ n = 1
    BY UnitsAre DEF At
  <2> QED
    BY <1>6, <1>7, <2>1

LEMMA After ==
  ASSUME NEW codec, Muxed(codec), NEW k \in 1 .. Len(stream), NEW n \in 1 .. Count(k),
         NEW i \in k + 1 .. Len(stream) + 1
  PROVE  Ends(k, n) <= Starts(i) /\ Starts(i) \in Nat
<1>1. Ends(k, n) \in Nat
  BY PacketShape
<1>2. Ends(k, n) <= Starts(k + 1)
  BY BasesGrow
<1>3. k + 1 \in 1 .. Len(stream) + 1
  BY DEF Muxed
<1>4. Starts(k + 1) \in Nat /\ Starts(i) \in Nat /\ Starts(k + 1) <= Starts(i)
  BY <1>3, StartsGrow
<1> QED
  BY <1>1, <1>2, <1>4

(* A unit that is open began before the next packet, after the joint.      *)
LEMMA OpenedIs ==
  ASSUME NEW codec, Muxed(codec), NEW k, NEW n, At(k, n), Opened(k, n), join \in Nat
  PROVE  /\ Cur(k, n) \in 1 .. Len(stream) /\ Prev(k, n) >= join
         /\ Ends(Cur(k, n), 1) <= Base(k, n)
<1> DEFINE c == Cur(k, n)
<1>1. Len(stream) \in Nat /\ (k \in 1 .. Len(stream) => Count(k) \in Nat)
  BY UnitsAre DEF Muxed
<1>2. c \in 1 .. Len(stream) /\ (c < k \/ (c = k /\ n > 1))
  BY <1>1 DEF At, Opened, Cur
<1>3. Pes(c, 1) >= join
  BY DEF Opened
<1> HIDE DEF c
<1>4. Pes(c, 1) <= Prev(k, n) /\ Ends(c, 1) <= Base(k, n) /\ Pes(c, 1) \in Nat /\ Prev(k, n) \in Nat
  BY <1>2, Before
<1>5. Prev(k, n) >= join
  BY <1>3, <1>4
<1> QED
  BY <1>2, <1>4, <1>5 DEF c

(* The stream maps that lie ahead.                                         *)
LEMMA MapsAhead ==
  ASSUME NEW codec, Muxed(codec), NEW p, NEW k, NEW n, NEW g, Near(p, k, n, g), join \in Nat,
         NEW i \in 1 .. Len(stream), Marked(stream[i], 1),
         join <= Starts(i) + 29, p <= Starts(i) + 29
  PROVE  /\ k \in 1 .. Len(stream) /\ n \in 1 .. Count(k) /\ Starts(i) \in Nat
         /\ CodeAt(wire, Starts(i) + 29)
         /\ \/ i = k /\ n = 1 /\ Starts(i) + 29 = Base(k, n) + 29
            \/ Ends(k, n) <= Starts(i)
<1>1. Len(stream) \in Nat /\ Count(i) \in Nat \ {0} /\ 1 \in 1 .. Count(i)
  BY UnitsAre DEF Muxed
<1>2. At(k, n) /\ p \in Nat
  BY DEF Near
<1>3. Base(i, 1) = Starts(i) /\ Carries(wire, Base(i, 1), stream[i], 1) /\ Base(i, 1) \in Nat
  BY <1>1, PacketsAre
<1>4. StartsWith(wire, Starts(i) + 29, Map)
  BY <1>3 DEF Carries, MapBytes
<1>5. CodeAt(wire, Starts(i) + 29)
  BY <1>4 DEF StartsWith, CodeAt
<1>6. ASSUME i < k \/ (i = k /\ n > 1) PROVE FALSE
  <2>1. /\ Pes(i, 1) <= Prev(k, n) /\ Ends(i, 1) <= Base(k, n)
        /\ Pes(i, 1) \in Nat /\ Ends(i, 1) \in Nat /\ Prev(k, n) \in Nat /\ Base(k, n) \in Nat
        /\ Pes(i, 1) + 15 <= Ends(i, 1)
        /\ Pes(i, 1) = Starts(i) + 49 /\ Starts(i) \in Nat
    BY <1>2, <1>6, Before
  <2>2. Prev(k, n) >= join
    BY <2>1
  <2>3. Base(k, n) <= p + 3
    BY <2>2 DEF Near
  <2> QED
    BY <1>2, <2>1, <2>3, SMTT(40)
<1>7. k \in 1 .. i /\ (i = k => n = 1)
  BY <1>1, <1>2, <1>6 DEF At
<1>8. k \in 1 .. Len(stream) /\ n \in 1 .. Count(k)
  BY <1>1, <1>2, <1>7 DEF At
<1>9. CASE i = k
  BY <1>3, <1>5, <1>7, <1>8, <1>9
<1>10. CASE i # k
  <2>1. i \in k + 1 .. Len(stream) + 1
    BY <1>1, <1>7, <1>10
  <2>2. Ends(k, n) <= Starts(i)
    BY <1>8, <2>1, After
  <2> QED
    BY <1>3, <1>5, <1>8, <2>2
<1> QED
  BY <1>9, <1>10

(* The first start code in sight.                                          *)
LEMMA FirstCode ==
  ASSUME NEW codec, Muxed(codec), join \in Joins,
         NEW p, NEW k, NEW n, NEW g \in Nat, Near(p, k, n, g), g <= Len(wire),
         NEW s \in Nat, p <= s, s + 3 <= g, CodeAt(wire, s),
         \A t \in p .. s - 1 : ~CodeAt(wire, t)
  PROVE  \/ s + 3 <= Base(k, n) /\ Base(k, n) \in Nat /\ (s + 3 < Len(wire) => wire[s + 4] \in 0 .. 127)
         \/ /\ k \in 1 .. Len(stream) /\ n \in 1 .. Count(k)
            /\ \/ s = Base(k, n)
               \/ Marked(stream[k], n) /\ s \in {Base(k, n) + 14, Base(k, n) + 29}
               \/ s = Pes(k, n)
<1>1. At(k, n) /\ p \in Nat /\ join <= p /\ join \in Nat /\ Len(wire) \in Nat
  BY StreamAssumption, StartsAre DEF Near
<1>2. CASE k \in 1 .. Len(stream) /\ n \in 1 .. Count(k) /\ s >= Base(k, n)
  <2>1. /\ Base(k, n) \in Nat /\ Pes(k, n) \in Nat
        /\ Carries(wire, Base(k, n), stream[k], n)
    BY <1>2, PacketShape, PacketsAre
  <2>2. CodeAt(wire, Pes(k, n))
    <3>1. StartsWith(wire, Pes(k, n), Video)
      BY <2>1 DEF Carries, PesBytes, Pes
    <3> QED
      BY <3>1 DEF StartsWith, CodeAt
  <2>3. p <= Pes(k, n)
    BY <1>1, <1>2 DEF Near, Limit
  <2>4. s <= Pes(k, n)
    BY <1>1, <2>1, <2>2, <2>3
  <2>5. CASE s < Pes(k, n)
    <3>1. s < Base(k, n) + Off(stream[k], n)
      BY <2>5 DEF Pes
    <3>2. s = Base(k, n) \/ (Marked(stream[k], n) /\ s \in {Base(k, n) + 14, Base(k, n) + 29})
      BY <1>2, <2>1, <3>1, HeaderCodes
    <3> QED
      BY <1>2, <3>2
  <2> QED
    BY <1>2, <2>1, <2>4, <2>5
<1>3. CASE ~(k \in 1 .. Len(stream) /\ n \in 1 .. Count(k) /\ s >= Base(k, n))
  <2>1. ~(k = 1 /\ n = 1)
    <3>1. ASSUME k = 1, n = 1 PROVE FALSE
      <4>1. 1 \in 1 .. Len(stream) /\ Base(1, 1) = 0
        BY StartsAre DEF Muxed, Base
      <4>2. 1 \in 1 .. Count(1)
        BY <4>1, UnitsAre
      <4> QED
        BY <1>3, <3>1, <4>1, <4>2
    <3> QED
      BY <3>1
  <2>2. PICK i \in 1 .. Len(stream) :
          \E m \in 1 .. Count(i) : Prev(k, n) = Pes(i, m) /\ Base(k, n) = Ends(i, m)
    BY <1>1, <2>1, PrevIs
  <2>10. PICK m \in 1 .. Count(i) : Prev(k, n) = Pes(i, m) /\ Base(k, n) = Ends(i, m)
    BY <2>2
  <2> DEFINE b == Base(k, n)
             q == Pes(i, m)
  <2>3. /\ Base(i, m) \in Nat /\ q \in Nat /\ b \in Nat /\ q + 10 <= b /\ b <= Len(wire)
        /\ Prev(k, n) = q /\ Base(k, n) = b
    BY <2>10, PacketShape
  <2>4. k \in 1 .. Len(stream) /\ n \in 1 .. Count(k) => StartsWith(wire, b, Pack)
    <3> SUFFICES ASSUME k \in 1 .. Len(stream), n \in 1 .. Count(k) PROVE StartsWith(wire, b, Pack)
      OBVIOUS
    <3>1. Carries(wire, Base(k, n), stream[k], n)
      BY PacketsAre
    <3> QED
      BY <3>1 DEF Carries
  <2>5. ~(k \in 1 .. Len(stream) /\ n \in 1 .. Count(k)) => b = Len(wire)
    <3> SUFFICES ASSUME ~(k \in 1 .. Len(stream) /\ n \in 1 .. Count(k)) PROVE b = Len(wire)
      OBVIOUS
    <3>1. k = Len(stream) + 1 /\ n = 1
      BY <1>1 DEF At
    <3> QED
      BY <2>3, <3>1, StartsAre DEF Base
  <2>6. q < s
    <3>1. CASE q >= join
      <4>1. b <= p + 3
        BY <2>3, <3>1 DEF Near
      <4> QED
        BY <1>1, <2>3, <4>1
    <3>2. CASE ~(q >= join)
      BY <1>1, <2>3, <3>2
    <3> QED
      BY <3>1, <3>2
  <2>7. s + 3 <= b
    <3>1. CASE k \in 1 .. Len(stream) /\ n \in 1 .. Count(k)
      <4>1. s < b
        BY <1>3, <2>3, <3>1
      <4>2. wire[b + 1] = 0 /\ wire[b + 2] = 0
        BY <2>4, <3>1 DEF StartsWith
      <4>3. wire[s + 3] = 1
        BY DEF CodeAt
      <4>4. s + 3 # b + 1 /\ s + 3 # b + 2
        BY <4>2, <4>3
      <4> HIDE DEF b
      <4> QED
        BY <2>3, <4>1, <4>4
    <3>2. CASE ~(k \in 1 .. Len(stream) /\ n \in 1 .. Count(k))
      BY <2>5, <3>2
    <3> QED
      BY <3>1, <3>2
  <2>8. s + 3 < Len(wire) => wire[s + 4] \in 0 .. 127
    <3>1. CASE s + 3 = b
      <4>1. CASE k \in 1 .. Len(stream) /\ n \in 1 .. Count(k)
        <5>1. wire[b + 1] = 0
          BY <2>4, <4>1 DEF StartsWith
        <5>2. s + 4 = b + 1
          BY <2>3, <3>1
        <5> QED
          BY <5>1, <5>2
      <4>2. CASE ~(k \in 1 .. Len(stream) /\ n \in 1 .. Count(k))
        BY <2>5, <3>1, <4>2
      <4> QED
        BY <4>1, <4>2
    <3>2. CASE s + 3 # b
      <4>1. s + 3 < b
        BY <2>3, <2>7, <3>2
      <4>2. ~(q >= join)
        <5>1. q >= join => b <= p + 3
          BY <2>3 DEF Near
        <5> QED
          BY <1>1, <2>3, <4>1, <5>1
      <4>3. join # 0
        BY <1>1, <2>3, <4>2
      <4>4. NalsOnly(<< 0, 0 >> \o Chunk(stream[i].data, m))
        <5>1. ~(Joins \subseteq {0})
          BY <4>3
        <5>2. \A j \in 1 .. Count(i) : NalsOnly(<< 0, 0 >> \o Chunk(stream[i].data, j))
          BY <5>1, UnitsAre
        <5> QED
          BY <2>2, <5>2
      <4>5. Chunk(stream[i].data, m) \in Seq(0 .. 255)
        BY <2>2, UnitsAre, ChunkIs DEF Count, IsAccessUnit
      <4>6. Carries(wire, Base(i, m), stream[i], m)
        BY <2>2, PacketsAre
      <4> DEFINE o == Base(i, m)
                 q0 == o + Off(stream[i], m) + Hdr(m)
                 e0 == q0 + Len(Chunk(stream[i].data, m))
      <4>7. e0 = b /\ q = o + Off(stream[i], m)
        BY <2>10 DEF Ends, Pes
      <4> HIDE DEF b, q, o
      <4>8. o \in Nat /\ o + Off(stream[i], m) < s /\ s + 3 <= e0 /\ s + 3 < e0
        BY <2>3, <2>6, <2>7, <4>1, <4>7 DEF o
      <4>9. Carries(wire, o, stream[i], m)
        BY <4>6 DEF o
      <4> HIDE DEF q0, e0
      <4>10. q0 = o + Off(stream[i], m) + Hdr(m) /\ e0 = q0 + Len(Chunk(stream[i].data, m))
        BY DEF q0, e0
      <4>12. /\ s >= q0 - 2
             /\ s + 3 < e0 => /\ wire[s + 4] \in 0 .. 255
                              /\ NalsOnly(<< 0, 0 >> \o Chunk(stream[i].data, m)) => wire[s + 4] < 128
        BY <4>5, <4>8, <4>9, <4>10, BodyCodes, ZenonT(60)
      <4>11. wire[s + 4] \in 0 .. 255 /\ wire[s + 4] < 128
        BY <4>4, <4>8, <4>12, Zenon
      <4>13. \A v : v \in 0 .. 255 /\ v < 128 => v \in 0 .. 127
        OBVIOUS
      <4> QED
        BY <4>11, <4>13, ZenonT(60)
    <3> QED
      BY <3>1, <3>2
  <2> QED
    BY <2>3, <2>7, <2>8
<1> QED
  BY <1>2, <1>3

-----------------------------------------------------------------------------
(* What the demuxer holds, and what a round leads to.                      *)

Demuxes == [buf : Seq(Int), cursor : Nat, au : Seq(Int), pts : Int, open : BOOLEAN,
            psm : {"none", "Avc", "Hevc"}]
Frames == [codec : Codecs, data : Seq(Int), pts : Int, key : BOOLEAN]

(* A frame is unit u; the frames handed out are the units before u, from   *)
(* the first one that began after the joint.                               *)
Matches(f, u) ==
  /\ f.data = stream[u].data /\ f.pts = Wrapped(stream[u].pts)
  /\ Labelled(u) => f.codec = stream[u].codec
                    /\ f.key = IsKeyframe(stream[u].codec, stream[u].data)
FirstUnit(j) == Pes(j, 1) >= join /\ (j > 1 => Pes(j - 1, 1) < join)
Handed(outs, j, u) ==
  j \in 1 .. u /\ FirstUnit(j) /\ Len(outs) = u - j /\ \A i \in 1 .. u - j : Matches(outs[i], j + i - 1)

(* What the demuxer holds when that packet is next: the beginning of the   *)
(* unit before.                                                            *)
Whole(k, n) == IF n = 1 THEN Count(k - 1) ELSE n - 1
UnitIs(x, k, n, outs) ==
  /\ outs \in Seq(Frames)
  /\ IF Opened(k, n)
     THEN /\ x.open
          /\ x.au = SubSeq(stream[Cur(k, n)].data, 1, Cut(stream[Cur(k, n)].data, Whole(k, n)))
          /\ x.pts = Wrapped(stream[Cur(k, n)].pts)
          /\ \E j \in 1 .. Len(stream) : Handed(outs, j, Cur(k, n))
     ELSE ~x.open /\ outs = << >>

(* Every map that went by was read.                                        *)
Labels(x, p, codec) ==
  /\ x.psm \in {"none", codec}
  /\ \A i \in 1 .. Len(stream) :
       Marked(stream[i], 1) /\ join <= Starts(i) + 29 /\ Starts(i) + 29 < p => x.psm = codec

(* The demuxer, whose buffer holds the bytes o + 1 .. g, is at pos.        *)
Reading(x, pos, k, n, outs, codec, o, g) ==
  /\ x \in Demuxes /\ o \in Nat /\ join <= o /\ g = o + Len(x.buf) /\ g <= Len(wire)
  /\ \A i \in 1 .. Len(x.buf) : x.buf[i] = wire[o + i]
  /\ pos \in 0 .. Len(x.buf)
  /\ Near(o + pos, k, n, g) /\ UnitIs(x, k, n, outs) /\ Labels(x, o + pos, codec)

(* What a round leads to, from pos: it gets further, waits for a packet's  *)
(* end, or hands out a frame.                                              *)
Beyond(k, n, g) == k \in 1 .. Len(stream) => g < Ends(k, n)
Further(a, b, pos, outs, codec, o, g) ==
  /\ a.status = "Scan" /\ a.frames = << >> /\ a.demux.buf = b /\ a.pos > pos
  /\ \E k, n : Reading(a.demux, a.pos, k, n, outs, codec, o, g)
Waiting(a, b, outs, codec, o, g) ==
  /\ a.status = "Again" /\ a.frames = << >> /\ a.demux.buf = b
  /\ \E k, n : Reading(a.demux, a.demux.cursor, k, n, outs, codec, o, g) /\ Beyond(k, n, g)
Handing(a, b, outs, codec, o, g) ==
  /\ a.status = "Ok" /\ a.frames \in Seq(Frames) /\ a.demux.buf = b
  /\ \E k, n : Reading(a.demux, a.demux.cursor, k, n, outs \o a.frames, codec, o, g)
Gives(a, b, pos, outs, codec, o, g) ==
  \/ Further(a, b, pos, outs, codec, o, g)
  \/ Waiting(a, b, outs, codec, o, g)
  \/ Handing(a, b, outs, codec, o, g)

LEMMA NearOn ==
  ASSUME NEW codec, Muxed(codec), NEW p, NEW k, NEW n, NEW g, join \in Nat, Near(p, k, n, g),
         NEW q \in Nat, p <= q, q <= Limit(k, n)
  PROVE  Near(q, k, n, g)
<1>1. At(k, n) /\ p \in Nat /\ join <= q
  BY DEF Near
<1>2. ASSUME Prev(k, n) >= join PROVE Base(k, n) <= g /\ Base(k, n) <= q + 3
  <2>1. Base(k, n) <= g /\ Base(k, n) <= p + 3
    BY <1>2 DEF Near
  <2>2. ~(k = 1 /\ n = 1)
    BY <1>2 DEF Prev
  <2>3. PICK i \in 1 .. Len(stream) : \E m \in 1 .. Count(i) : Base(k, n) = Ends(i, m)
    BY <1>1, <2>2, PrevIs
  <2>4. PICK m \in 1 .. Count(i) : Base(k, n) = Ends(i, m)
    BY <2>3
  <2>5. Base(k, n) \in Nat
    BY <2>4, PacketShape
  <2> QED
    BY <1>1, <2>1, <2>5
<1> QED
  BY <1>1, <1>2 DEF Near

LEMMA Skip ==
  ASSUME NEW codec, Muxed(codec), NEW x, NEW pos, NEW k, NEW n, NEW outs, NEW o, NEW g,
         join \in Nat, Reading(x, pos, k, n, outs, codec, o, g),
         NEW q \in Nat, pos <= q, q <= Len(x.buf), o + q <= Limit(k, n),
         \A t \in o + pos .. o + q - 1 : CodeAt(wire, t) => t < Base(k, n) + 29
  PROVE  Reading(x, q, k, n, outs, codec, o, g)
<1>1. /\ x \in Demuxes /\ o \in Nat /\ join <= o /\ g = o + Len(x.buf) /\ g <= Len(wire)
      /\ \A i \in 1 .. Len(x.buf) : x.buf[i] = wire[o + i]
      /\ pos \in 0 .. Len(x.buf)
      /\ Near(o + pos, k, n, g) /\ UnitIs(x, k, n, outs) /\ Labels(x, o + pos, codec)
  BY DEF Reading
<1>2. Len(x.buf) \in Nat
  <2>1. x.buf \in Seq(Int)
    BY <1>1 DEF Demuxes
  <2> QED
    BY <2>1, LenProperties
<1>3. Near(o + q, k, n, g)
  <2>1. o + q \in Nat /\ o + pos <= o + q
    BY <1>1, <1>2
  <2> QED
    BY <1>1, <2>1, NearOn
<1>4. Labels(x, o + q, codec)
  <2> SUFFICES ASSUME NEW i \in 1 .. Len(stream), Marked(stream[i], 1),
                      join <= Starts(i) + 29, Starts(i) + 29 < o + q
               PROVE  x.psm = codec
    BY <1>1 DEF Labels
  <2>1. CASE Starts(i) + 29 < o + pos
    BY <1>1, <2>1 DEF Labels
  <2>2. CASE ~(Starts(i) + 29 < o + pos)
    <3>1. Starts(i) \in Nat
      BY StartsAre
    <3>2. o + pos <= Starts(i) + 29
      BY <1>1, <2>2, <3>1
    <3>3. /\ k \in 1 .. Len(stream) /\ n \in 1 .. Count(k) /\ CodeAt(wire, Starts(i) + 29)
          /\ \/ i = k /\ n = 1 /\ Starts(i) + 29 = Base(k, n) + 29
             \/ Ends(k, n) <= Starts(i)
      BY <1>1, <3>2, MapsAhead
    <3>4. Starts(i) + 29 \in o + pos .. o + q - 1
      BY <1>1, <3>1, <3>2, SMTT(40)
    <3>5. Starts(i) + 29 < Base(k, n) + 29
      BY <3>3, <3>4
    <3>6. Base(k, n) \in Nat /\ Ends(k, n) \in Nat /\ Base(k, n) <= Ends(k, n)
      <4>1. /\ Base(k, n) \in Nat /\ Ends(k, n) \in Nat /\ Pes(k, n) \in Nat
            /\ Pes(k, n) = Base(k, n) + (IF Marked(stream[k], n) THEN 49 ELSE 14)
            /\ Pes(k, n) + 10 <= Ends(k, n)
        BY <3>3, PacketShape
      <4> QED
        BY <4>1
    <3> QED
      BY <3>1, <3>3, <3>5, <3>6
  <2> QED
    BY <2>1, <2>2
<1> QED
  BY <1>1, <1>2, <1>3, <1>4 DEF Reading

LEMMA OnGives ==
  ASSUME NEW codec, NEW x, NEW pos, NEW k, NEW n, NEW outs, NEW o, NEW g,
         NEW q, q > pos, Reading(x, q, k, n, outs, codec, o, g)
  PROVE  Gives(GoOn(x, q), x.buf, pos, outs, codec, o, g)
BY DEF Gives, Further, GoOn

(* A call that waits for more.                                             *)
LEMMA WaitGives ==
  ASSUME NEW codec, NEW x, NEW pos, NEW k, NEW n, NEW outs, NEW o, NEW g,
         NEW q, Reading(x, q, k, n, outs, codec, o, g), Beyond(k, n, g)
  PROVE  Gives(Wait(x, q), x.buf, pos, outs, codec, o, g)
<1> DEFINE y == [x EXCEPT !.cursor = q]
<1>1. /\ x \in Demuxes /\ o \in Nat /\ join <= o /\ g = o + Len(x.buf) /\ g <= Len(wire)
      /\ \A i \in 1 .. Len(x.buf) : x.buf[i] = wire[o + i]
      /\ q \in 0 .. Len(x.buf)
      /\ Near(o + q, k, n, g) /\ UnitIs(x, k, n, outs) /\ Labels(x, o + q, codec)
  BY DEF Reading
<1>2. y \in Demuxes /\ y.buf = x.buf /\ y.cursor = q /\ y.au = x.au /\ y.pts = x.pts
      /\ y.open = x.open /\ y.psm = x.psm
  <2>1. x.buf \in Seq(Int)
    BY <1>1 DEF Demuxes
  <2>2. q \in Nat
    BY <1>1, <2>1, LenProperties
  <2> QED
    BY <1>1, <2>2 DEF Demuxes
<1>3. Wait(x, q) = Answer(y, "Again", << >>)
  BY DEF Wait
<1> HIDE DEF y
<1>4. UnitIs(y, k, n, outs)
  BY <1>1, <1>2 DEF UnitIs
<1>5. Labels(y, o + q, codec)
  BY <1>1, <1>2 DEF Labels
<1>6. Reading(y, q, k, n, outs, codec, o, g)
  BY <1>1, <1>2, <1>4, <1>5 DEF Reading
<1> QED
  BY <1>2, <1>3, <1>6 DEF Gives, Waiting, Answer

(* What FindSc() finds in the buffer.                                      *)
LEMMA InSight ==
  ASSUME NEW codec, NEW x, NEW pos, NEW k, NEW n, NEW outs, NEW o, NEW g,
         Reading(x, pos, k, n, outs, codec, o, g)
  PROVE  /\ pos \in Nat /\ Len(x.buf) \in Nat /\ pos <= Len(x.buf) /\ o \in Nat
         /\ \A i : i \in FindSc(x.buf, pos)
                     <=> i \in Nat /\ pos <= i /\ i + 3 <= Len(x.buf) /\ CodeAt(wire, o + i)
         /\ FindSc(x.buf, pos) # {} =>
              /\ Smallest(FindSc(x.buf, pos)) \in FindSc(x.buf, pos)
              /\ \A i \in FindSc(x.buf, pos) : Smallest(FindSc(x.buf, pos)) <= i
<1>1. /\ x \in Demuxes /\ o \in Nat /\ pos \in 0 .. Len(x.buf)
      /\ \A i \in 1 .. Len(x.buf) : x.buf[i] = wire[o + i]
  BY DEF Reading
<1>2. Len(x.buf) \in Nat /\ pos \in Nat /\ pos <= Len(x.buf)
  <2>1. x.buf \in Seq(Int)
    BY <1>1 DEF Demuxes
  <2>2. Len(x.buf) \in Nat
    BY <2>1, LenProperties
  <2> QED
    BY <1>1, <2>2
<1>3. ASSUME NEW i \in Nat, i + 3 <= Len(x.buf)
      PROVE  /\ x.buf[i + 1] = wire[o + i + 1] /\ x.buf[i + 2] = wire[o + i + 2]
             /\ x.buf[i + 3] = wire[o + i + 3]
  <2>1. i + 1 \in 1 .. Len(x.buf) /\ i + 2 \in 1 .. Len(x.buf) /\ i + 3 \in 1 .. Len(x.buf)
    BY <1>2, <1>3
  <2>2. o + (i + 1) = o + i + 1 /\ o + (i + 2) = o + i + 2 /\ o + (i + 3) = o + i + 3
    BY <1>1
  <2>3. x.buf[i + 1] = wire[o + (i + 1)] /\ x.buf[i + 2] = wire[o + (i + 2)]
        /\ x.buf[i + 3] = wire[o + (i + 3)]
    BY <1>1, <2>1
  <2> QED
    BY <2>2, <2>3
<1>4. ASSUME NEW i
      PROVE  i \in FindSc(x.buf, pos)
               <=> i \in Nat /\ pos <= i /\ i + 3 <= Len(x.buf) /\ CodeAt(wire, o + i)
  <2>1. i \in pos .. Len(x.buf) - 3 <=> i \in Nat /\ pos <= i /\ i + 3 <= Len(x.buf)
    BY <1>2
  <2>2. i \in FindSc(x.buf, pos)
          <=> i \in pos .. Len(x.buf) - 3 /\ x.buf[i + 1] = 0 /\ x.buf[i + 2] = 0 /\ x.buf[i + 3] = 1
    BY DEF FindSc
  <2> QED
    BY <1>3, <2>1, <2>2 DEF CodeAt
<1>5. ASSUME FindSc(x.buf, pos) # {}
      PROVE  /\ Smallest(FindSc(x.buf, pos)) \in FindSc(x.buf, pos)
             /\ \A i \in FindSc(x.buf, pos) : Smallest(FindSc(x.buf, pos)) <= i
  <2> DEFINE T == FindSc(x.buf, pos)
  <2>1. T \subseteq Nat /\ T # {}
    BY <1>4, <1>5
  <2> HIDE DEF T
  <2>2. \E m \in T : \A j \in T : m <= j
    BY <2>1, LeastNumber
  <2>3. Smallest(T) \in T /\ \A j \in T : Smallest(T) <= j
    BY <2>2 DEF Smallest
  <2> QED
    BY <2>3 DEF T
<1> QED
  BY <1>1, <1>2, <1>4, <1>5

-----------------------------------------------------------------------------
(* The rounds of a call, by the start code that is next.                   *)

(* The first start code that the buffer holds from pos.                    *)
Sighted(pos, o, l, sc) ==
  /\ sc \in Nat /\ pos <= sc /\ sc + 3 <= l /\ CodeAt(wire, o + sc)
  /\ \A t \in o + pos .. o + sc - 1 : ~CodeAt(wire, t)

Long(x, l) == l = Len(x.buf)

(* A byte of the buffer is one of the wire.                                *)
LEMMA ByteIs ==
  ASSUME NEW codec, NEW x, NEW pos, NEW k, NEW n, NEW outs, NEW o, NEW g,
         Reading(x, pos, k, n, outs, codec, o, g), NEW l, Long(x, l),
         NEW sc \in Nat, NEW i \in Nat, i > 0, sc + i <= l
  PROVE  x.buf[sc + i] = wire[o + sc + i]
<1>1. l \in Nat /\ o \in Nat
  BY InSight DEF Long
<1>2. sc + i \in 1 .. l /\ o + (sc + i) = o + sc + i
  BY <1>1
<1> QED
  BY <1>2 DEF Reading, Long

LEMMA IdIs ==
  ASSUME NEW codec, NEW x, NEW pos, NEW k, NEW n, NEW outs, NEW o, NEW g,
         Reading(x, pos, k, n, outs, codec, o, g), NEW l, Long(x, l),
         NEW sc \in Nat, sc + 4 <= l
  PROVE  x.buf[sc + 4] = wire[o + sc + 4]
<1> DEFINE i == 4
<1>1. i \in Nat /\ i > 0 /\ sc + i <= l
  OBVIOUS
<1> HIDE DEF i
<1>2. x.buf[sc + i] = wire[o + sc + i]
  BY <1>1, ByteIs
<1> QED
  BY <1>2 DEF i

(* Where the demuxer is.                                                   *)
Ahead(k, n) ==
  /\ Limit(k, n) = Pes(k, n)
  /\ Base(k, n) \in Nat /\ Pes(k, n) \in Nat /\ Ends(k, n) \in Nat
  /\ Base(k, n) + 14 <= Pes(k, n) /\ Pes(k, n) + 10 <= Ends(k, n)
  /\ Ends(k, n) <= Len(wire)
  /\ Marked(stream[k], n) => Pes(k, n) = Base(k, n) + 49

LEMMA AheadIs ==
  ASSUME NEW codec, Muxed(codec), NEW k \in 1 .. Len(stream), NEW n \in 1 .. Count(k)
  PROVE  Ahead(k, n) /\ Carries(wire, Base(k, n), stream[k], n)
<1>1. /\ Base(k, n) \in Nat /\ Pes(k, n) \in Nat /\ Ends(k, n) \in Nat
      /\ Pes(k, n) = Base(k, n) + (IF Marked(stream[k], n) THEN 49 ELSE 14)
      /\ Pes(k, n) + 10 <= Ends(k, n) /\ Ends(k, n) <= Len(wire)
  BY PacketShape
<1>2. Carries(wire, Base(k, n), stream[k], n)
  BY PacketsAre
<1>3. Len(stream) \in Nat
  BY DEF Muxed
<1>4. Limit(k, n) = Pes(k, n)
  BY <1>3 DEF Limit
<1> QED
  BY <1>1, <1>2, <1>4 DEF Ahead

LEMMA ReadingIs ==
  ASSUME NEW codec, Muxed(codec), NEW x, NEW pos, NEW k, NEW n, NEW outs, NEW o, NEW g,
         Reading(x, pos, k, n, outs, codec, o, g), NEW l, Long(x, l)
  PROVE  /\ pos \in Nat /\ l \in Nat /\ pos <= l /\ o \in Nat
         /\ g = o + l /\ g \in Nat /\ g <= Len(wire) /\ Len(wire) \in Nat
         /\ At(k, n) /\ Near(o + pos, k, n, g) /\ o + pos <= Limit(k, n)
<1>1. pos \in Nat /\ l \in Nat /\ pos <= l /\ o \in Nat
  BY InSight DEF Long
<1>2. g = o + l /\ g <= Len(wire) /\ At(k, n) /\ Near(o + pos, k, n, g) /\ o + pos <= Limit(k, n)
  BY DEF Reading, Near, Long
<1>3. Len(wire) \in Nat /\ g \in Nat
  BY <1>1, <1>2, StartsAre
<1> QED
  BY <1>1, <1>2, <1>3

LEMMA EndIs ==
  ASSUME NEW codec, Muxed(codec), NEW k, NEW n, At(k, n),
         ~(k \in 1 .. Len(stream) /\ n \in 1 .. Count(k))
  PROVE  k = Len(stream) + 1 /\ n = 1 /\ Limit(k, n) = Len(wire) /\ Base(k, n) = Len(wire)
<1>1. k = Len(stream) + 1 /\ n = 1 /\ Len(stream) \in Nat
  BY DEF At, Muxed
<1>2. Limit(k, n) = Len(wire)
  BY <1>1 DEF Limit
<1>3. Base(k, n) = Len(wire)
  BY <1>1, StartsAre DEF Base
<1> QED
  BY <1>1, <1>2, <1>3

(* A round that waits at q, or goes on there, past no stream map.          *)
LEMMA WaitAt ==
  ASSUME NEW codec, Muxed(codec), NEW x, NEW pos, NEW k, NEW n, NEW outs, NEW o, NEW g,
         join \in Nat, Reading(x, pos, k, n, outs, codec, o, g), NEW l, Long(x, l),
         NEW sc, Sighted(pos, o, l, sc), o + sc <= Limit(k, n), Beyond(k, n, g)
  PROVE  Gives(Wait(x, sc), x.buf, pos, outs, codec, o, g)
<1>1. pos \in Nat /\ l \in Nat /\ o \in Nat
  BY InSight DEF Long
<1>2. sc \in Nat /\ pos <= sc /\ sc <= l
  BY <1>1 DEF Sighted
<1>3. \A t \in o + pos .. o + sc - 1 : CodeAt(wire, t) => t < Base(k, n) + 29
  BY DEF Sighted
<1>4. Reading(x, sc, k, n, outs, codec, o, g)
  BY <1>1, <1>2, <1>3, Skip DEF Long
<1> QED
  BY <1>4, WaitGives

LEMMA GoOnAt ==
  ASSUME NEW codec, Muxed(codec), NEW x, NEW pos, NEW k, NEW n, NEW outs, NEW o, NEW g,
         join \in Nat, Reading(x, pos, k, n, outs, codec, o, g), NEW l, Long(x, l),
         NEW q \in Nat, pos < q, q <= l, o + q <= Limit(k, n),
         o + q <= Base(k, n) + 29, Base(k, n) \in Nat
  PROVE  Gives(GoOn(x, q), x.buf, pos, outs, codec, o, g)
<1>1. pos \in Nat /\ l \in Nat /\ o \in Nat
  BY InSight DEF Long
<1>2. pos <= q
  BY <1>1
<1>3. \A t \in o + pos .. o + q - 1 : CodeAt(wire, t) => t < Base(k, n) + 29
  BY <1>1
<1>4. Reading(x, q, k, n, outs, codec, o, g)
  BY <1>1, <1>2, <1>3, Skip DEF Long
<1> QED
  BY <1>4, OnGives

(* The cases of AtCode().                                                  *)
LEMMA StrayGives ==
  ASSUME NEW codec, Muxed(codec), NEW x, NEW pos, NEW k, NEW n, NEW outs, NEW o, NEW g,
         join \in Nat, Reading(x, pos, k, n, outs, codec, o, g), NEW l, Long(x, l),
         NEW sc, Sighted(pos, o, l, sc),
         o + sc + 3 <= Base(k, n), Base(k, n) \in Nat,
         o + sc + 3 < Len(wire) => wire[o + sc + 4] \in 0 .. 127
  PROVE  Gives(AtCode(x, sc), x.buf, pos, outs, codec, o, g)
<1>1. /\ pos \in Nat /\ l \in Nat /\ o \in Nat /\ g = o + l /\ g <= Len(wire)
      /\ Len(wire) \in Nat /\ sc \in Nat /\ pos <= sc /\ sc + 3 <= l
  BY ReadingIs DEF Sighted
<1>2. Base(k, n) <= Limit(k, n) /\ Limit(k, n) \in Nat /\ (Base(k, n) + 1 <= Limit(k, n) \/ Limit(k, n) = Len(wire))
  <2>1. CASE k \in 1 .. Len(stream) /\ n \in 1 .. Count(k)
    <3>1. /\ Limit(k, n) = Pes(k, n) /\ Base(k, n) \in Nat /\ Pes(k, n) \in Nat
          /\ Base(k, n) + 14 <= Pes(k, n)
      BY <2>1, AheadIs DEF Ahead
    <3> QED
      BY <3>1
  <2>2. CASE ~(k \in 1 .. Len(stream) /\ n \in 1 .. Count(k))
    <3>1. Limit(k, n) = Len(wire) /\ Base(k, n) = Len(wire)
      BY <2>2, ReadingIs, EndIs
    <3> QED
      BY <1>1, <3>1
  <2> QED
    BY <2>1, <2>2
<1>3. CASE sc + 4 > l
  <2>1. o + sc <= Limit(k, n)
    BY <1>1, <1>2
  <2>2. Beyond(k, n, g)
    <3> SUFFICES ASSUME k \in 1 .. Len(stream) PROVE g < Ends(k, n)
      BY DEF Beyond
    <3>1. n \in 1 .. Count(k)
      <4>1. At(k, n)
        BY ReadingIs
      <4>2. k # Len(stream) + 1
        BY DEF Muxed
      <4> QED
        BY <4>1, <4>2 DEF At
    <3>2. /\ Pes(k, n) \in Nat /\ Ends(k, n) \in Nat
          /\ Base(k, n) + 14 <= Pes(k, n) /\ Pes(k, n) + 10 <= Ends(k, n)
      BY <3>1, AheadIs DEF Ahead
    <3> QED
      BY <1>1, <1>3, <3>2
  <2>3. AtCode(x, sc) = Wait(x, sc)
    BY <1>3 DEF AtCode, Long
  <2> QED
    BY <2>1, <2>2, <2>3, WaitAt
<1>4. CASE ~(sc + 4 > l)
  <2>0. sc + 4 <= l /\ sc \in Nat
    BY <1>1, <1>4
  <2>1. x.buf[sc + 4] = wire[o + sc + 4]
    BY <2>0, IdIs
  <2>2. wire[o + sc + 4] \in 0 .. 127
    BY <1>1, <1>4
  <2> DEFINE id == x.buf[sc + 4]
  <2>5. id \in 0 .. 127
    BY <2>1, <2>2
  <2> HIDE DEF id
  <2>6. id # Pack /\ id \notin {System, Map} /\ id \notin 189 .. 239
    BY <2>5 DEF Pack, System, Map
  <2>3. AtCode(x, sc) = GoOn(x, sc + 4)
    BY <1>4, <2>6 DEF AtCode, Long, id
  <2> DEFINE q == sc + 4
  <2>4. /\ q \in Nat /\ pos < q /\ q <= l /\ o + q <= Base(k, n) + 29
        /\ o + q <= Limit(k, n)
    BY <1>1, <1>2, <1>4
  <2> HIDE DEF q
  <2>7. Gives(GoOn(x, q), x.buf, pos, outs, codec, o, g)
    BY <2>4, GoOnAt
  <2> QED
    BY <2>3, <2>7 DEF q
<1> QED
  BY <1>3, <1>4

(* At a code of the next packet that the buffer does not hold whole.       *)
LEMMA ShortGives ==
  ASSUME NEW codec, Muxed(codec), NEW x, NEW pos, NEW k, NEW n, NEW outs, NEW o, NEW g,
         join \in Nat, Reading(x, pos, k, n, outs, codec, o, g), NEW l, Long(x, l),
         k \in 1 .. Len(stream), n \in 1 .. Count(k),
         NEW sc, Sighted(pos, o, l, sc), o + sc <= Pes(k, n), g < Ends(k, n)
  PROVE  Gives(Wait(x, sc), x.buf, pos, outs, codec, o, g)
<1>1. Beyond(k, n, g)
  BY DEF Beyond
<1>2. o + sc <= Limit(k, n)
  BY AheadIs DEF Ahead
<1> QED
  BY <1>1, <1>2, WaitAt

LEMMA PackGives ==
  ASSUME NEW codec, Muxed(codec), NEW x, NEW pos, NEW k, NEW n, NEW outs, NEW o, NEW g,
         join \in Nat, Reading(x, pos, k, n, outs, codec, o, g), NEW l, Long(x, l),
         k \in 1 .. Len(stream), n \in 1 .. Count(k),
         NEW sc, Sighted(pos, o, l, sc), o + sc = Base(k, n)
  PROVE  Gives(AtCode(x, sc), x.buf, pos, outs, codec, o, g)
<1>1. /\ pos \in Nat /\ l \in Nat /\ o \in Nat /\ g = o + l /\ g <= Len(wire)
      /\ Len(wire) \in Nat /\ sc \in Nat /\ pos <= sc /\ sc + 3 <= l
  BY ReadingIs DEF Sighted
<1>4. Ahead(k, n) /\ Carries(wire, Base(k, n), stream[k], n)
  BY AheadIs
<1>5. /\ Limit(k, n) = Pes(k, n)
      /\ Base(k, n) \in Nat /\ Pes(k, n) \in Nat /\ Ends(k, n) \in Nat
      /\ Base(k, n) + 14 <= Pes(k, n) /\ Pes(k, n) + 10 <= Ends(k, n)
  BY <1>4 DEF Ahead
<1>6. wire[o + sc + 4] = Pack
  BY <1>4 DEF Carries, StartsWith
<1>2. CASE sc + 14 > l
  <2>1. AtCode(x, sc) = Wait(x, sc)
    <3>1. CASE sc + 4 > l
      BY <3>1 DEF AtCode, Long
    <3>2. CASE ~(sc + 4 > l)
      <4>0. sc + 4 <= l /\ sc \in Nat
        BY <1>1, <3>2
      <4>1. x.buf[sc + 4] = wire[o + sc + 4]
        BY <4>0, IdIs
      <4> QED
        BY <1>2, <1>6, <3>2, <4>1 DEF AtCode, AtPack, Long
    <3> QED
      BY <3>1, <3>2
  <2>2. g < Ends(k, n) /\ o + sc <= Pes(k, n)
    BY <1>1, <1>2, <1>5, SMTT(40)
  <2> QED
    BY <2>1, <2>2, ShortGives
<1>3. CASE ~(sc + 14 > l)
  <2>0. sc + 4 <= l /\ sc \in Nat /\ ~(sc + 4 > l)
    BY <1>1, <1>3
  <2>1. x.buf[sc + 4] = wire[o + sc + 4] /\ ~(sc + 4 > l)
    BY <2>0, IdIs
  <2>3. AtCode(x, sc) = GoOn(x, sc + 14)
    BY <1>3, <1>6, <2>1 DEF AtCode, AtPack, Long
  <2> DEFINE q == sc + 14
  <2>4. /\ q \in Nat /\ pos < q /\ q <= l /\ o + q <= Base(k, n) + 29
        /\ o + q <= Limit(k, n)
    BY <1>1, <1>3, <1>5, SMTT(40)
  <2> HIDE DEF q
  <2>5. Gives(GoOn(x, q), x.buf, pos, outs, codec, o, g)
    BY <1>5, <2>4, GoOnAt
  <2> QED
    BY <2>3, <2>5 DEF q
<1> QED
  BY <1>2, <1>3

(* The length field of a packet.                                           *)
LEMMA HeadIs ==
  ASSUME NEW codec, NEW x, NEW pos, NEW k, NEW n, NEW outs, NEW o, NEW g,
         Reading(x, pos, k, n, outs, codec, o, g), NEW l, Long(x, l),
         NEW sc \in Nat, sc + 6 <= l
  PROVE  U16(x.buf, sc + 4) = 256 * wire[o + sc + 5] + wire[o + sc + 6]
<1> DEFINE B(i) == sc + i <= l => x.buf[sc + i] = wire[o + sc + i]
<1>1. ASSUME NEW i \in Nat, i > 0 PROVE B(i)
  BY <1>1, ByteIs
<1> HIDE DEF B
<1>2. B(5) /\ B(6)
  BY <1>1
<1>3. l \in Nat
  BY InSight DEF Long
<1>4. sc + 5 <= l
  BY <1>3
<1>5. x.buf[sc + 5] = wire[o + sc + 5] /\ x.buf[sc + 6] = wire[o + sc + 6]
  BY <1>2, <1>4 DEF B
<1>6. sc + 4 + 1 = sc + 5 /\ sc + 4 + 2 = sc + 6
  OBVIOUS
<1> QED
  BY <1>5, <1>6 DEF U16

(* A system header or a stream map of that length.                         *)
Passed(x, sc, id, len, l) ==
  LET end == sc + 6 + len
  IN /\ end > l => AtCode(x, sc) = Wait(x, sc)
     /\ end <= l => AtCode(x, sc) = GoOn(IF id = Map THEN ReadMap(x, x.buf, sc, end) ELSE x, end)

LEMMA HeaderAt ==
  ASSUME NEW codec, Muxed(codec), NEW x, NEW pos, NEW k, NEW n, NEW outs, NEW o, NEW g,
         Reading(x, pos, k, n, outs, codec, o, g), NEW l, Long(x, l),
         NEW sc \in Nat, NEW len \in Nat, NEW id \in {System, Map}, wire[o + sc + 4] = id,
         256 * wire[o + sc + 5] + wire[o + sc + 6] = len
  PROVE  Passed(x, sc, id, len, l)
<1>1. l \in Nat
  BY InSight DEF Long
<1>2. Len(x.buf) = l
  BY DEF Long
<1>3. CASE sc + 4 > l
  <2>1. AtCode(x, sc) = Wait(x, sc)
    BY <1>2, <1>3 DEF AtCode
  <2>2. ~(sc + 6 + len <= l)
    BY <1>1, <1>3
  <2> QED
    BY <2>1, <2>2 DEF Passed
<1>4. CASE ~(sc + 4 > l)
  <2>1. sc + 4 <= l
    BY <1>1, <1>4
  <2>2. x.buf[sc + 4] = id
    BY <2>1, IdIs
  <2>3. id # Pack /\ id \in {System, Map}
    BY DEF Pack, System, Map
  <2>4. AtCode(x, sc) = AtHeader(x, sc)
    BY <1>2, <1>4, <2>2, <2>3 DEF AtCode
  <2>5. CASE sc + 6 > l
    <3>1. AtHeader(x, sc) = Wait(x, sc)
      BY <1>2, <2>5 DEF AtHeader
    <3>2. ~(sc + 6 + len <= l)
      BY <1>1, <2>5
    <3> QED
      BY <2>4, <3>1, <3>2 DEF Passed
  <2>6. CASE ~(sc + 6 > l)
    <3>1. sc + 6 <= l
      BY <1>1, <2>6
    <3>2. U16(x.buf, sc + 4) = len
      BY <3>1, HeadIs
    <3> DEFINE end == sc + 6 + len
    <3>3. AtHeader(x, sc) = IF sc + 6 > l \/ end > l THEN Wait(x, sc)
                            ELSE GoOn(IF x.buf[sc + 4] = Map THEN ReadMap(x, x.buf, sc, end) ELSE x, end)
      BY <1>2, <3>2 DEF AtHeader
    <3>4. AtHeader(x, sc) = IF sc + 6 > l \/ end > l THEN Wait(x, sc)
                            ELSE GoOn(IF id = Map THEN ReadMap(x, x.buf, sc, end) ELSE x, end)
      BY <2>2, <3>3
    <3>5. end \in Nat
      OBVIOUS
    <3> HIDE DEF end
    <3>6. end > l => AtCode(x, sc) = Wait(x, sc)
      BY <2>4, <3>4
    <3>7. end <= l => AtCode(x, sc) = GoOn(IF id = Map THEN ReadMap(x, x.buf, sc, end) ELSE x, end)
      BY <1>1, <2>4, <2>6, <3>4, <3>5
    <3> QED
      BY <3>6, <3>7 DEF end, Passed
  <2> QED
    BY <2>5, <2>6
<1> QED
  BY <1>3, <1>4

LEMMA SystemGives ==
  ASSUME NEW codec, Muxed(codec), NEW x, NEW pos, NEW k, NEW n, NEW outs, NEW o, NEW g,
         join \in Nat, Reading(x, pos, k, n, outs, codec, o, g), NEW l, Long(x, l),
         k \in 1 .. Len(stream), n \in 1 .. Count(k), Marked(stream[k], n),
         NEW sc, Sighted(pos, o, l, sc), o + sc = Base(k, n) + 14
  PROVE  Gives(AtCode(x, sc), x.buf, pos, outs, codec, o, g)
<1>1. /\ pos \in Nat /\ l \in Nat /\ o \in Nat /\ g = o + l /\ g <= Len(wire)
      /\ Len(wire) \in Nat /\ sc \in Nat /\ pos <= sc /\ sc + 3 <= l
  BY ReadingIs DEF Sighted, Long
<1>2. Ahead(k, n) /\ Carries(wire, Base(k, n), stream[k], n)
  BY AheadIs
<1>3. /\ Limit(k, n) = Pes(k, n)
      /\ Base(k, n) \in Nat /\ Pes(k, n) \in Nat /\ Ends(k, n) \in Nat
      /\ Base(k, n) + 49 = Pes(k, n) /\ Pes(k, n) + 10 <= Ends(k, n)
  BY <1>2 DEF Ahead
<1>4. wire[o + sc + 4] = System
  BY <1>2 DEF Carries, StartsWith
<1>5. wire[o + sc + 5] = 0 /\ wire[o + sc + 6] = 9
  <2>1. wire[Base(k, n) + 19] = 0 /\ wire[Base(k, n) + 20] = 9
    BY <1>2 DEF Carries
  <2>3. \A a, b \in Nat : a = b + 14 => b + 19 = a + 5 /\ b + 20 = a + 6
    OBVIOUS
  <2>4. o + sc \in Nat
    BY <1>1
  <2>2. Base(k, n) + 19 = o + sc + 5 /\ Base(k, n) + 20 = o + sc + 6
    BY <1>3, <2>3, <2>4
  <2> QED
    BY <2>1, <2>2
<1>6. 256 * wire[o + sc + 5] + wire[o + sc + 6] = 9
  BY <1>5
<1>7. /\ sc + 6 + 9 > l => AtCode(x, sc) = Wait(x, sc)
      /\ sc + 6 + 9 <= l => AtCode(x, sc) = GoOn(x, sc + 6 + 9)
  <2> DEFINE len == 9
             id  == System
  <2>1. len \in Nat /\ id \in {System, Map} /\ id # Map /\ wire[o + sc + 4] = id
        /\ 256 * wire[o + sc + 5] + wire[o + sc + 6] = len
    BY <1>4, <1>6 DEF System, Map
  <2> HIDE DEF len, id
  <2>2. sc \in Nat
    BY <1>1
  <2>3. Passed(x, sc, id, len, l)
    BY <2>1, <2>2, HeaderAt
  <2> QED
    BY <2>1, <2>3 DEF len, Passed
<1> DEFINE q == sc + 6 + 9
<1>8. CASE q > l
  <2>1. g < Ends(k, n) /\ o + sc <= Pes(k, n)
    BY <1>1, <1>3, <1>8, SMTT(40)
  <2> QED
    BY <1>7, <1>8, <2>1, ShortGives
<1>9. CASE ~(q > l)
  <2>4. q \in Nat /\ pos < q /\ q <= l
    BY <1>1, <1>9
  <2>5. \A a, b, c \in Nat : a + b = c + 14 => a + (b + 6 + 9) = c + 29
    OBVIOUS
  <2>6. o + q = Base(k, n) + 29
    <3>1. o \in Nat /\ sc \in Nat /\ Base(k, n) \in Nat
      BY <1>1, <1>3
    <3> QED
      BY <2>5, <3>1
  <2>2. AtCode(x, sc) = GoOn(x, q)
    BY <1>7, <2>4
  <2> HIDE DEF q
  <2>1. o + q <= Base(k, n) + 29 /\ o + q <= Limit(k, n)
    BY <1>3, <2>6
  <2>3. Gives(GoOn(x, q), x.buf, pos, outs, codec, o, g)
    BY <1>3, <2>1, <2>4, GoOnAt
  <2> QED
    BY <2>2, <2>3
<1> QED
  BY <1>8, <1>9

(* Past a stream map the codec is known.                                   *)
LEMMA Relabelled ==
  ASSUME NEW codec \in Codecs, Muxed(codec), NEW x, NEW pos, NEW k, NEW n, NEW outs, NEW o, NEW g,
         join \in Nat, Reading(x, pos, k, n, outs, codec, o, g),
         NEW q \in Nat, pos < q, q <= Len(x.buf), o + q <= Limit(k, n)
  PROVE  Gives(GoOn([x EXCEPT !.psm = codec], q), x.buf, pos, outs, codec, o, g)
<1> DEFINE y == [x EXCEPT !.psm = codec]
<1>1. /\ x \in Demuxes /\ o \in Nat /\ join <= o /\ g = o + Len(x.buf) /\ g <= Len(wire)
      /\ \A i \in 1 .. Len(x.buf) : x.buf[i] = wire[o + i]
      /\ pos \in 0 .. Len(x.buf)
      /\ Near(o + pos, k, n, g) /\ UnitIs(x, k, n, outs) /\ Labels(x, o + pos, codec)
  BY DEF Reading
<1>2. pos \in Nat /\ Len(x.buf) \in Nat
  BY InSight
<1>3. codec \in {"none", "Avc", "Hevc"}
  BY DEF Codecs
<1>4. y \in Demuxes /\ y.buf = x.buf /\ y.au = x.au /\ y.pts = x.pts
      /\ y.open = x.open /\ y.psm = codec
  BY <1>1, <1>3 DEF Demuxes
<1> HIDE DEF y
<1>5. Near(o + q, k, n, g)
  <2>1. o + q \in Nat /\ o + pos <= o + q
    BY <1>1, <1>2
  <2> QED
    BY <1>1, <2>1, NearOn
<1>6. UnitIs(y, k, n, outs)
  BY <1>1, <1>4 DEF UnitIs
<1>7. Labels(y, o + q, codec)
  BY <1>4 DEF Labels
<1>8. q \in 0 .. Len(y.buf)
  BY <1>2, <1>4
<1>9. Reading(y, q, k, n, outs, codec, o, g)
  BY <1>1, <1>4, <1>5, <1>6, <1>7, <1>8 DEF Reading
<1>10. Gives(GoOn(y, q), y.buf, pos, outs, codec, o, g)
  BY <1>9, OnGives
<1> QED
  BY <1>4, <1>10 DEF y

LEMMA MapWords ==
  ASSUME NEW codec, NEW x, NEW pos, NEW k, NEW n, NEW outs, NEW o, NEW g,
         Reading(x, pos, k, n, outs, codec, o, g), NEW l, Long(x, l),
         NEW sc \in Nat, sc + 16 <= l, NEW c, MapBytes(wire, o + sc, c)
  PROVE  /\ U16(x.buf, sc + 8) = 0 /\ U16(x.buf, sc + 10) = 4 /\ U16(x.buf, sc + 14) = 0
         /\ x.buf[sc + 13] = StreamType(c) /\ x.buf[sc + 14] = Video
<1> DEFINE B(i) == sc + i <= l => x.buf[sc + i] = wire[o + sc + i]
<1>1. ASSUME NEW i \in Nat, i > 0 PROVE B(i)
  BY <1>1, ByteIs
<1> HIDE DEF B
<1>2. B(9) /\ B(10) /\ B(11) /\ B(12) /\ B(13) /\ B(14) /\ B(15) /\ B(16)
  BY <1>1
<1>3. l \in Nat
  BY InSight DEF Long
<1>4. /\ sc + 9 <= l /\ sc + 10 <= l /\ sc + 11 <= l /\ sc + 12 <= l /\ sc + 13 <= l
      /\ sc + 14 <= l /\ sc + 15 <= l
  BY <1>3
<1>5. /\ x.buf[sc + 9] = wire[o + sc + 9] /\ x.buf[sc + 10] = wire[o + sc + 10]
      /\ x.buf[sc + 11] = wire[o + sc + 11] /\ x.buf[sc + 12] = wire[o + sc + 12]
      /\ x.buf[sc + 13] = wire[o + sc + 13] /\ x.buf[sc + 14] = wire[o + sc + 14]
      /\ x.buf[sc + 15] = wire[o + sc + 15] /\ x.buf[sc + 16] = wire[o + sc + 16]
  BY <1>2, <1>4 DEF B
<1>6. /\ sc + 8 + 1 = sc + 9 /\ sc + 8 + 2 = sc + 10 /\ sc + 10 + 1 = sc + 11
      /\ sc + 10 + 2 = sc + 12 /\ sc + 14 + 1 = sc + 15 /\ sc + 14 + 2 = sc + 16
  OBVIOUS
<1>7. /\ wire[o + sc + 9] = 0 /\ wire[o + sc + 10] = 0
      /\ wire[o + sc + 11] = 0 /\ wire[o + sc + 12] = 4
      /\ wire[o + sc + 13] = StreamType(c) /\ wire[o + sc + 14] = Video
      /\ wire[o + sc + 15] = 0 /\ wire[o + sc + 16] = 0
  BY DEF MapBytes
<1>8. U16(x.buf, sc + 8) = 256 * 0 + 0
  BY <1>5, <1>6, <1>7 DEF U16
<1>9. U16(x.buf, sc + 10) = 256 * 0 + 4
  BY <1>5, <1>6, <1>7 DEF U16
<1>10. U16(x.buf, sc + 14) = 256 * 0 + 0
  BY <1>5, <1>6, <1>7 DEF U16
<1> QED
  BY <1>5, <1>7, <1>8, <1>9, <1>10

LEMMA MapGives ==
  ASSUME NEW codec, Muxed(codec), NEW x, NEW pos, NEW k, NEW n, NEW outs, NEW o, NEW g,
         join \in Nat, Reading(x, pos, k, n, outs, codec, o, g), NEW l, Long(x, l),
         k \in 1 .. Len(stream), n \in 1 .. Count(k), Marked(stream[k], n),
         NEW sc, Sighted(pos, o, l, sc), o + sc = Base(k, n) + 29
  PROVE  Gives(AtCode(x, sc), x.buf, pos, outs, codec, o, g)
<1>1. /\ pos \in Nat /\ l \in Nat /\ o \in Nat /\ g = o + l /\ g <= Len(wire)
      /\ Len(wire) \in Nat /\ sc \in Nat /\ pos <= sc /\ sc + 3 <= l
  BY ReadingIs DEF Sighted, Long
<1>2. Ahead(k, n) /\ Carries(wire, Base(k, n), stream[k], n) /\ stream[k].codec = codec
      /\ codec \in Codecs
  BY AheadIs DEF Muxed
<1>3. /\ Limit(k, n) = Pes(k, n)
      /\ Base(k, n) \in Nat /\ Pes(k, n) \in Nat /\ Ends(k, n) \in Nat
      /\ Base(k, n) + 49 = Pes(k, n) /\ Pes(k, n) + 10 <= Ends(k, n)
  BY <1>2 DEF Ahead
<1>4. MapBytes(wire, o + sc, codec)
  BY <1>2 DEF Carries
<1>5. wire[o + sc + 4] = Map /\ wire[o + sc + 5] = 0 /\ wire[o + sc + 6] = 14
  BY <1>4 DEF MapBytes, StartsWith
<1>6. 256 * wire[o + sc + 5] + wire[o + sc + 6] = 14
  BY <1>5
<1>7. /\ sc + 6 + 14 > l => AtCode(x, sc) = Wait(x, sc)
      /\ sc + 6 + 14 <= l => AtCode(x, sc) = GoOn(ReadMap(x, x.buf, sc, sc + 6 + 14), sc + 6 + 14)
  <2> DEFINE len == 14
             id  == Map
  <2>1. len \in Nat /\ id \in {System, Map} /\ id = Map /\ wire[o + sc + 4] = id
        /\ 256 * wire[o + sc + 5] + wire[o + sc + 6] = len
    BY <1>5, <1>6
  <2> HIDE DEF len, id
  <2>2. sc \in Nat
    BY <1>1
  <2>3. Passed(x, sc, id, len, l)
    BY <2>1, <2>2, HeaderAt
  <2> QED
    BY <2>1, <2>3 DEF len, Passed
<1> DEFINE end == sc + 6 + 14
<1>8. CASE end > l
  <2>1. g < Ends(k, n) /\ o + sc <= Pes(k, n)
    BY <1>1, <1>3, <1>8, SMTT(40)
  <2> QED
    BY <1>7, <1>8, <2>1, ShortGives
<1>9. CASE ~(end > l)
  <2>1. /\ end \in Nat /\ pos < end /\ end <= l /\ o + end <= Limit(k, n)
        /\ sc + 16 <= l /\ end = sc + 20
    BY <1>1, <1>3, <1>9, SMTT(40)
  <2>2. AtCode(x, sc) = GoOn(ReadMap(x, x.buf, sc, end), end)
    BY <1>7, <2>1
  <2>3. /\ U16(x.buf, sc + 8) = 0 /\ U16(x.buf, sc + 10) = 4 /\ U16(x.buf, sc + 14) = 0
        /\ x.buf[sc + 13] = StreamType(codec) /\ x.buf[sc + 14] = Video
    BY <1>1, <1>4, <2>1, MapWords, SMTT(40)
  <2> HIDE DEF end
  <2>4. MapCodec(x.buf, sc + 10 + 2, sc + 10 + 2 + 4, x.psm) = codec
    <3> DEFINE q == sc + 10 + 2
    <3>1. q \in Nat /\ q + 1 = sc + 13 /\ q + 2 = sc + 14
      BY <1>1
    <3> HIDE DEF q
    <3>2. x.buf[q + 1] = StreamType(codec) /\ x.buf[q + 2] = Video /\ U16(x.buf, q + 2) = 0
      BY <2>3, <3>1
    <3>3. MapCodec(x.buf, q, q + 4, x.psm) = codec
      BY <1>2, <3>1, <3>2, OneEntry
    <3> QED
      BY <3>3 DEF q
  <2>5. ReadMap(x, x.buf, sc, end) = [x EXCEPT !.psm = codec]
    <3>1. sc + 10 + (U16(x.buf, sc + 8) % 32768) = sc + 10
      BY <1>1, <2>3
    <3>2. end >= sc + 10 /\ sc + 10 + 2 <= end - 4 /\ sc + 10 + 2 + 4 <= end - 4
      BY <1>1, <2>1
    <3>3. MapCodec(x.buf, sc + 10 + 2, sc + 10 + 2 + U16(x.buf, sc + 10), x.psm) = codec
      BY <2>3, <2>4
    <3> QED
      BY <2>3, <3>1, <3>2, <3>3 DEF ReadMap
  <2>6. end <= Len(x.buf)
    BY <2>1 DEF Long
  <2>7. Gives(GoOn([x EXCEPT !.psm = codec], end), x.buf, pos, outs, codec, o, g)
    BY <1>2, <2>1, <2>6, Relabelled
  <2> QED
    BY <2>2, <2>5, <2>7
<1> QED
  BY <1>8, <1>9

(* The first bytes of a video packet.                                      *)
LEMMA PesWords ==
  ASSUME NEW codec, NEW x, NEW pos, NEW k, NEW n, NEW outs, NEW o, NEW g,
         Reading(x, pos, k, n, outs, codec, o, g), NEW l, Long(x, l),
         NEW sc \in Nat, sc + 9 <= l
  PROVE  /\ x.buf[sc + 4] = wire[o + sc + 4]
         /\ U16(x.buf, sc + 4) = 256 * wire[o + sc + 5] + wire[o + sc + 6]
         /\ x.buf[sc + 7] = wire[o + sc + 7] /\ x.buf[sc + 8] = wire[o + sc + 8]
         /\ x.buf[sc + 9] = wire[o + sc + 9]
<1> DEFINE B(i) == sc + i <= l => x.buf[sc + i] = wire[o + sc + i]
<1>1. ASSUME NEW i \in Nat, i > 0 PROVE B(i)
  BY <1>1, ByteIs
<1> HIDE DEF B
<1>2. B(4) /\ B(7) /\ B(8) /\ B(9)
  BY <1>1
<1>3. l \in Nat
  BY InSight DEF Long
<1>4. sc + 4 <= l /\ sc + 6 <= l /\ sc + 7 <= l /\ sc + 8 <= l
  BY <1>3
<1>5. U16(x.buf, sc + 4) = 256 * wire[o + sc + 5] + wire[o + sc + 6]
  BY <1>4, HeadIs
<1> QED
  BY <1>2, <1>4, <1>5 DEF B

LEMMA BodyIs ==
  ASSUME NEW b \in Seq(Int), NEW c \in Seq(Int), NEW p \in Nat, NEW m \in Nat, NEW e, NEW l \in Nat,
         Len(c) = m, e = p + m, Len(b) = l, e <= l, \A i \in 1 .. m : b[p + i] = c[i]
  PROVE  SubSeq(b, p + 1, e) = c
<1> DEFINE f == p + 1
           s == SubSeq(b, f, e)
<1>1. f \in Int /\ e \in Int /\ e - f + 1 = m /\ (f <= e \/ m = 0)
  OBVIOUS
<1>2. \A i \in 1 .. m : f + i - 1 = p + i
  OBVIOUS
<1>8. f \in Int /\ e \in Int
  BY <1>1
<1>3. \A i \in f .. e : b[i] \in Int
  <2>1. \A i \in f .. e : i \in 1 .. Len(b)
    OBVIOUS
  <2> QED
    BY <2>1, ElementOfSeq
<1> HIDE DEF f
<1>4. /\ s \in Seq(Int) /\ Len(s) = (IF f <= e THEN e - f + 1 ELSE 0)
      /\ \A i \in 1 .. e - f + 1 : s[i] = b[f + i - 1]
  BY <1>3, <1>8, SubSeqProperties
<1> HIDE DEF s
<1>5. Len(s) = m
  BY <1>1, <1>4
<1>6. \A i \in 1 .. m : s[i] = c[i]
  BY <1>1, <1>2, <1>4
<1>7. s = c
  BY <1>4, <1>5, <1>6, SeqEqual
<1> QED
  BY <1>7 DEF s, f

(* The packet's body, once it is all there.                                *)
LEMMA ChunkLies ==
  ASSUME NEW codec, Muxed(codec), NEW x, NEW pos, NEW k, NEW n, NEW outs, NEW o, NEW g,
         Reading(x, pos, k, n, outs, codec, o, g), NEW l, Long(x, l),
         k \in 1 .. Len(stream), n \in 1 .. Count(k),
         NEW p \in Nat, o + p = Pes(k, n) + Hdr(n), o + p + Len(Chunk(stream[k].data, n)) <= g
  PROVE  /\ SubSeq(x.buf, p + 1, p + Len(Chunk(stream[k].data, n))) = Chunk(stream[k].data, n)
         /\ Chunk(stream[k].data, n) \in Seq(Int) /\ Chunk(stream[k].data, n) # << >>
<1> DEFINE c == Chunk(stream[k].data, n)
           m == Len(c)
<1>1. c \in Seq(0 .. 255) /\ m \in 1 .. PesChunk
  BY UnitsAre, ChunkIs DEF Count, IsAccessUnit
<1>2. c \in Seq(Int) /\ c # << >> /\ m \in Nat
  <2>1. m # 0 /\ m \in Nat
    BY <1>1, StreamAssumption
  <2>2. 0 .. 255 \subseteq Int
    OBVIOUS
  <2>4. c \in Seq(Int)
    BY <1>1, <2>2, SeqMonotonic, Zenon
  <2>5. c # << >>
    BY <2>1 DEF m
  <2> QED
    BY <2>1, <2>4, <2>5
<1>3. Lies(wire, Pes(k, n) + Hdr(n), c)
  <2>1. Carries(wire, Base(k, n), stream[k], n)
    BY AheadIs
  <2> QED
    BY <2>1 DEF Carries, Pes
<1>4. x.buf \in Seq(Int) /\ Len(x.buf) = l /\ l \in Nat /\ o \in Nat /\ g = o + l
  <2>1. x \in Demuxes /\ g = o + Len(x.buf)
    BY DEF Reading
  <2>2. x.buf \in Seq(Int)
    BY <2>1 DEF Demuxes
  <2>3. Len(x.buf) = l /\ l \in Nat /\ o \in Nat
    BY InSight DEF Long
  <2> QED
    BY <2>1, <2>2, <2>3
<1> HIDE DEF c
<1>5. \A i \in 1 .. m : wire[o + p + i] = c[i]
  BY <1>3 DEF Lies
<1> HIDE DEF m
<1>6. p + m <= l
  <2>1. o + p + m <= o + l
    BY <1>4 DEF m, c
  <2> QED
    BY <1>2, <1>4, <2>1
<1>7. ASSUME NEW i \in 1 .. m PROVE x.buf[p + i] = c[i]
  <2>1. i \in Nat /\ i > 0 /\ p + i <= l
    BY <1>2, <1>4, <1>6
  <2>2. x.buf[p + i] = wire[o + p + i]
    BY <2>1, ByteIs
  <2> QED
    BY <1>5, <2>2
<1>8. Len(c) = m
  BY DEF m
<1> DEFINE e == p + m
<1> HIDE DEF e
<1>9. e = p + m /\ e <= l
  BY <1>6 DEF e
<1>10. SubSeq(x.buf, p + 1, e) = c
  <2> DEFINE b == x.buf
  <2>1. b \in Seq(Int) /\ Len(b) = l /\ \A i \in 1 .. m : b[p + i] = c[i]
    BY <1>4, <1>7
  <2> HIDE DEF b
  <2>2. SubSeq(b, p + 1, e) = c
    BY <1>2, <1>4, <1>8, <1>9, <2>1, BodyIs
  <2> QED
    BY <2>2 DEF b
<1> QED
  BY <1>2, <1>9, <1>10 DEF m, c

(* A whole packet reaches Packet(), a part of one is waited for.           *)
Flags(n)  == IF n = 1 THEN 132 ELSE 128
Stamp(k, n) == IF n = 1 THEN Wrapped(stream[k].pts) ELSE 0

(* A video packet waits for its end and then reaches Packet.               *)
LEMMA PesGives ==
  ASSUME NEW codec, Muxed(codec), NEW x, NEW pos, NEW k, NEW n, NEW outs, NEW o, NEW g,
         Reading(x, pos, k, n, outs, codec, o, g), NEW l, Long(x, l),
         k \in 1 .. Len(stream), n \in 1 .. Count(k),
         NEW sc \in Nat, o + sc = Pes(k, n), sc + 3 <= l
  PROVE  /\ g < Ends(k, n) => AtCode(x, sc) = Wait(x, sc)
         /\ g >= Ends(k, n) =>
              \E e \in Nat : /\ o + e = Ends(k, n) /\ e > sc
                             /\ AtCode(x, sc) = Packet(x, Video, Flags(n), Stamp(k, n),
                                                       Chunk(stream[k].data, n), e)
<1> DEFINE c == Chunk(stream[k].data, n)
           m == Len(c)
           h == Hdr(n)
           e == sc + h + m
           d == x.buf
<1>1. m \in Nat /\ m > 0 /\ h \in Nat /\ (n = 1 => h = 14) /\ (n # 1 => h = 9)
  <2>1. m \in 1 .. PesChunk
    BY PacketsAre
  <2> QED
    BY <2>1, StreamAssumption DEF Hdr
<1>2. l \in Nat /\ o \in Nat /\ g = o + l /\ Len(x.buf) = l
  BY ReadingIs DEF Long
<1>3. Ends(k, n) = o + e
  <2>1. Ends(k, n) = Pes(k, n) + h + m
    BY DEF Ends
  <2> QED
    BY <1>1, <1>2, <2>1
<1>4. PesBytes(wire, o + sc, n = 1, stream[k].pts, m)
  <2>1. Carries(wire, Base(k, n), stream[k], n)
    BY AheadIs
  <2> QED
    BY <2>1 DEF Carries, Pes
<1> HIDE DEF m, c, h, e
<1>5. e = sc + h + m /\ e \in Nat
  BY <1>1 DEF e
<1>6. wire[o + sc + 4] = Video
  BY <1>4 DEF PesBytes, StartsWith
<1>7. 256 * wire[o + sc + 5] + wire[o + sc + 6] = (IF n = 1 THEN 8 ELSE 3) + m
  BY <1>4 DEF PesBytes
<1>8. sc + 4 <= l => AtCode(x, sc) = AtPes(x, sc)
  <2> SUFFICES ASSUME sc + 4 <= l PROVE AtCode(x, sc) = AtPes(x, sc)
    OBVIOUS
  <2> DEFINE id == d[sc + 4]
  <2>1. id = Video
    BY <1>6, IdIs
  <2> HIDE DEF id
  <2>2. id # Pack /\ id \notin {System, Map} /\ id \in 189 .. 239
    BY <2>1 DEF Pack, System, Map, Video
  <2>3. ~(sc + 4 > l)
    BY <1>2
  <2> QED
    BY <1>2, <2>2, <2>3 DEF AtCode, id
<1>9. sc + 9 > l => AtCode(x, sc) = Wait(x, sc)
  <2>1. CASE sc + 4 > l
    BY <1>2, <2>1 DEF AtCode
  <2>2. CASE ~(sc + 4 > l)
    <3>1. AtCode(x, sc) = AtPes(x, sc)
      BY <1>2, <1>8, <2>2
    <3>2. sc + 9 > l => AtPes(x, sc) = Wait(x, sc)
      BY <1>2 DEF AtPes
    <3> QED
      BY <3>1, <3>2
  <2> QED
    BY <2>1, <2>2
<1>10. ASSUME sc + 9 <= l
       PROVE  /\ d[sc + 4] = Video /\ U16(d, sc + 4) = (IF n = 1 THEN 8 ELSE 3) + m
              /\ d[sc + 7] = wire[o + sc + 7] /\ d[sc + 8] = wire[o + sc + 8]
              /\ d[sc + 9] = wire[o + sc + 9]
  BY <1>6, <1>7, <1>10, PesWords, SMTT(40)
<1>11. g >= Ends(k, n) => SubSeq(d, sc + h + 1, e) = c
  <2> SUFFICES ASSUME g >= Ends(k, n) PROVE SubSeq(d, sc + h + 1, e) = c
    OBVIOUS
  <2> DEFINE p == sc + h
  <2>1. p \in Nat /\ o + p = Pes(k, n) + Hdr(n)
    BY <1>1, <1>2 DEF h
  <2>2. o + p + m <= g
    BY <1>1, <1>2, <1>3, <1>5
  <2>3. e = p + m
    BY <1>1, <1>5
  <2> HIDE DEF p
  <2>4. SubSeq(d, p + 1, p + m) = c
    BY <2>1, <2>2, ChunkLies DEF m, c
  <2> QED
    BY <2>3, <2>4 DEF p
<1>12. CASE n = 1
  <2>1. h = 14 /\ e = sc + 14 + m
    BY <1>1, <1>5, <1>12
  <2>2. sc + 9 <= l => /\ d[sc + 4] = Video /\ U16(d, sc + 4) = 8 + m /\ d[sc + 7] = 132
                       /\ d[sc + 8] = 128 /\ d[sc + 9] = 5
    BY <1>4, <1>10, <1>12 DEF PesBytes
  <2>3. sc + 14 <= l => RdPts(d[sc + 10]) = Wrapped(stream[k].pts)
    <3> SUFFICES ASSUME sc + 14 <= l PROVE RdPts(d[sc + 10]) = Wrapped(stream[k].pts)
      OBVIOUS
    <3> DEFINE i == 10
    <3>1. i \in Nat /\ i > 0 /\ sc + i <= l
      BY <1>2
    <3> HIDE DEF i
    <3>2. d[sc + i] = wire[o + sc + i]
      BY <3>1, ByteIs
    <3>3. d[sc + 10] = 32 + Wrapped(stream[k].pts)
      BY <1>4, <1>12, <3>2 DEF PesBytes, i
    <3>4. Wrapped(stream[k].pts) \in Nat
      BY UnitsAre, WrappedIn DEF IsAccessUnit
    <3> QED
      BY <3>3, <3>4 DEF RdPts
  <2> DEFINE r == RdPts(d[sc + 10])
             body == SubSeq(d, sc + 14 + 1, e)
             pk == Packet(x, Video, 132, r, body, e)
  <2>4. ASSUME sc + 9 <= l
        PROVE  AtPes(x, sc) = IF sc + 14 > l THEN Wait(x, sc)
                              ELSE IF e > l THEN Wait(x, sc) ELSE pk
    <3>1. /\ d[sc + 4] = Video /\ U16(d, sc + 4) = 8 + m /\ d[sc + 7] = 132
          /\ d[sc + 8] = 128 /\ d[sc + 9] = 5
      BY <2>2, <2>4
    <3>2. /\ ~(sc + 9 > l) /\ sc + 9 + 5 = sc + 14 /\ 128 >= 128 /\ 8 + m # 0 /\ ~(8 + m < 3 + 5)
          /\ sc + 9 + 5 + (8 + m) - 3 - 5 = e
      BY <1>1, <1>2, <2>1, <2>4
    <3> DEFINE en == Endless(x, sc, sc + 14)
    <3> HIDE DEF en, m
    <3>3. AtPes(x, sc) =
            IF sc + 9 > l \/ sc + 9 + 5 > l \/ (128 >= 128 /\ sc + 14 > l) THEN Wait(x, sc)
            ELSE IF 8 + m = 0 THEN Endless(x, sc, sc + 9 + 5)
            ELSE IF 8 + m < 3 + 5 THEN Answer(x, "Format", << >>)
            ELSE IF sc + 9 + 5 + (8 + m) - 3 - 5 > l THEN Wait(x, sc)
            ELSE Packet(x, Video, 132, IF 128 >= 128 THEN RdPts(d[sc + 10]) ELSE 0,
                        SubSeq(d, sc + 9 + 5 + 1, sc + 9 + 5 + (8 + m) - 3 - 5),
                        sc + 9 + 5 + (8 + m) - 3 - 5)
      BY <1>2, <3>1 DEF AtPes
    <3> QED
      BY <3>2, <3>3
  <2> HIDE DEF pk
  <2>5. CASE g < Ends(k, n)
    <3>1. e > l
      BY <1>2, <1>3, <1>5, <2>5
    <3>2. AtCode(x, sc) = Wait(x, sc)
      <4>1. CASE sc + 9 > l
        BY <1>9, <4>1
      <4>2. CASE ~(sc + 9 > l)
        <5>1. sc + 9 <= l /\ sc + 4 <= l
          BY <1>2, <4>2
        <5> QED
          BY <1>8, <2>4, <3>1, <5>1
      <4> QED
        BY <4>1, <4>2
    <3>3. ~(g >= Ends(k, n))
      BY <1>2, <1>3, <1>5, <2>5
    <3> QED
      BY <3>2, <3>3
  <2>6. CASE ~(g < Ends(k, n))
    <3>1. /\ ~(e > l) /\ sc + 14 <= l /\ sc + 9 <= l /\ sc + 4 <= l /\ ~(sc + 14 > l)
          /\ g >= Ends(k, n) /\ e > sc
      BY <1>1, <1>2, <1>3, <1>5, <2>1, <2>6
    <3>2. AtCode(x, sc) = pk
      BY <1>8, <2>4, <3>1
    <3>3. body = c
      BY <1>11, <2>1, <3>1
    <3>4. r = Wrapped(stream[k].pts)
      BY <2>3, <3>1
    <3>5. pk = Packet(x, Video, Flags(n), Stamp(k, n), c, e)
      <4> HIDE DEF r, body
      <4> QED
        BY <1>12, <3>3, <3>4 DEF pk, Flags, Stamp
    <3> QED
      BY <1>3, <1>5, <2>6, <3>1, <3>2, <3>5 DEF c
  <2> QED
    BY <2>5, <2>6
<1>13. CASE n # 1
  <2>1. h = 9 /\ e = sc + 9 + m
    BY <1>1, <1>5, <1>13
  <2>2. sc + 9 <= l => /\ d[sc + 4] = Video /\ U16(d, sc + 4) = 3 + m /\ d[sc + 7] = 128
                       /\ d[sc + 8] = 0 /\ d[sc + 9] = 0
    BY <1>4, <1>10, <1>13 DEF PesBytes
  <2> DEFINE body == SubSeq(d, sc + 9 + 1, e)
             pk == Packet(x, Video, 128, 0, body, e)
  <2>4. ASSUME sc + 9 <= l
        PROVE  AtPes(x, sc) = IF e > l THEN Wait(x, sc) ELSE pk
    <3>1. /\ d[sc + 4] = Video /\ U16(d, sc + 4) = 3 + m /\ d[sc + 7] = 128
          /\ d[sc + 8] = 0 /\ d[sc + 9] = 0
      BY <2>2, <2>4
    <3>2. /\ ~(sc + 9 > l) /\ sc + 9 + 0 = sc + 9 /\ ~(0 >= 128) /\ 3 + m # 0 /\ ~(3 + m < 3 + 0)
          /\ sc + 9 + 0 + (3 + m) - 3 - 0 = e
      BY <1>1, <1>2, <2>1, <2>4
    <3>3. AtPes(x, sc) =
            IF sc + 9 > l \/ sc + 9 + 0 > l \/ (0 >= 128 /\ sc + 14 > l) THEN Wait(x, sc)
            ELSE IF 3 + m = 0 THEN Endless(x, sc, sc + 9 + 0)
            ELSE IF 3 + m < 3 + 0 THEN Answer(x, "Format", << >>)
            ELSE IF sc + 9 + 0 + (3 + m) - 3 - 0 > l THEN Wait(x, sc)
            ELSE Packet(x, Video, 128, IF 0 >= 128 THEN RdPts(d[sc + 10]) ELSE 0,
                        SubSeq(d, sc + 9 + 0 + 1, sc + 9 + 0 + (3 + m) - 3 - 0),
                        sc + 9 + 0 + (3 + m) - 3 - 0)
      BY <1>2, <3>1 DEF AtPes
    <3> QED
      BY <3>2, <3>3
  <2> HIDE DEF pk
  <2>5. CASE g < Ends(k, n)
    <3>1. e > l
      BY <1>2, <1>3, <1>5, <2>5
    <3>2. AtCode(x, sc) = Wait(x, sc)
      <4>1. CASE sc + 9 > l
        BY <1>9, <4>1
      <4>2. CASE ~(sc + 9 > l)
        <5>1. sc + 9 <= l /\ sc + 4 <= l
          BY <1>2, <4>2
        <5> QED
          BY <1>8, <2>4, <3>1, <5>1
      <4> QED
        BY <4>1, <4>2
    <3>3. ~(g >= Ends(k, n))
      BY <1>2, <1>3, <1>5, <2>5
    <3> QED
      BY <3>2, <3>3
  <2>6. CASE ~(g < Ends(k, n))
    <3>1. /\ ~(e > l) /\ sc + 9 <= l /\ sc + 4 <= l
          /\ g >= Ends(k, n) /\ e > sc
      BY <1>1, <1>2, <1>3, <1>5, <2>1, <2>6
    <3>2. AtCode(x, sc) = pk
      BY <1>8, <2>4, <3>1
    <3>3. body = c
      BY <1>11, <2>1, <3>1
    <3>5. pk = Packet(x, Video, Flags(n), Stamp(k, n), c, e)
      <4> HIDE DEF body
      <4> QED
        BY <1>13, <3>3 DEF pk, Flags, Stamp
    <3> QED
      BY <1>3, <1>5, <2>6, <3>1, <3>2, <3>5 DEF c
  <2> QED
    BY <2>5, <2>6
<1> QED
  BY <1>12, <1>13

(* The packet after one.                                                   *)
Behind(k2, n2, k, n) ==
  /\ At(k2, n2) /\ Cur(k2, n2) = k /\ Whole(k2, n2) = n /\ Prev(k2, n2) = Pes(k, n)
  /\ Base(k2, n2) = Ends(k, n) /\ Ends(k, n) <= Limit(k2, n2)

LEMMA Advance ==
  ASSUME NEW codec, Muxed(codec), NEW k \in 1 .. Len(stream), NEW n \in 1 .. Count(k)
  PROVE  \E k2, n2 : Behind(k2, n2, k, n)
<1>1. Len(stream) \in Nat /\ Count(k) \in Nat /\ Ends(k, n) \in Nat
  BY UnitsAre, PacketShape DEF Muxed
<1>2. CASE n < Count(k)
  <2> DEFINE n2 == n + 1
  <2>1. n2 \in 1 .. Count(k) /\ n2 > 1 /\ n2 # 1 /\ n2 - 1 = n
    BY <1>1, <1>2
  <2>2. Base(k, n2) = Ends(k, n)
    BY <1>2, PacketsAre
  <2> HIDE DEF n2
  <2>3. Base(k, n2) <= Pes(k, n2)
    <3>1. /\ Base(k, n2) \in Nat
          /\ Pes(k, n2) = Base(k, n2) + (IF Marked(stream[k], n2) THEN 49 ELSE 14)
      BY <2>1, PacketShape
    <3> QED
      BY <3>1
  <2>4. Limit(k, n2) = Pes(k, n2)
    BY <1>1 DEF Limit
  <2>5. At(k, n2)
    BY <2>1 DEF At
  <2>6. Cur(k, n2) = k /\ Whole(k, n2) = n /\ Prev(k, n2) = Pes(k, n)
    BY <2>1 DEF Cur, Whole, Prev
  <2>7. Behind(k, n2, k, n)
    BY <2>2, <2>3, <2>4, <2>5, <2>6 DEF Behind
  <2> QED
    BY <2>7
<1>3. CASE ~(n < Count(k))
  <2> DEFINE k2 == k + 1
  <2>1. n = Count(k) /\ k2 \in 1 .. Len(stream) + 1 /\ k2 > 1 /\ k2 - 1 = k
    BY <1>1, <1>3
  <2>2. Starts(k2) = Ends(k, n) /\ Ends(k, n) <= Len(wire)
    BY <2>1, PacketsAre
  <2> HIDE DEF k2
  <2>3. Base(k2, 1) = Ends(k, n)
    BY <1>1, <2>2 DEF Base
  <2>4. At(k2, 1) /\ Ends(k, n) <= Limit(k2, 1)
    <3>1. CASE k2 \in 1 .. Len(stream)
      <4>1. 1 \in 1 .. Count(k2)
        BY <3>1, UnitsAre
      <4>2. /\ Base(k2, 1) \in Nat
            /\ Pes(k2, 1) = Base(k2, 1) + (IF Marked(stream[k2], 1) THEN 49 ELSE 14)
        BY <3>1, <4>1, PacketShape
      <4>3. Limit(k2, 1) = Pes(k2, 1)
        BY <1>1, <3>1 DEF Limit
      <4>4. Base(k2, 1) <= Pes(k2, 1)
        BY <4>2
      <4> QED
        BY <2>3, <3>1, <4>1, <4>3, <4>4 DEF At
    <3>2. CASE ~(k2 \in 1 .. Len(stream))
      <4>1. k2 = Len(stream) + 1 /\ k2 > Len(stream)
        BY <1>1, <2>1, <3>2
      <4> QED
        BY <2>2, <4>1 DEF At, Limit
    <3> QED
      BY <3>1, <3>2
  <2>5. Cur(k2, 1) = k /\ Whole(k2, 1) = n /\ Prev(k2, 1) = Pes(k, n)
    BY <2>1 DEF Cur, Whole, Prev
  <2>6. Behind(k2, 1, k, n)
    BY <2>3, <2>4, <2>5 DEF Behind
  <2> QED
    BY <2>6
<1> QED
  BY <1>2, <1>3

(* No stream map is passed unread on the way to a packet's end.            *)
LEMMA LabelsOn ==
  ASSUME NEW codec, Muxed(codec), NEW x, NEW pos, NEW k, NEW n, NEW outs, NEW o, NEW g, join \in Nat,
         Reading(x, pos, k, n, outs, codec, o, g), NEW l, NEW sc, Sighted(pos, o, l, sc),
         k \in 1 .. Len(stream), n \in 1 .. Count(k), o + sc = Pes(k, n)
  PROVE  Labels(x, Ends(k, n), codec)
<1>1. Labels(x, o + pos, codec) /\ Near(o + pos, k, n, g)
  BY DEF Reading
<1>2. /\ pos \in Nat /\ o \in Nat /\ sc \in Nat /\ pos <= sc
      /\ \A t \in o + pos .. o + sc - 1 : ~CodeAt(wire, t)
  <2>1. pos \in Nat /\ o \in Nat
    BY InSight
  <2> QED
    BY <2>1 DEF Sighted
<1>3. Ahead(k, n)
  BY AheadIs
<1> SUFFICES ASSUME NEW i \in 1 .. Len(stream), Marked(stream[i], 1),
                    join <= Starts(i) + 29, Starts(i) + 29 < Ends(k, n)
             PROVE  x.psm = codec
  BY <1>1 DEF Labels
<1>4. CASE Starts(i) + 29 < o + pos
  BY <1>1, <1>4 DEF Labels
<1>5. CASE ~(Starts(i) + 29 < o + pos)
  <2>1. Starts(i) \in Nat
    BY StartsAre
  <2>2. o + pos <= Starts(i) + 29
    BY <1>2, <1>5, <2>1
  <2>3. /\ CodeAt(wire, Starts(i) + 29)
        /\ \/ i = k /\ n = 1 /\ Starts(i) + 29 = Base(k, n) + 29
           \/ Ends(k, n) <= Starts(i)
    BY <1>1, <2>2, MapsAhead
  <2>4. Ends(k, n) \in Nat /\ Base(k, n) \in Nat /\ Pes(k, n) \in Nat
    BY <1>3 DEF Ahead
  <2>5. i = k /\ n = 1 /\ Starts(i) + 29 = Base(k, n) + 29
    BY <2>1, <2>3, <2>4
  <2>6. Pes(k, n) = Base(k, n) + 49
    BY <1>3, <2>5 DEF Ahead
  <2>7. Starts(i) + 29 \in o + pos .. o + sc - 1
    BY <1>2, <2>1, <2>2, <2>4, <2>5, <2>6, SMTT(40)
  <2> QED
    BY <1>2, <2>3, <2>7
<1> QED
  BY <1>4, <1>5

(* After the packet.                                                       *)
LEMMA ReadOn ==
  ASSUME NEW codec, Muxed(codec), NEW x, NEW pos, NEW k, NEW n, NEW outs, NEW o, NEW g, join \in Nat,
         Reading(x, pos, k, n, outs, codec, o, g),
         k \in 1 .. Len(stream), n \in 1 .. Count(k), Labels(x, Ends(k, n), codec),
         Pes(k, n) >= join,
         NEW k2, NEW n2, Behind(k2, n2, k, n), NEW y \in Demuxes, y.buf = x.buf, y.psm = x.psm,
         NEW e \in Nat, o + e = Ends(k, n), Ends(k, n) <= g,
         NEW outs2, UnitIs(y, k2, n2, outs2)
  PROVE  Reading(y, e, k2, n2, outs2, codec, o, g)
<1>1. /\ o \in Nat /\ join <= o /\ g = o + Len(x.buf) /\ g <= Len(wire)
      /\ \A i \in 1 .. Len(x.buf) : x.buf[i] = wire[o + i]
  BY DEF Reading
<1>2. Len(x.buf) \in Nat
  BY InSight
<1>3. e \in 0 .. Len(y.buf)
  BY <1>1, <1>2
<1>4. Near(o + e, k2, n2, g)
  <2>1. At(k2, n2) /\ Base(k2, n2) = o + e /\ o + e <= Limit(k2, n2)
    BY DEF Behind
  <2>2. o + e \in Nat /\ join <= o + e /\ o + e <= g /\ o + e <= o + e + 3
    BY <1>1
  <2> QED
    BY <2>1, <2>2 DEF Near
<1>5. Labels(y, o + e, codec)
  BY DEF Labels
<1> QED
  BY <1>1, <1>3, <1>4, <1>5 DEF Reading

(* What is open.                                                           *)
LEMMA OpenIs ==
  ASSUME NEW codec, Muxed(codec), NEW x, NEW pos, NEW k, NEW n, NEW outs, NEW o, NEW g, join \in Nat,
         Reading(x, pos, k, n, outs, codec, o, g), Opened(k, n)
  PROVE  /\ Cur(k, n) \in 1 .. Len(stream) /\ Whole(k, n) \in 1 .. Count(Cur(k, n))
         /\ x.open /\ x.au = SubSeq(stream[Cur(k, n)].data, 1, Cut(stream[Cur(k, n)].data, Whole(k, n)))
         /\ x.au \in Seq(0 .. 255) /\ Len(x.au) = Cut(stream[Cur(k, n)].data, Whole(k, n))
         /\ x.pts = Wrapped(stream[Cur(k, n)].pts)
         /\ HasUnit(x)
<1>1. At(k, n) /\ UnitIs(x, k, n, outs)
  BY DEF Reading, Near
<1>2. Cur(k, n) \in 1 .. Len(stream)
  BY <1>1, OpenedIs
<1>3. Whole(k, n) \in 1 .. Count(Cur(k, n))
  <2>1. CASE n = 1
    <3>1. Cur(k, n) = k - 1 /\ Whole(k, n) = Count(k - 1)
      BY <2>1 DEF Cur, Whole
    <3>2. Count(k - 1) \in Nat \ {0}
      BY <1>2, <3>1, UnitsAre
    <3> QED
      BY <3>1, <3>2
  <2>2. CASE n # 1
    <3>1. Cur(k, n) = k /\ Whole(k, n) = n - 1 /\ n \in 1 .. Count(k)
      BY <1>1, <2>2 DEF Cur, Whole, At
    <3>2. Count(k) \in Nat \ {0}
      BY <1>2, <3>1, UnitsAre
    <3> QED
      BY <2>2, <3>1, <3>2
  <2> QED
    BY <2>1, <2>2
<1> DEFINE c == Cur(k, n)
           w == Whole(k, n)
           d == stream[c].data
<1>4. x.open /\ x.au = SubSeq(d, 1, Cut(d, w)) /\ x.pts = Wrapped(stream[c].pts)
  BY <1>1 DEF UnitIs
<1>5. IsUnit(d) /\ w \in 1 .. Fragments(d)
  BY <1>2, <1>3, UnitsAre DEF Count, IsAccessUnit
<1> HIDE DEF c, w, d
<1>6. SubSeq(d, 1, Cut(d, w)) \in Seq(0 .. 255) /\ Len(SubSeq(d, 1, Cut(d, w))) = Cut(d, w)
  BY <1>5, ChunkIs
<1>7. Cut(d, w) # 0
  <2>1. Fragments(d) \in Nat \ {0}
    BY <1>5, CutsAre
  <2>2. Cut(d, w) \in Nat /\ Cut(d, w - 1) \in Nat /\ Cut(d, w - 1) < Cut(d, w)
    BY <1>5, CutsAre
  <2> QED
    BY <2>2
<1>8. HasUnit(x)
  <2>1. Len(x.au) # 0
    BY <1>4, <1>6, <1>7
  <2>2. x.au # << >>
    BY <2>1
  <2> QED
    BY <1>4, <2>2 DEF HasUnit
<1> QED
  BY <1>2, <1>3, <1>4, <1>6, <1>8 DEF c, w, d

(* A whole unit is handed out as it was muxed.                             *)
LEMMA FrameMatches ==
  ASSUME NEW codec, Muxed(codec), NEW x, NEW pos, NEW k, NEW n, NEW outs, NEW o, NEW g, join \in Nat,
         Reading(x, pos, k, n, outs, codec, o, g), Opened(k, n), Whole(k, n) = Count(Cur(k, n))
  PROVE  FrameOf(x) \in Frames /\ Matches(FrameOf(x), Cur(k, n))
<1> DEFINE u == Cur(k, n)
           f == FrameOf(x)
<1>1. /\ x \in Demuxes /\ At(k, n) /\ Labels(x, o + pos, codec) /\ Near(o + pos, k, n, g)
      /\ pos \in Nat /\ o \in Nat
  BY InSight DEF Reading, Near
<1>2. /\ u \in 1 .. Len(stream) /\ Prev(k, n) >= join
      /\ x.au = SubSeq(stream[u].data, 1, Cut(stream[u].data, Count(u)))
      /\ x.pts = Wrapped(stream[u].pts)
  BY <1>1, OpenIs, OpenedIs
<1>3. x.au = stream[u].data
  <2>1. IsUnit(stream[u].data)
    BY <1>2, UnitsAre DEF IsAccessUnit
  <2>2. Cut(stream[u].data, Count(u)) = Len(stream[u].data)
    BY <2>1, CutsAre DEF Count
  <2>3. stream[u].data \in Seq(0 .. 255)
    BY <2>1 DEF IsUnit
  <2> QED
    BY <1>2, <2>2, <2>3, SubSeqFull
<1>4. f.data = x.au /\ f.pts = x.pts /\ f.codec = Codec(x) /\ f.key = IsKeyframe(Codec(x), x.au)
  BY DEF FrameOf
<1>5. f \in Frames
  <2>1. x.au \in Seq(Int) /\ x.pts \in Int /\ x.psm \in {"none", "Avc", "Hevc"}
    BY <1>1 DEF Demuxes
  <2>2. Sniff(x.au) \in Codecs
    BY DEF Sniff, Codecs
  <2>3. Codec(x) \in Codecs
    BY <2>1, <2>2 DEF Codec, Codecs
  <2>4. IsKeyframe(Codec(x), x.au) \in BOOLEAN
    BY DEF IsKeyframe
  <2> QED
    BY <2>1, <2>3, <2>4 DEF FrameOf, Frames
<1>6. ASSUME Labelled(u) PROVE x.psm = codec
  <2>1. PICK i \in 1 .. u : IsKeyframe(stream[i].codec, stream[i].data) /\ Starts(i) + 29 >= join
    BY <1>6 DEF Labelled
  <2>2. Marked(stream[i], 1) /\ i \in 1 .. Len(stream)
    BY <1>2, <2>1 DEF Marked
  <2>3. i < k \/ (i = k /\ n > 1)
    <3>1. i <= u /\ i \in Nat
      BY <1>2, <2>1
    <3>2. Count(k) \in Nat \/ n = 1
      BY <1>1, UnitsAre DEF At
    <3>3. k \in Nat
      BY <1>1 DEF At, Muxed
    <3> QED
      BY <1>1, <3>1, <3>2, <3>3 DEF Cur, At
  <2>4. /\ Ends(i, 1) <= Base(k, n) /\ Pes(i, 1) = Starts(i) + 49 /\ Pes(i, 1) + 15 <= Ends(i, 1)
        /\ Ends(i, 1) \in Nat /\ Base(k, n) \in Nat /\ Starts(i) \in Nat
    BY <1>1, <2>2, <2>3, Before
  <2>5. Base(k, n) <= o + pos + 3
    BY <1>1, <1>2 DEF Near
  <2>6. join <= Starts(i) + 29 /\ Starts(i) + 29 < o + pos
    BY <1>1, <2>1, <2>4, <2>5
  <2> QED
    BY <1>1, <2>2, <2>6 DEF Labels
<1>7. stream[u].codec = codec /\ codec # "none"
  BY <1>2 DEF Muxed, Codecs
<1>8. Labelled(u) => Codec(x) = codec
  BY <1>6, <1>7 DEF Codec
<1> HIDE DEF f
<1>9. Matches(f, u)
  BY <1>2, <1>3, <1>4, <1>7, <1>8 DEF Matches
<1> QED
  BY <1>5, <1>9 DEF f

LEMMA HandedMore ==
  ASSUME NEW outs \in Seq(Frames), NEW f \in Frames, NEW u \in Nat, NEW j, Handed(outs, j, u), Matches(f, u)
  PROVE  outs \o << f >> \in Seq(Frames) /\ Handed(outs \o << f >>, j, u + 1)
<1> DEFINE s == outs \o << f >>
<1>1. j \in 1 .. u /\ FirstUnit(j) /\ Len(outs) = u - j /\ \A i \in 1 .. u - j : Matches(outs[i], j + i - 1)
  BY DEF Handed
<1>2. s \in Seq(Frames) /\ Len(s) = u - j + 1
  BY <1>1
<1>3. s = Append(outs, f)
  OBVIOUS
<1>4. \A i \in 1 .. u - j : s[i] = outs[i]
  BY <1>1
<1>5. s[u - j + 1] = f
  BY <1>1
<1> HIDE DEF s
<1>6. ASSUME NEW i \in 1 .. u + 1 - j PROVE Matches(s[i], j + i - 1)
  <2>1. CASE i \in 1 .. u - j
    BY <1>1, <1>4, <2>1
  <2>2. CASE i \notin 1 .. u - j
    <3>1. i = u - j + 1 /\ j + i - 1 = u
      BY <1>1, <2>2
    <3> QED
      BY <1>5, <3>1
  <2> QED
    BY <2>1, <2>2
<1>7. j \in 1 .. u + 1 /\ u - j + 1 = u + 1 - j
  BY <1>1
<1>8. Handed(s, j, u + 1)
  BY <1>1, <1>2, <1>6, <1>7 DEF Handed
<1> QED
  BY <1>2, <1>8 DEF s

(* The first packet of a unit.                                             *)
LEMMA FirstGives ==
  ASSUME NEW codec, Muxed(codec), NEW x, NEW pos, NEW k, NEW n, NEW outs, NEW o, NEW g, join \in Nat,
         Reading(x, pos, k, n, outs, codec, o, g), k \in 1 .. Len(stream), n \in 1 .. Count(k),
         Labels(x, Ends(k, n), codec), Pes(k, n) >= join,
         NEW e \in Nat, o + e = Ends(k, n), Ends(k, n) <= g, e > pos, n = 1,
         NEW c, c = Chunk(stream[k].data, n), c \in Seq(Int), c # << >>
  PROVE  Gives(Packet(x, Video, 132, Wrapped(stream[k].pts), c, e), x.buf, pos, outs, codec, o, g)
<1> DEFINE y == [x EXCEPT !.au = c, !.open = TRUE, !.cursor = e, !.pts = Wrapped(stream[k].pts)]
<1>1. x \in Demuxes /\ UnitIs(x, k, n, outs) /\ outs \in Seq(Frames)
  BY DEF Reading, UnitIs
<1>2. Wrapped(stream[k].pts) \in Nat
  BY UnitsAre, WrappedIn DEF IsAccessUnit
<1>3. Packet(x, Video, 132, Wrapped(stream[k].pts), c, e)
        = IF HasUnit(x) THEN Answer(y, "Ok", << FrameOf(x) >>) ELSE GoOn(y, e)
  <2>1. ~(Video < Video) /\ (132 \div 4) % 2 = 1
    BY DEF Video
  <2> QED
    BY <2>1 DEF Packet
<1>4. /\ y \in Demuxes /\ y.buf = x.buf /\ y.psm = x.psm /\ y.au = c /\ y.open
      /\ y.cursor = e /\ y.pts = Wrapped(stream[k].pts)
  <2> DEFINE w == Wrapped(stream[k].pts)
  <2>1. w \in Int
    BY <1>2
  <2> HIDE DEF w
  <2>2. y = [x EXCEPT !.au = c, !.open = TRUE, !.cursor = e, !.pts = w]
    BY DEF w
  <2>3. /\ y \in Demuxes /\ y.buf = x.buf /\ y.psm = x.psm /\ y.au = c /\ y.open
        /\ y.cursor = e /\ y.pts = w
    <3> HIDE DEF y
    <3> QED
      BY <1>1, <2>1, <2>2 DEF Demuxes
  <2> QED
    BY <2>3 DEF w
<1> HIDE DEF y
<1>5. PICK k2, n2 : Behind(k2, n2, k, n)
  BY Advance
<1>6. k \in Nat /\ k >= 1 /\ Len(stream) \in Nat
  BY DEF Muxed
<1>7. /\ Opened(k2, n2) /\ Cur(k2, n2) = k /\ Whole(k2, n2) = 1
  BY <1>5, <1>6 DEF Behind, Opened
<1>8. c = SubSeq(stream[k].data, 1, Cut(stream[k].data, 1))
  BY UnitsAre, ChunkIs DEF IsAccessUnit, Count
<1>9. ASSUME NEW outs2 \in Seq(Frames), NEW j \in 1 .. Len(stream), Handed(outs2, j, k)
      PROVE  Reading(y, e, k2, n2, outs2, codec, o, g)
  <2>1. UnitIs(y, k2, n2, outs2)
    BY <1>4, <1>7, <1>8, <1>9 DEF UnitIs
  <2> QED
    BY <1>4, <1>5, <2>1, ReadOn
<1>10. CASE Opened(k, n)
  <2>1. HasUnit(x)
    BY <1>10, OpenIs
  <2>2. Cur(k, n) = k - 1 /\ Whole(k, n) = Count(Cur(k, n))
    BY DEF Cur, Whole
  <2>3. FrameOf(x) \in Frames /\ Matches(FrameOf(x), k - 1)
    BY <1>10, <2>2, FrameMatches
  <2>4. PICK j \in 1 .. Len(stream) : Handed(outs, j, k - 1)
    BY <1>1, <1>10, <2>2 DEF UnitIs
  <2> DEFINE u == k - 1
             f == FrameOf(x)
  <2>5. u \in Nat /\ u + 1 = k
    BY <1>6
  <2> HIDE DEF u, f
  <2>6. outs \o << f >> \in Seq(Frames) /\ Handed(outs \o << f >>, j, u + 1)
    BY <1>1, <2>3, <2>4, <2>5, HandedMore DEF u, f
  <2>7. Reading(y, e, k2, n2, outs \o << f >>, codec, o, g)
    BY <1>9, <2>5, <2>6
  <2>8. Handing(Answer(y, "Ok", << f >>), x.buf, outs, codec, o, g)
    BY <1>4, <2>3, <2>7 DEF Handing, Answer, f
  <2> QED
    BY <1>3, <2>1, <2>8 DEF Gives, f
<1>11. CASE ~Opened(k, n)
  <2>1. ~HasUnit(x) /\ outs = << >>
    BY <1>1, <1>11 DEF UnitIs, HasUnit
  <2>2. k > 1 => Pes(k - 1, 1) < join
    <3> SUFFICES ASSUME k > 1 PROVE Pes(k - 1, 1) < join
      OBVIOUS
    <3> DEFINE u == k - 1
    <3>1. u \in 1 .. Len(stream) /\ u >= 1
      BY <1>6
    <3>2. 1 \in 1 .. Count(u)
      BY <3>1, UnitsAre, SMTT(40)
    <3>3. Cur(k, n) = u
      BY DEF Cur
    <3> HIDE DEF u
    <3>4. Pes(u, 1) \in Nat
      BY <3>1, <3>2, PacketShape
    <3>5. ~(Pes(u, 1) >= join)
      BY <1>11, <3>1, <3>3 DEF Opened
    <3>6. Pes(u, 1) < join
      BY <3>4, <3>5
    <3> QED
      BY <3>6 DEF u
  <2>3. Handed(outs, k, k)
    BY <1>6, <2>1, <2>2 DEF Handed, FirstUnit
  <2>4. Reading(y, e, k2, n2, outs, codec, o, g)
    BY <1>1, <1>9, <2>3
  <2>5. Gives(GoOn(y, e), y.buf, pos, outs, codec, o, g)
    BY <2>4, OnGives
  <2> QED
    BY <1>3, <1>4, <2>1, <2>5
<1> QED
  BY <1>10, <1>11

(* A later one.                                                            *)
LEMMA LaterGives ==
  ASSUME NEW codec, Muxed(codec), NEW x, NEW pos, NEW k, NEW n, NEW outs, NEW o, NEW g, join \in Nat,
         Reading(x, pos, k, n, outs, codec, o, g), k \in 1 .. Len(stream), n \in 1 .. Count(k),
         Labels(x, Ends(k, n), codec), Pes(k, n) >= join,
         NEW e \in Nat, o + e = Ends(k, n), Ends(k, n) <= g, e > pos, n # 1,
         NEW c, c = Chunk(stream[k].data, n), c \in Seq(Int), c # << >>
  PROVE  Gives(Packet(x, Video, 128, 0, c, e), x.buf, pos, outs, codec, o, g)
<1>1. x \in Demuxes /\ UnitIs(x, k, n, outs) /\ outs \in Seq(Frames)
  BY DEF Reading, UnitIs
<1>2. PICK k2, n2 : Behind(k2, n2, k, n)
  BY Advance
<1>3. /\ Cur(k2, n2) = k /\ Whole(k2, n2) = n /\ Cur(k, n) = k /\ Whole(k, n) = n - 1
      /\ (Opened(k2, n2) <=> Opened(k, n))
  BY <1>2 DEF Behind, Opened, Cur, Whole
<1>4. ~(Video < Video) /\ (128 \div 4) % 2 # 1
  BY DEF Video
<1>5. CASE ~Opened(k, n)
  <2>1. ~x.open /\ outs = << >>
    BY <1>1, <1>5 DEF UnitIs
  <2>2. Packet(x, Video, 128, 0, c, e) = GoOn(x, e)
    BY <1>4, <2>1 DEF Packet
  <2>3. UnitIs(x, k2, n2, outs)
    BY <1>1, <1>3, <1>5, <2>1 DEF UnitIs
  <2>4. Reading(x, e, k2, n2, outs, codec, o, g)
    BY <1>1, <1>2, <2>3, ReadOn
  <2> QED
    BY <2>2, <2>4, OnGives
<1>6. CASE Opened(k, n)
  <2> DEFINE d == stream[k].data
             m == n - 1
             y == [x EXCEPT !.au = @ \o c, !.cursor = e]
  <2>1. /\ x.open /\ x.au = SubSeq(d, 1, Cut(d, m)) /\ Len(x.au) = Cut(d, m)
        /\ x.pts = Wrapped(stream[k].pts) /\ x.au \in Seq(0 .. 255)
    BY <1>3, <1>6, OpenIs, SMTT(40)
  <2>2. IsUnit(d) /\ n \in 1 .. Fragments(d) /\ Len(d) <= MaxPayload /\ Len(d) \in Nat
    BY UnitsAre DEF IsAccessUnit, Count
  <2> HIDE DEF d
  <2>3. /\ SubSeq(d, 1, Cut(d, m)) \o Chunk(d, n) = SubSeq(d, 1, Cut(d, n))
        /\ Len(Chunk(d, n)) = Cut(d, n) - Cut(d, m)
    BY <2>2, ChunkIs, ZenonT(60)
  <2>4. Cut(d, n) \in Nat /\ Cut(d, m) \in Nat /\ Cut(d, n) <= Len(d)
    BY <2>2, CutsAre
  <2>5. c = Chunk(d, n)
    BY DEF d
  <2> HIDE DEF m
  <2>6. x.au \o c = SubSeq(d, 1, Cut(d, n))
    BY <2>1, <2>3, <2>5
  <2>7. ~(Len(x.au) + Len(c) > MaxPayload)
    <3>1. Len(x.au) = Cut(d, m) /\ Len(c) = Cut(d, n) - Cut(d, m)
      BY <2>1, <2>3, <2>5
    <3>2. \A a, b, l \in Nat, p \in Nat : b <= l /\ l <= p => ~(a + (b - a) > p)
      OBVIOUS
    <3>3. MaxPayload \in Nat
      BY StreamAssumption
    <3> QED
      BY <2>2, <2>4, <3>1, <3>2, <3>3
  <2>8. Packet(x, Video, 128, 0, c, e) = GoOn(y, e)
    BY <1>4, <2>1, <2>7 DEF Packet
  <2>9. x.au \o c \in Seq(Int)
    BY <1>1 DEF Demuxes
  <2>10. /\ y \in Demuxes /\ y.buf = x.buf /\ y.psm = x.psm /\ y.au = x.au \o c /\ y.open = x.open
         /\ y.pts = x.pts
    BY <1>1, <2>9 DEF Demuxes
  <2> HIDE DEF y
  <2>11. \E j \in 1 .. Len(stream) : Handed(outs, j, k)
    BY <1>1, <1>3, <1>6 DEF UnitIs
  <2>12. UnitIs(y, k2, n2, outs)
    BY <1>1, <1>3, <1>6, <2>1, <2>6, <2>10, <2>11 DEF UnitIs, d
  <2>13. Reading(y, e, k2, n2, outs, codec, o, g)
    BY <1>2, <2>10, <2>12, ReadOn
  <2>14. Gives(GoOn(y, e), y.buf, pos, outs, codec, o, g)
    BY <2>13, OnGives
  <2> QED
    BY <2>8, <2>10, <2>14
<1> QED
  BY <1>5, <1>6

LEMMA AtPesGives ==
  ASSUME NEW codec, Muxed(codec), NEW x, NEW pos, NEW k, NEW n, NEW outs, NEW o, NEW g,
         join \in Nat, Reading(x, pos, k, n, outs, codec, o, g), NEW l, Long(x, l),
         k \in 1 .. Len(stream), n \in 1 .. Count(k),
         NEW sc, Sighted(pos, o, l, sc), o + sc = Pes(k, n)
  PROVE  Gives(AtCode(x, sc), x.buf, pos, outs, codec, o, g)
<1>1. /\ pos \in Nat /\ o \in Nat /\ sc \in Nat /\ pos <= sc /\ sc + 3 <= l
  <2>1. pos \in Nat /\ o \in Nat
    BY InSight
  <2> QED
    BY <2>1 DEF Sighted
<1>2. /\ g < Ends(k, n) => AtCode(x, sc) = Wait(x, sc)
      /\ g >= Ends(k, n) =>
           \E e \in Nat : /\ o + e = Ends(k, n) /\ e > sc
                          /\ AtCode(x, sc) = Packet(x, Video, Flags(n), Stamp(k, n),
                                                    Chunk(stream[k].data, n), e)
  BY <1>1, PesGives
<1>3. Ends(k, n) \in Nat /\ g \in Nat /\ Pes(k, n) \in Nat
  <2>1. g \in Nat
    BY ReadingIs
  <2> QED
    BY <2>1, AheadIs DEF Ahead
<1>4. CASE g < Ends(k, n)
  <2>1. o + sc <= Pes(k, n)
    BY <1>1, <1>3
  <2> QED
    BY <1>2, <1>4, <2>1, ShortGives
<1>5. CASE ~(g < Ends(k, n))
  <2>1. g >= Ends(k, n)
    BY <1>3, <1>5
  <2>2. PICK e \in Nat : /\ o + e = Ends(k, n) /\ e > sc
                         /\ AtCode(x, sc) = Packet(x, Video, Flags(n), Stamp(k, n),
                                                   Chunk(stream[k].data, n), e)
    BY <1>2, <2>1
  <2>3. Labels(x, Ends(k, n), codec)
    BY LabelsOn
  <2>4. join <= o
    BY DEF Reading
  <2>5. Pes(k, n) >= join /\ e > pos /\ Ends(k, n) <= g
    BY <1>1, <1>3, <2>1, <2>2, <2>4
  <2> DEFINE c == Chunk(stream[k].data, n)
  <2>6. c \in Seq(Int) /\ c # << >>
    <3>1. c \in Seq(0 .. 255) /\ Len(c) \in 1 .. PesChunk
      BY UnitsAre, ChunkIs, SMTT(40) DEF IsAccessUnit, Count
    <3>2. 0 .. 255 \subseteq Int
      OBVIOUS
    <3>3. c \in Seq(Int)
      BY <3>1, <3>2, SeqMonotonic, Zenon
    <3>4. Len(c) # 0
      BY <3>1
    <3>5. c # << >>
      BY <3>4
    <3> QED
      BY <3>3, <3>5
  <2>7. c = Chunk(stream[k].data, n)
    OBVIOUS
  <2> HIDE DEF c
  <2>8. CASE n = 1
    <3>1. Gives(Packet(x, Video, 132, Wrapped(stream[k].pts), c, e), x.buf, pos, outs, codec, o, g)
      BY <2>2, <2>3, <2>5, <2>6, <2>7, <2>8, FirstGives
    <3> QED
      BY <2>2, <2>7, <2>8, <3>1 DEF Flags, Stamp
  <2>9. CASE n # 1
    <3>1. Gives(Packet(x, Video, 128, 0, c, e), x.buf, pos, outs, codec, o, g)
      BY <2>2, <2>3, <2>5, <2>6, <2>7, <2>9, LaterGives
    <3> QED
      BY <2>2, <2>7, <2>9, <3>1 DEF Flags, Stamp
  <2> QED
    BY <2>8, <2>9
<1> QED
  BY <1>4, <1>5

(* Nothing in sight: what may be the beginning of a start code is kept.    *)
LEMMA NothingGives ==
  ASSUME NEW codec, Muxed(codec), NEW x, NEW pos, NEW k, NEW n, NEW outs, NEW o, NEW g, join \in Nat,
         Reading(x, pos, k, n, outs, codec, o, g), FindSc(x.buf, pos) = {}
  PROVE  Gives(Wait(x, KeepTail(Len(x.buf))), x.buf, pos, outs, codec, o, g)
<1> DEFINE l == Len(x.buf)
           q == KeepTail(l)
<1>1. /\ pos \in Nat /\ l \in Nat /\ pos <= l /\ o \in Nat
      /\ \A i : ~(i \in Nat /\ pos <= i /\ i + 3 <= l /\ CodeAt(wire, o + i))
  BY InSight
<1>2. g = o + l /\ g <= Len(wire) /\ Len(wire) \in Nat /\ At(k, n) /\ Near(o + pos, k, n, g)
      /\ o + pos <= Limit(k, n)
  <2>1. g = o + Len(x.buf) /\ g <= Len(wire) /\ Near(o + pos, k, n, g)
    BY DEF Reading
  <2>2. At(k, n) /\ o + pos <= Limit(k, n)
    BY <2>1 DEF Near
  <2>3. Len(wire) \in Nat
    BY StartsAre
  <2> QED
    BY <2>1, <2>2, <2>3
<1>3. join <= o /\ Labels(x, o + pos, codec)
  BY DEF Reading
<1> HIDE DEF l
<1>4. q \in Nat /\ q <= l /\ l <= q + 3 /\ (q = 0 \/ q + 3 = l)
  BY <1>1 DEF KeepTail
<1> HIDE DEF q
<1>5. ASSUME NEW t, t \in o + pos .. o + l - 3 PROVE ~CodeAt(wire, t)
  <2> DEFINE i == t - o
  <2>1. i \in Nat /\ pos <= i /\ i + 3 <= l /\ o + i = t
    BY <1>1, <1>5
  <2> HIDE DEF i
  <2> QED
    BY <1>1, <2>1
<1>6. k \in 1 .. Len(stream) /\ n \in 1 .. Count(k) =>
        /\ Pes(k, n) \in Nat /\ Pes(k, n) + 3 > g /\ g < Ends(k, n)
        /\ Limit(k, n) = Pes(k, n)
  <2> SUFFICES ASSUME k \in 1 .. Len(stream), n \in 1 .. Count(k)
               PROVE  /\ Pes(k, n) \in Nat /\ Pes(k, n) + 3 > g /\ g < Ends(k, n)
                      /\ Limit(k, n) = Pes(k, n)
    OBVIOUS
  <2>1. /\ Limit(k, n) = Pes(k, n) /\ Pes(k, n) \in Nat /\ Ends(k, n) \in Nat
        /\ Pes(k, n) + 10 <= Ends(k, n)
    BY AheadIs DEF Ahead
  <2>2. CodeAt(wire, Pes(k, n))
    <3>1. Carries(wire, Base(k, n), stream[k], n)
      BY AheadIs
    <3>2. StartsWith(wire, Pes(k, n), Video)
      BY <3>1 DEF Carries, PesBytes, Pes
    <3> QED
      BY <3>2 DEF StartsWith, CodeAt
  <2>3. ~(Pes(k, n) \in o + pos .. o + l - 3)
    BY <1>5, <2>2
  <2> QED
    BY <1>1, <1>2, <2>1, <2>3
<1>7. k \in 1 .. Len(stream) => n \in 1 .. Count(k)
  <2>1. k # Len(stream) + 1 \/ k \notin 1 .. Len(stream)
    BY DEF Muxed
  <2> QED
    BY <1>2, <2>1 DEF At
<1>8. o + q <= Limit(k, n)
  <2>1. CASE q = 0
    <3>1. CASE k \in 1 .. Len(stream)
      BY <1>1, <1>2, <1>6, <1>7, <2>1, <3>1
    <3>2. CASE k \notin 1 .. Len(stream)
      <4>1. Limit(k, n) = Len(wire)
        BY <1>2, <3>2, EndIs
      <4> QED
        BY <1>1, <1>2, <2>1, <4>1
    <3> QED
      BY <3>1, <3>2
  <2>2. CASE q # 0
    <3>1. CASE k \in 1 .. Len(stream)
      BY <1>1, <1>2, <1>4, <1>6, <1>7, <2>2, <3>1
    <3>2. CASE k \notin 1 .. Len(stream)
      <4>1. Limit(k, n) = Len(wire)
        BY <1>2, <3>2, EndIs
      <4> QED
        BY <1>1, <1>2, <1>4, <4>1
    <3> QED
      BY <3>1, <3>2
  <2> QED
    BY <2>1, <2>2
<1>9. Near(o + q, k, n, g)
  <2>1. Prev(k, n) >= join => Base(k, n) <= g /\ Base(k, n) <= o + q + 3
    <3> SUFFICES ASSUME Prev(k, n) >= join PROVE Base(k, n) <= g /\ Base(k, n) <= o + q + 3
      OBVIOUS
    <3>1. Base(k, n) <= g
      BY <1>2 DEF Near
    <3>2. Base(k, n) \in Nat
      <4>1. CASE k \in 1 .. Len(stream)
        BY <1>7, <4>1, AheadIs DEF Ahead
      <4>2. CASE k \notin 1 .. Len(stream)
        <5>1. Base(k, n) = Len(wire)
          BY <1>2, <4>2, EndIs
        <5> QED
          BY <1>2, <5>1
      <4> QED
        BY <4>1, <4>2
    <3>3. g <= o + q + 3
      BY <1>1, <1>2, <1>4
    <3>4. g \in Nat /\ o + q + 3 \in Nat
      BY <1>1, <1>2, <1>4
    <3> QED
      BY <3>1, <3>2, <3>3, <3>4
  <2>2. o + q \in Nat /\ join <= o + q
    BY <1>1, <1>3, <1>4
  <2> QED
    BY <1>2, <1>8, <2>1, <2>2 DEF Near
<1>10. Labels(x, o + q, codec)
  <2> SUFFICES ASSUME NEW i \in 1 .. Len(stream), Marked(stream[i], 1),
                      join <= Starts(i) + 29, Starts(i) + 29 < o + q
               PROVE  x.psm = codec
    BY <1>3 DEF Labels
  <2>1. CASE Starts(i) + 29 < o + pos
    BY <1>3, <2>1 DEF Labels
  <2>2. CASE ~(Starts(i) + 29 < o + pos)
    <3>1. Starts(i) \in Nat
      BY StartsAre
    <3>2. o + pos <= Starts(i) + 29
      BY <1>1, <2>2, <3>1
    <3>3. CodeAt(wire, Starts(i) + 29)
      BY <1>2, <3>2, MapsAhead
    <3>4. Starts(i) + 29 \in o + pos .. o + l - 3
      BY <1>1, <1>4, <3>1, <3>2
    <3> QED
      BY <1>5, <3>3, <3>4
  <2> QED
    BY <2>1, <2>2
<1>11. q \in 0 .. Len(x.buf)
  BY <1>1, <1>4 DEF l
<1>12. Reading(x, q, k, n, outs, codec, o, g)
  BY <1>9, <1>10, <1>11 DEF Reading
<1>13. Beyond(k, n, g)
  BY <1>6, <1>7 DEF Beyond
<1>14. Gives(Wait(x, q), x.buf, pos, outs, codec, o, g)
  BY <1>12, <1>13, WaitGives
<1> QED
  BY <1>14 DEF q, l

(* A round of the loop.                                                    *)
LEMMA ScanGives ==
  ASSUME NEW codec, Muxed(codec), NEW k, NEW n, NEW outs, NEW o, NEW g, join \in Joins,
         NEW s, s.status = "Scan", Reading(s.demux, s.pos, k, n, outs, codec, o, g)
  PROVE  Gives(Scan(s), s.demux.buf, s.pos, outs, codec, o, g)
<1> DEFINE x   == s.demux
           pos == s.pos
           l   == Len(x.buf)
           T   == FindSc(x.buf, pos)
           sc  == Smallest(T)
<1>1. join \in Nat
  BY StreamAssumption
<1>2. CASE T = {}
  <2>1. Scan(s) = Wait(x, KeepTail(l))
    BY <1>2 DEF Scan
  <2> QED
    BY <1>1, <1>2, <2>1, NothingGives
<1>3. CASE T # {}
  <2>1. Scan(s) = AtCode(x, sc)
    BY <1>3 DEF Scan
  <2>2. Reading(x, pos, k, n, outs, codec, o, g) /\ Long(x, l)
    BY DEF Long
  <2> HIDE DEF l, x, pos
  <2>3. /\ pos \in Nat /\ l \in Nat /\ o \in Nat
        /\ \A i : i \in T <=> i \in Nat /\ pos <= i /\ i + 3 <= l /\ CodeAt(wire, o + i)
        /\ sc \in T /\ \A i \in T : sc <= i
    BY <1>3, <2>2, InSight DEF l
  <2> HIDE DEF T, sc
  <2>4. sc \in Nat /\ pos <= sc /\ sc + 3 <= l /\ CodeAt(wire, o + sc)
    BY <2>3
  <2>5. ASSUME NEW t \in o + pos .. o + sc - 1 PROVE ~CodeAt(wire, t)
    <3> SUFFICES ASSUME CodeAt(wire, t) PROVE FALSE
      OBVIOUS
    <3> DEFINE i == t - o
    <3>1. i \in Nat /\ pos <= i /\ i + 3 <= l /\ o + i = t /\ i < sc
      BY <2>3, <2>4
    <3> HIDE DEF i
    <3>2. i \in T
      BY <2>3, <3>1
    <3>3. sc <= i
      BY <2>3, <3>2
    <3> QED
      BY <2>4, <3>1, <3>3
  <2>6. Sighted(pos, o, l, sc)
    BY <2>4, <2>5 DEF Sighted
  <2>7. Near(o + pos, k, n, g) /\ g = o + l /\ g <= Len(wire) /\ g \in Nat
    BY <2>2, ReadingIs DEF l
  <2> DEFINE a == o + sc
  <2>8. a \in Nat /\ o + pos <= a /\ a + 3 <= g
    BY <2>3, <2>4, <2>7
  <2>9. CodeAt(wire, a) /\ \A r \in o + pos .. a - 1 : ~CodeAt(wire, r)
    <3>1. \A r \in o + pos .. o + sc - 1 : ~CodeAt(wire, r)
      BY <2>5
    <3>2. CodeAt(wire, a)
      BY <2>4
    <3>3. ASSUME NEW r \in o + pos .. a - 1 PROVE ~CodeAt(wire, r)
      <4>1. r \in o + pos .. o + sc - 1
        BY <2>3, <2>4
      <4> QED
        BY <3>1, <4>1
    <3> QED
      BY <3>2, <3>3
  <2> HIDE DEF a
  <2>10. \/ a + 3 <= Base(k, n) /\ Base(k, n) \in Nat /\ (a + 3 < Len(wire) => wire[a + 4] \in 0 .. 127)
         \/ /\ k \in 1 .. Len(stream) /\ n \in 1 .. Count(k)
            /\ \/ a = Base(k, n)
               \/ Marked(stream[k], n) /\ a \in {Base(k, n) + 14, Base(k, n) + 29}
               \/ a = Pes(k, n)
    BY <2>7, <2>8, <2>9, FirstCode
  <2> USE DEF a
  <2>11. CASE a + 3 <= Base(k, n) /\ Base(k, n) \in Nat /\ (a + 3 < Len(wire) => wire[a + 4] \in 0 .. 127)
    BY <1>1, <2>1, <2>2, <2>6, <2>11, StrayGives DEF x, pos
  <2>12. CASE k \in 1 .. Len(stream) /\ n \in 1 .. Count(k) /\ a = Base(k, n)
    BY <1>1, <2>1, <2>2, <2>6, <2>12, PackGives DEF x, pos
  <2>13. CASE k \in 1 .. Len(stream) /\ n \in 1 .. Count(k) /\ Marked(stream[k], n) /\ a = Base(k, n) + 14
    BY <1>1, <2>1, <2>2, <2>6, <2>13, SystemGives DEF x, pos
  <2>14. CASE k \in 1 .. Len(stream) /\ n \in 1 .. Count(k) /\ Marked(stream[k], n) /\ a = Base(k, n) + 29
    BY <1>1, <2>1, <2>2, <2>6, <2>14, MapGives DEF x, pos
  <2>15. CASE k \in 1 .. Len(stream) /\ n \in 1 .. Count(k) /\ a = Pes(k, n)
    BY <1>1, <2>1, <2>2, <2>6, <2>15, AtPesGives DEF x, pos
  <2> QED
    BY <2>10, <2>11, <2>12, <2>13, <2>14, <2>15
<1> QED
  BY <1>2, <1>3

-----------------------------------------------------------------------------
(* Whole calls, more bytes, and the join.                                  *)

(* What the rounds of a call lead to.                                      *)
LEMMA NextGives ==
  ASSUME NEW codec, Muxed(codec), NEW k, NEW n, NEW outs, NEW o, NEW g, join \in Joins,
         NEW x, NEW y, y = Trimmed(x), Reading(y, 0, k, n, outs, codec, o, g)
  PROVE  Waiting(NextCall(x), y.buf, outs, codec, o, g) \/ Handing(NextCall(x), y.buf, outs, codec, o, g)
<1> DEFINE l == Len(y.buf)
           r == Rounds(y)
           Under(j) == /\ r[j].status = "Scan" /\ r[j].frames = << >> /\ r[j].demux.buf = y.buf
                       /\ r[j].pos >= j
                       /\ \E k1, n1 : Reading(r[j].demux, r[j].pos, k1, n1, outs, codec, o, g)
           Answered(j) == \/ Waiting(r[j], y.buf, outs, codec, o, g)
                          \/ Handing(r[j], y.buf, outs, codec, o, g)
           T == {j \in 0 .. l + 1 : Under(j) \/ Answered(j)}
<1>1. l \in Nat
  BY InSight
<1>2. r[0] = GoOn(y, 0) /\ \A j \in 1 .. l + 1 : r[j] = Scan(r[j - 1])
  BY <1>1, RoundsAre
<1>3. Under(0)
  BY <1>2 DEF GoOn
<1> HIDE DEF r
<1>4. ASSUME NEW j \in 1 .. l + 1, Under(j - 1) PROVE Under(j) \/ Answered(j)
  <2> DEFINE s == r[j - 1]
  <2>1. /\ s.status = "Scan" /\ s.demux.buf = y.buf /\ s.pos >= j - 1
        /\ r[j] = Scan(s)
    BY <1>2, <1>4
  <2>2. PICK k1, n1 : Reading(s.demux, s.pos, k1, n1, outs, codec, o, g)
    BY <1>4
  <2> HIDE DEF s, l
  <2>3. Gives(Scan(s), s.demux.buf, s.pos, outs, codec, o, g)
    BY <2>1, <2>2, ScanGives
  <2>4. Gives(r[j], y.buf, s.pos, outs, codec, o, g)
    BY <2>1, <2>3
  <2>5. s.pos \in Nat
    BY <2>2, InSight
  <2>6. CASE Further(r[j], y.buf, s.pos, outs, codec, o, g)
    <3>1. /\ r[j].status = "Scan" /\ r[j].frames = << >> /\ r[j].demux.buf = y.buf /\ r[j].pos > s.pos
      BY <2>6 DEF Further
    <3>2. PICK k2, n2 : Reading(r[j].demux, r[j].pos, k2, n2, outs, codec, o, g)
      BY <2>6 DEF Further
    <3>3. r[j].pos \in Nat
      BY <3>2, InSight
    <3>4. r[j].pos >= j
      BY <1>1, <2>1, <2>5, <3>1, <3>3
    <3> QED
      BY <3>1, <3>2, <3>4
  <2> QED
    BY <2>4, <2>6 DEF Gives
<1>5. ASSUME NEW j \in 1 .. l + 1, Answered(j - 1) PROVE Answered(j)
  <2>1. r[j - 1].status # "Scan"
    BY <1>5 DEF Waiting, Handing
  <2>2. r[j] = r[j - 1]
    BY <1>2, <2>1 DEF Scan
  <2> QED
    BY <1>5, <2>2
<1> HIDE DEF Under, Answered, l
<1> DEFINE m == l + 1
<1>6. m \in Nat
  BY <1>1
<1>7. 0 \in T /\ \A j \in 1 .. m : j - 1 \in T => j \in T
  BY <1>1, <1>3, <1>4, <1>5
<1> HIDE DEF T
<1>8. 0 .. m \subseteq T
  <2> HIDE DEF m
  <2> QED
    BY <1>6, <1>7, Induction
<1>9. Under(m) \/ Answered(m)
  <2>1. m \in T
    BY <1>6, <1>8
  <2> QED
    BY <2>1 DEF T
<1>10. ~Under(m)
  <2> SUFFICES ASSUME Under(m) PROVE FALSE
    OBVIOUS
  <2>1. r[m].demux.buf = y.buf /\ r[m].pos >= m
    BY DEF Under
  <2>2. PICK k1, n1 : Reading(r[m].demux, r[m].pos, k1, n1, outs, codec, o, g)
    BY DEF Under
  <2>3. r[m].pos \in Nat /\ r[m].pos <= Len(r[m].demux.buf)
    BY <2>2, InSight
  <2>4. Len(r[m].demux.buf) = l
    BY <2>1 DEF l
  <2> QED
    BY <1>1, <2>1, <2>3, <2>4
<1>11. NextCall(x) = r[m]
  BY DEF NextCall, r, l
<1> QED
  BY <1>9, <1>10, <1>11 DEF Answered

(* Forgetting what has been read.                                          *)
LEMMA TrimmedReads ==
  ASSUME NEW codec, NEW x, NEW k, NEW n, NEW outs, NEW o, NEW g,
         Reading(x, x.cursor, k, n, outs, codec, o, g)
  PROVE  Reading(Trimmed(x), 0, k, n, outs, codec, o + x.cursor, g)
<1> DEFINE c == x.cursor
           y == Trimmed(x)
           l == Len(x.buf)
           b == SubSeq(x.buf, c + 1, l)
<1>1. /\ x \in Demuxes /\ o \in Nat /\ join <= o /\ g = o + l /\ g <= Len(wire)
      /\ \A i \in 1 .. l : x.buf[i] = wire[o + i]
      /\ Near(o + c, k, n, g) /\ UnitIs(x, k, n, outs) /\ Labels(x, o + c, codec)
      /\ c \in 0 .. l
  BY DEF Reading
<1>2. x.buf \in Seq(Int) /\ l \in Nat
  BY <1>1, InSight DEF Demuxes
<1> HIDE DEF c
<1>3. c + 1 \in Int /\ l \in Int /\ c \in Nat /\ c <= l /\ \A i \in c + 1 .. l : x.buf[i] \in Int
  <2>1. c \in Nat /\ c <= l
    BY <1>1, <1>2
  <2>2. \A i \in c + 1 .. l : i \in 1 .. Len(x.buf)
    BY <2>1
  <2>3. \A i \in c + 1 .. l : x.buf[i] \in Int
    BY <1>2, <2>2, ElementOfSeq
  <2> QED
    BY <1>2, <2>1, <2>3
<1> DEFINE a == c + 1
<1> HIDE DEF a, l
<1>4. /\ b \in Seq(Int) /\ Len(b) = (IF a <= l THEN l - a + 1 ELSE 0)
      /\ \A i \in 1 .. l - a + 1 : b[i] = x.buf[a + i - 1]
  BY <1>3, SubSeqProperties DEF a
<1> HIDE DEF b
<1>5. Len(b) = l - c
  BY <1>2, <1>3, <1>4 DEF a
<1>6. ASSUME NEW i \in 1 .. l - c PROVE b[i] = wire[o + c + i]
  <2>1. i \in 1 .. l - a + 1 /\ a + i - 1 = c + i /\ c + i \in 1 .. l /\ o + (c + i) = o + c + i
    BY <1>1, <1>2, <1>3 DEF a
  <2>2. b[i] = x.buf[c + i]
    BY <1>4, <2>1
  <2>3. x.buf[c + i] = wire[o + (c + i)]
    BY <1>1, <2>1
  <2> QED
    BY <2>1, <2>2, <2>3
<1>7. /\ y \in Demuxes /\ y.buf = b /\ y.cursor = 0 /\ y.au = x.au /\ y.pts = x.pts
      /\ y.open = x.open /\ y.psm = x.psm
  <2>1. y = [x EXCEPT !.buf = b, !.cursor = 0]
    BY DEF Trimmed, b, c, l
  <2> HIDE DEF y
  <2> QED
    BY <1>1, <1>4, <2>1 DEF Demuxes
<1> HIDE DEF y
<1>8. UnitIs(y, k, n, outs)
  BY <1>1, <1>7 DEF UnitIs
<1>9. Labels(y, o + c, codec)
  BY <1>1, <1>7 DEF Labels
<1>10. o + c \in Nat /\ join <= o + c /\ g = o + c + (l - c) /\ 0 \in 0 .. l - c /\ o + c + 0 = o + c
  <2>1. join \in Nat \/ join \notin Nat
    OBVIOUS
  <2>2. join <= o + c
    BY <1>1 DEF Near
  <2> QED
    BY <1>1, <1>2, <1>3, <2>2
<1>11. Reading(y, 0, k, n, outs, codec, o + c, g)
  <2> DEFINE q == o + c
             h == l - c
  <2>1. /\ q \in Nat /\ join <= q /\ g = q + h /\ 0 \in 0 .. h /\ q + 0 = q
        /\ Len(y.buf) = h /\ Labels(y, q, codec) /\ Near(q, k, n, g)
        /\ \A i \in 1 .. h : y.buf[i] = wire[q + i]
    BY <1>1, <1>5, <1>6, <1>7, <1>9, <1>10
  <2> HIDE DEF q, h
  <2>2. Reading(y, 0, k, n, outs, codec, q, g)
    BY <1>1, <1>7, <1>8, <2>1 DEF Reading
  <2> QED
    BY <2>2 DEF q
<1> QED
  BY <1>11 DEF y, c

(* More bytes.                                                             *)
LEMMA ArrivedReads ==
  ASSUME NEW codec, Muxed(codec), NEW x, NEW k, NEW n, NEW outs, NEW o, NEW g,
         Reading(x, x.cursor, k, n, outs, codec, o, g),
         NEW m \in Nat, g + m <= Len(wire), join \in Nat
  PROVE  LET y == [x EXCEPT !.buf = @ \o SubSeq(wire, g + 1, g + m)]
         IN Reading(y, y.cursor, k, n, outs, codec, o, g + m)
<1> DEFINE l == Len(x.buf)
           a == g + 1
           h == g + m
           t == SubSeq(wire, a, h)
           b == x.buf \o t
           y == [x EXCEPT !.buf = b]
           c == x.cursor
<1>1. /\ x \in Demuxes /\ o \in Nat /\ join <= o /\ g = o + l /\ g <= Len(wire)
      /\ \A i \in 1 .. l : x.buf[i] = wire[o + i]
      /\ Near(o + c, k, n, g) /\ UnitIs(x, k, n, outs) /\ Labels(x, o + c, codec)
      /\ c \in 0 .. l
  BY DEF Reading
<1>2. x.buf \in Seq(Int) /\ l \in Nat /\ g \in Nat /\ Len(wire) \in Nat /\ wire \in Seq(Int)
  <2>1. x.buf \in Seq(Int)
    BY <1>1 DEF Demuxes
  <2>2. l \in Nat
    BY InSight
  <2> QED
    BY <1>1, <2>1, <2>2, StartsAre
<1>3. a \in Int /\ h \in Int /\ h - a + 1 = m /\ (a <= h \/ m = 0) /\ \A i \in a .. h : wire[i] \in Int
  <2>1. \A i \in a .. h : i \in 1 .. Len(wire)
    BY <1>2
  <2>2. \A i \in a .. h : wire[i] \in Int
    BY <1>2, <2>1, ElementOfSeq
  <2> QED
    BY <1>2, <2>2
<1>4. \A i \in 1 .. m : a + i - 1 = g + i
  BY <1>2
<1> HIDE DEF a, l
<1>5. h = o + (l + m) /\ h \in Nat /\ g <= h /\ l + m \in Nat
  BY <1>1, <1>2
<1> HIDE DEF h
<1>6. /\ t \in Seq(Int) /\ Len(t) = (IF a <= h THEN h - a + 1 ELSE 0)
      /\ \A i \in 1 .. h - a + 1 : t[i] = wire[a + i - 1]
  BY <1>3, SubSeqProperties
<1>7. Len(t) = m /\ \A i \in 1 .. m : t[i] = wire[g + i]
  BY <1>3, <1>4, <1>6
<1> HIDE DEF t
<1>8. /\ b \in Seq(Int) /\ Len(b) = l + m
      /\ \A i \in 1 .. l : b[i] = x.buf[i]
      /\ \A i \in 1 .. m : b[l + i] = t[i]
  <2> DEFINE s == x.buf
  <2>1. s \in Seq(Int) /\ Len(s) = l
    BY <1>2 DEF l
  <2> HIDE DEF s
  <2>2. s \o t \in Seq(Int) /\ Len(s \o t) = Len(s) + Len(t)
        /\ \A i \in 1 .. Len(s) + Len(t) : (s \o t)[i] = IF i <= Len(s) THEN s[i] ELSE t[i - Len(s)]
    BY <1>6, <2>1, ConcatProperties
  <2>3. s \o t \in Seq(Int) /\ Len(s \o t) = l + m
        /\ \A i \in 1 .. l + m : (s \o t)[i] = IF i <= l THEN s[i] ELSE t[i - l]
    BY <1>7, <2>1, <2>2
  <2>4. ASSUME NEW i \in 1 .. l PROVE (s \o t)[i] = s[i]
    BY <1>2, <2>3
  <2>5. ASSUME NEW i \in 1 .. m PROVE (s \o t)[l + i] = t[i]
    <3> DEFINE i2 == l + i
    <3>1. i2 \in 1 .. l + m /\ ~(i2 <= l) /\ i2 - l = i
      BY <1>2
    <3> HIDE DEF i2
    <3>2. (s \o t)[i2] = t[i]
      BY <2>3, <3>1
    <3> QED
      BY <3>2 DEF i2
  <2> QED
    BY <2>3, <2>4, <2>5 DEF s
<1> HIDE DEF b
<1>9. ASSUME NEW i \in 1 .. l + m PROVE b[i] = wire[o + i]
  <2>1. CASE i \in 1 .. l
    BY <1>1, <1>8, <2>1 DEF l
  <2>2. CASE i \notin 1 .. l
    <3> DEFINE j == i - l
    <3>1. g = o + l
      BY <1>1 DEF l
    <3>2. j \in 1 .. m /\ l + j = i /\ g + j = o + i
      BY <1>1, <1>2, <2>2, <3>1
    <3> HIDE DEF j
    <3>5. b[l + j] = t[j]
      BY <1>8, <3>2
    <3>4. t[j] = wire[g + j]
      BY <1>7, <3>2
    <3> QED
      BY <3>2, <3>5, <3>4
  <2> QED
    BY <2>1, <2>2
<1>10. /\ y \in Demuxes /\ y.buf = b /\ y.cursor = c /\ y.au = x.au /\ y.pts = x.pts
       /\ y.open = x.open /\ y.psm = x.psm
  BY <1>1, <1>8 DEF Demuxes
<1>11. y = [x EXCEPT !.buf = @ \o SubSeq(wire, g + 1, g + m)]
  BY DEF b, t, a, h
<1> HIDE DEF y
<1>12. UnitIs(y, k, n, outs)
  BY <1>1, <1>10 DEF UnitIs
<1>13. Labels(y, o + c, codec)
  BY <1>1, <1>10 DEF Labels
<1>14. Near(o + c, k, n, h)
  <2>1. Prev(k, n) >= join => Base(k, n) <= h
    <3> SUFFICES ASSUME Prev(k, n) >= join PROVE Base(k, n) <= h
      OBVIOUS
    <3>1. Base(k, n) <= g /\ At(k, n) /\ ~(k = 1 /\ n = 1)
      <4>1. k = 1 /\ n = 1 => Prev(k, n) = -1
        BY DEF Prev
      <4>2. ~(-1 >= join)
        OBVIOUS
      <4> QED
        BY <1>1, <4>1, <4>2 DEF Near
    <3>2. Base(k, n) \in Nat
      <4>1. CASE k \in 1 .. Len(stream) /\ n \in 1 .. Count(k)
        BY <4>1, AheadIs DEF Ahead
      <4>2. CASE ~(k \in 1 .. Len(stream) /\ n \in 1 .. Count(k))
        BY <1>2, <3>1, <4>2, EndIs
      <4> QED
        BY <4>1, <4>2
    <3> QED
      BY <1>2, <1>5, <3>1, <3>2
  <2> QED
    BY <1>1, <2>1 DEF Near
<1>15. c \in 0 .. l + m /\ h <= Len(wire)
  BY <1>1, <1>2 DEF h
<1>16. Reading(y, c, k, n, outs, codec, o, h)
  BY <1>1, <1>5, <1>8, <1>9, <1>10, <1>12, <1>13, <1>14, <1>15 DEF Reading
<1> QED
  BY <1>10, <1>11, <1>16 DEF h

(* A place where no unit that was received is open.                        *)
LEMMA FreshReads ==
  ASSUME NEW codec, Muxed(codec), join \in Nat, join < Len(wire),
         NEW k, NEW n, At(k, n), join <= Limit(k, n), ~(Prev(k, n) >= join)
  PROVE  Reading(EmptyDemux, 0, k, n, << >>, codec, join, join)
<1> DEFINE y == EmptyDemux
<1>1. y \in Demuxes /\ Len(y.buf) = 0 /\ ~y.open /\ y.psm = "none"
  BY DEF Demuxes, EmptyDemux
<1> HIDE DEF y
<1>2. ~Opened(k, n)
  BY OpenedIs
<1>3. UnitIs(y, k, n, << >>)
  BY <1>1, <1>2 DEF UnitIs
<1>4. Labels(y, join, codec)
  <2>1. \A i \in 1 .. Len(stream) : Starts(i) \in Nat
    BY StartsAre
  <2> QED
    BY <1>1, <2>1 DEF Labels
<1>5. Near(join, k, n, join)
  BY DEF Near
<1>6. Len(wire) \in Nat
  BY StartsAre
<1> DEFINE o == join
<1>7. /\ o + 0 = o /\ o \in Nat /\ o <= Len(wire) /\ join <= o /\ Near(o, k, n, o)
      /\ Labels(y, o, codec)
  BY <1>4, <1>5, <1>6
<1> HIDE DEF o
<1>8. Reading(y, 0, k, n, << >>, codec, o, o)
  BY <1>1, <1>3, <1>7 DEF Reading
<1> QED
  BY <1>8 DEF o, y

(* A receiver that joins.                                                  *)
LEMMA JoinReads ==
  ASSUME NEW codec, Muxed(codec), join \in Nat, join < Len(wire)
  PROVE  \E k, n : Reading(EmptyDemux, 0, k, n, << >>, codec, join, join)
<1> DEFINE K == Len(stream)
           T == {k \in 1 .. K : Pes(k, Count(k)) >= join}
<1>1. K \in Nat \ {0} /\ Len(wire) \in Nat
  BY StartsAre DEF Muxed
<1>2. \A k \in 1 .. K : Count(k) \in Nat \ {0}
  BY UnitsAre
<1>3. \A k \in 1 .. K : \A n \in 1 .. Count(k) : Pes(k, n) \in Nat
  BY PacketShape
<1>4. CASE T = {}
  <2>1. At(K + 1, 1) /\ Limit(K + 1, 1) = Len(wire)
    BY <1>1 DEF At, Limit
  <2>2. Prev(K + 1, 1) = Pes(K, Count(K))
    BY <1>1 DEF Prev
  <2>3. K \notin T /\ Count(K) \in 1 .. Count(K)
    BY <1>1, <1>2, <1>4
  <2>4. ~(Prev(K + 1, 1) >= join)
    BY <1>1, <2>2, <2>3
  <2>5. join <= Limit(K + 1, 1)
    BY <1>1, <2>1
  <2> QED
    BY <2>1, <2>4, <2>5, FreshReads
<1>5. CASE T # {}
  <2>1. T \subseteq Nat
    OBVIOUS
  <2>2. PICK k \in T : \A i \in T : k <= i
    BY <1>5, <2>1, LeastNumber
  <2> DEFINE U == {n \in 1 .. Count(k) : Pes(k, n) >= join}
  <2>3. k \in 1 .. K /\ Count(k) \in Nat \ {0} /\ Count(k) \in U
    BY <1>2
  <2>4. U \subseteq Nat /\ U # {}
    BY <2>3
  <2>5. PICK n \in U : \A i \in U : n <= i
    BY <2>4, LeastNumber
  <2>6. n \in 1 .. Count(k) /\ Pes(k, n) >= join /\ Pes(k, n) \in Nat
    BY <1>3, <2>3
  <2>7. At(k, n) /\ Limit(k, n) = Pes(k, n)
    BY <1>1, <2>3, <2>6 DEF At, Limit
  <2>8. ~(Prev(k, n) >= join)
    <3>1. CASE n > 1
      <4>1. n - 1 \in 1 .. Count(k) /\ ~(n <= n - 1)
        BY <2>3, <2>6, <3>1
      <4>2. n - 1 \notin U
        BY <2>5, <4>1
      <4>3. Prev(k, n) = Pes(k, n - 1)
        BY <3>1 DEF Prev
      <4> QED
        BY <4>1, <4>2, <4>3
    <3>2. CASE ~(n > 1) /\ k > 1
      <4>1. k - 1 \in 1 .. K /\ ~(k <= k - 1)
        BY <1>1, <2>3, <3>2
      <4>2. k - 1 \notin T
        BY <2>2, <4>1
      <4>3. Prev(k, n) = Pes(k - 1, Count(k - 1))
        BY <3>2 DEF Prev
      <4> QED
        BY <4>1, <4>2, <4>3
    <3>3. CASE ~(n > 1) /\ ~(k > 1)
      BY <3>3 DEF Prev
    <3> QED
      BY <3>1, <3>2, <3>3
  <2>9. join <= Limit(k, n)
    BY <2>6, <2>7
  <2> HIDE DEF U
  <2> QED
    BY <2>7, <2>8, <2>9, FreshReads
<1> QED
  BY <1>4, <1>5

-----------------------------------------------------------------------------
(* The invariant.                                                          *)

(* What the stream determines does not change while it stays.              *)
LEMMA Steady ==
  ASSUME stream' = stream
  PROVE  /\ \A k : Count(k)' = Count(k) /\ Starts(k)' = Starts(k)
         /\ \A k, n : Base(k, n)' = Base(k, n)
         /\ \A k, n : Pes(k, n)' = Pes(k, n) /\ Ends(k, n)' = Ends(k, n)
<1>1. \A k : Count(k)' = Count(k)
  BY DEF Count
<1>2. \A k : Starts(k)' = Starts(k)
  BY DEF Starts
<1>3. \A k, n : Base(k, n)' = Base(k, n)
  BY <1>2 DEF Base
<1>4. \A k, n : Pes(k, n)' = Pes(k, n)
  BY <1>3 DEF Pes
<1>5. \A k, n : Ends(k, n)' = Ends(k, n)
  BY <1>4 DEF Ends
<1> QED
  BY <1>1, <1>2, <1>3, <1>4, <1>5

(* The invariant.  The receiver's place, and whether it waits for the end  *)
(* of the packet that is next.                                             *)
Held(codec, k, n, o) == Reading(demux, demux.cursor, k, n, out, codec, o, got)
Short(k, n) == Beyond(k, n, got)

(* The end of the stream was announced.                                    *)
Over ==
  /\ got = Len(wire) /\ demux \in Demuxes /\ ~demux.open /\ out \in Seq(Frames)
  /\ \/ \E j \in 1 .. Len(stream) : Handed(out, j, Len(stream) + 1)
     \/ Pes(Len(stream), 1) < join /\ out = << >>

Sending(codec) == Muxed(codec) /\ join \in Joins /\ join < Len(wire)
Receiving(codec) ==
  \/ said = "None" /\ got = join /\ demux = EmptyDemux /\ out = << >>
  \/ said \in {"Appended", "Ok"} /\ \E k, n, o : Held(codec, k, n, o)
  \/ said = "Again" /\ \E k, n, o : Held(codec, k, n, o) /\ Short(k, n)
  \/ said \in {"Flushed", "Eof"} /\ Over

Unsent ==
  /\ stream = << >> /\ wire = << >> /\ got = 0 /\ demux = EmptyDemux /\ out = << >>
  /\ said = "None"
PsInv == Unsent \/ \E codec \in Codecs : Sending(codec) /\ Receiving(codec)

(* What is on the wire stays.                                              *)
LEMMA SendingStays ==
  ASSUME stream' = stream, wire' = wire, join' = join, NEW codec, Sending(codec)
  PROVE  Sending(codec)'
BY DEF Sending, Muxed

(* The receiver's place, after a step.                                     *)
LEMMA HeldNext ==
  ASSUME stream' = stream, wire' = wire, join' = join, NEW codec, NEW k, NEW n, NEW o,
         Reading(demux', demux'.cursor, k, n, out', codec, o, got')
  PROVE  Held(codec, k, n, o)'
<1> USE Steady
<1>1. Opened(k, n)' = Opened(k, n) /\ Prev(k, n)' = Prev(k, n) /\ Limit(k, n)' = Limit(k, n)
  BY DEF Opened, Prev, Limit, Cur
<1>2. At(k, n)' = At(k, n) /\ Whole(k, n)' = Whole(k, n)
  BY DEF At, Whole
<1>4. \A j : FirstUnit(j)' = FirstUnit(j)
  BY DEF FirstUnit
<1>5. \A u : Labelled(u)' = Labelled(u)
  BY DEF Labelled
<1> QED
  BY <1>1, <1>2, <1>4, <1>5 DEF Held, Reading, Near, UnitIs, Handed, Matches, Labels, Cur

(* The end of the stream, after a step.                                    *)
LEMMA OverNext ==
  ASSUME stream' = stream, wire' = wire, join' = join, got' = Len(wire),
         demux' \in Demuxes, ~demux'.open, out' \in Seq(Frames),
         \/ \E j \in 1 .. Len(stream) : Handed(out', j, Len(stream) + 1)
         \/ Pes(Len(stream), 1) < join /\ out' = << >>
  PROVE  Over'
<1> USE Steady
<1>1. \A j : FirstUnit(j)' = FirstUnit(j)
  BY DEF FirstUnit
<1>2. \A u : Labelled(u)' = Labelled(u)
  BY DEF Labelled
<1> QED
  BY <1>1, <1>2 DEF Over, Handed, Matches

(* That the next packet is incomplete, after a step.                       *)
LEMMA ShortNext ==
  ASSUME stream' = stream, NEW k, NEW n, Beyond(k, n, got')
  PROVE  Short(k, n)'
BY Steady DEF Short, Beyond

(* Sending, arriving, taking and flushing keep the invariant.              *)
LEMMA SendKeeps ==
  ASSUME PsInv, Send
  PROVE  PsInv'
<1>1. stream = << >>
  BY DEF Send
<1>2. Unsent
  <2>1. \A codec : ~Sending(codec)
    BY <1>1 DEF Sending, Muxed
  <2> QED
    BY <2>1 DEF PsInv
<1>3. PICK codec \in Codecs, n \in 1 .. MaxUnits :
       \E ds \in [1 .. n -> Units[codec]] :
         /\ stream' = [k \in 1 .. n |-> [codec |-> codec, data |-> ds[k], pts |-> k - 2]]
         /\ \A k \in 1 .. n : Muxable(stream'[k])
         /\ wire' = Flatten([k \in 1 .. n |-> MuxFrame(stream'[k])])
  BY DEF Send
<1>4. PICK ds \in [1 .. n -> Units[codec]] :
         /\ stream' = [k \in 1 .. n |-> [codec |-> codec, data |-> ds[k], pts |-> k - 2]]
         /\ \A k \in 1 .. n : Muxable(stream'[k])
         /\ wire' = Flatten([k \in 1 .. n |-> MuxFrame(stream'[k])])
  BY <1>3
<1>5. n \in Nat \ {0}
  BY StreamAssumption
<1>6. Len(stream') = n
  BY <1>4, <1>5
<1>7. \A k \in 1 .. n : /\ stream'[k].codec = codec /\ stream'[k].data = ds[k]
                        /\ stream'[k].pts = k - 2
  BY <1>4
<1>8. Muxed(codec)'
  <2>1. wire' = Flatten([k \in 1 .. Len(stream') |-> MuxFrame(stream'[k])])
    BY <1>4, <1>6
  <2>2. \A k \in 1 .. Len(stream') :
          /\ stream'[k].codec = codec /\ stream'[k].data \in Units[codec]
          /\ Muxable(stream'[k]) /\ stream'[k].pts = k - 2
    BY <1>4, <1>6, <1>7
  <2>3. codec \in Codecs /\ Len(stream') \in Nat \ {0}
    BY <1>5, <1>6
  <2> QED
    BY <2>1, <2>2, <2>3 DEF Muxed
<1>9. /\ join' \in Joins /\ join' < Len(wire') /\ got' = join'
      /\ demux' = EmptyDemux /\ out' = << >> /\ said' = "None"
  BY <1>2 DEF Send, Unsent
<1>10. Sending(codec)' /\ Receiving(codec)'
  BY <1>8, <1>9 DEF Sending, Receiving
<1> QED
  BY <1>10 DEF PsInv

LEMMA ArriveKeeps ==
  ASSUME PsInv, Arrive
  PROVE  PsInv'
<1>1. PICK m \in Pieces :
        /\ got + m <= Len(wire)
        /\ demux' = [demux EXCEPT !.buf = @ \o SubSeq(wire, got + 1, got + m)]
        /\ got' = got + m
  BY DEF Arrive
<1>2. /\ said' = "Appended" /\ stream' = stream /\ wire' = wire /\ join' = join /\ out' = out
      /\ said \in {"None", "Again"}
  BY DEF Arrive
<1>3. m \in Nat \ {0}
  BY StreamAssumption
<1>4. ~Unsent
  BY <1>1, <1>3 DEF Unsent
<1>5. PICK codec \in Codecs : Sending(codec) /\ Receiving(codec)
  BY <1>4 DEF PsInv
<1>6. Muxed(codec) /\ join \in Nat /\ join < Len(wire)
  BY <1>5, StreamAssumption DEF Sending
<1>7. \E k, n, o : Reading(demux, demux.cursor, k, n, out, codec, o, got)
  <2>1. CASE said = "None"
    <3>1. PICK k, n : Reading(EmptyDemux, 0, k, n, << >>, codec, join, join)
      BY <1>6, JoinReads
    <3>2. got = join /\ demux = EmptyDemux /\ out = << >>
      BY <1>5, <2>1 DEF Receiving
    <3>3. EmptyDemux.cursor = 0
      BY DEF EmptyDemux
    <3> QED
      BY <3>1, <3>2, <3>3
  <2>2. CASE said = "Again"
    BY <1>5, <2>2 DEF Receiving, Held
  <2> QED
    BY <1>2, <2>1, <2>2
<1>8. PICK k, n, o : Reading(demux, demux.cursor, k, n, out, codec, o, got)
  BY <1>7
<1> DEFINE y == [demux EXCEPT !.buf = @ \o SubSeq(wire, got + 1, got + m)]
           h == got + m
<1>13. Reading(y, y.cursor, k, n, out, codec, o, h)
  BY <1>1, <1>3, <1>6, <1>8, ArrivedReads
<1>14. demux' = y /\ out' = out /\ got' = h
  BY <1>1, <1>2
<1> HIDE DEF y, h
<1>9. Reading(demux', demux'.cursor, k, n, out', codec, o, got')
  BY <1>13, <1>14
<1>10. Held(codec, k, n, o)'
  BY <1>2, <1>9, HeldNext
<1>11. Sending(codec)'
  BY <1>2, <1>5, SendingStays
<1>12. Receiving(codec)'
  BY <1>2, <1>10 DEF Receiving
<1> QED
  BY <1>11, <1>12 DEF PsInv

LEMMA TakeKeeps ==
  ASSUME PsInv, Take
  PROVE  PsInv'
<1> DEFINE a == NextCall(demux)
<1>1. /\ demux' = a.demux /\ said' = a.status /\ out' = out \o a.frames
      /\ stream' = stream /\ wire' = wire /\ join' = join /\ got' = got
      /\ said \in {"Appended", "Ok"}
  BY DEF Take
<1>2. ~Unsent
  BY <1>1 DEF Unsent
<1>3. PICK codec \in Codecs : Sending(codec) /\ Receiving(codec)
  BY <1>2 DEF PsInv
<1>4. Muxed(codec) /\ join \in Joins
  BY <1>3 DEF Sending
<1>5. PICK k, n, o1 : Reading(demux, demux.cursor, k, n, out, codec, o1, got)
  BY <1>1, <1>3 DEF Receiving, Held
<1> DEFINE y == Trimmed(demux)
<1>6. PICK o : Reading(y, 0, k, n, out, codec, o, got)
  BY <1>5, TrimmedReads
<1>7. Waiting(a, y.buf, out, codec, o, got) \/ Handing(a, y.buf, out, codec, o, got)
  BY <1>4, <1>6, NextGives
<1>8. out \in Seq(Frames)
  BY <1>5 DEF Reading, UnitIs
<1>9. Sending(codec)'
  BY <1>1, <1>3, SendingStays
<1> HIDE DEF a, y
<1>10. CASE Waiting(a, y.buf, out, codec, o, got)
  <2>1. PICK k2, n2 : /\ Reading(a.demux, a.demux.cursor, k2, n2, out, codec, o, got)
                      /\ Beyond(k2, n2, got)
    BY <1>10 DEF Waiting
  <2>2. a.status = "Again" /\ a.frames = << >>
    BY <1>10 DEF Waiting
  <2>3. out' = out
    BY <1>1, <1>8, <2>2
  <2>7. Reading(demux', demux'.cursor, k2, n2, out', codec, o, got')
    BY <1>1, <2>1, <2>3
  <2>4. Held(codec, k2, n2, o)'
    BY <1>1, <2>7, HeldNext
  <2>5. Short(k2, n2)'
    BY <1>1, <2>1, ShortNext
  <2>6. Receiving(codec)'
    BY <1>1, <2>2, <2>4, <2>5 DEF Receiving
  <2> QED
    BY <1>9, <2>6 DEF PsInv
<1>11. CASE Handing(a, y.buf, out, codec, o, got)
  <2>1. PICK k2, n2 : Reading(a.demux, a.demux.cursor, k2, n2, out \o a.frames, codec, o, got)
    BY <1>11 DEF Handing
  <2>2. a.status = "Ok"
    BY <1>11 DEF Handing
  <2>5. Reading(demux', demux'.cursor, k2, n2, out', codec, o, got')
    BY <1>1, <2>1
  <2>3. Held(codec, k2, n2, o)'
    BY <1>1, <2>5, HeldNext
  <2>4. Receiving(codec)'
    BY <1>1, <2>2, <2>3 DEF Receiving
  <2> QED
    BY <1>9, <2>4 DEF PsInv
<1> QED
  BY <1>7, <1>10, <1>11

LEMMA FlushKeeps ==
  ASSUME PsInv, Flush
  PROVE  PsInv'
<1>1. /\ said \in {"Again", "Flushed"} /\ got = Len(wire)
      /\ out' = IF HasUnit(demux) THEN Append(out, FrameOf(demux)) ELSE out
      /\ said' = IF HasUnit(demux) THEN "Flushed" ELSE "Eof"
      /\ demux' = [demux EXCEPT !.au = << >>, !.open = FALSE]
      /\ stream' = stream /\ wire' = wire /\ join' = join /\ got' = got
  BY DEF Flush
<1>2. ~Unsent
  BY <1>1 DEF Unsent
<1>3. PICK codec \in Codecs : Sending(codec) /\ Receiving(codec)
  BY <1>2 DEF PsInv
<1>4. Muxed(codec) /\ join \in Nat
  BY <1>3, StreamAssumption DEF Sending
<1>5. Sending(codec)'
  BY <1>1, <1>3, SendingStays
<1>6. said' \in {"Flushed", "Eof"}
  BY <1>1
<1> DEFINE K == Len(stream)
<1>7. K \in Nat \ {0}
  BY <1>4 DEF Muxed
<1> SUFFICES Over'
  BY <1>5, <1>6 DEF PsInv, Receiving
<1>8. ASSUME demux \in Demuxes PROVE demux' \in Demuxes /\ ~demux'.open
  <2> DEFINE e == << >>
  <2>1. e \in Seq(Int)
    OBVIOUS
  <2>2. demux' = [demux EXCEPT !.au = e, !.open = FALSE]
    BY <1>1
  <2> HIDE DEF e
  <2> QED
    BY <1>8, <2>1, <2>2 DEF Demuxes
<1>9. CASE said = "Flushed"
  <2>1. Over
    BY <1>3, <1>9 DEF Receiving
  <2>2. out' = out
    BY <1>1, <2>1 DEF Over, HasUnit
  <2> QED
    BY <1>1, <1>8, <2>1, <2>2, OverNext DEF Over
<1>10. CASE said = "Again"
  <2>1. PICK k, n, o : Held(codec, k, n, o) /\ Short(k, n)
    BY <1>3, <1>10 DEF Receiving
  <2>2. Reading(demux, demux.cursor, k, n, out, codec, o, got) /\ Beyond(k, n, got)
    BY <2>1 DEF Held, Short
  <2>3. At(k, n) /\ demux \in Demuxes /\ out \in Seq(Frames)
    BY <2>2 DEF Reading, Near, UnitIs
  <2>4. ~(k \in 1 .. K /\ n \in 1 .. Count(k))
    <3> SUFFICES ASSUME k \in 1 .. K, n \in 1 .. Count(k) PROVE FALSE
      OBVIOUS
    <3>1. Ends(k, n) \in Nat /\ Ends(k, n) <= Len(wire) /\ Len(wire) \in Nat
      BY <1>4, PacketShape, StartsAre
    <3> QED
      BY <1>1, <2>2, <3>1 DEF Beyond
  <2>5. k = K + 1 /\ n = 1
    BY <1>4, <2>3, <2>4, EndIs
  <2>6. Cur(k, n) = K /\ Whole(k, n) = Count(K)
    BY <1>7, <2>5 DEF Cur, Whole
  <2>7. CASE Opened(k, n)
    <3> DEFINE f == FrameOf(demux)
    <3>1. HasUnit(demux)
      BY <1>4, <2>2, <2>7, OpenIs
    <3>2. f \in Frames /\ Matches(f, K)
      BY <1>4, <2>2, <2>6, <2>7, FrameMatches
    <3>3. PICK j \in 1 .. K : Handed(out, j, K)
      BY <2>2, <2>6, <2>7 DEF Reading, UnitIs
    <3> HIDE DEF f
    <3>4. out \o << f >> \in Seq(Frames) /\ Handed(out \o << f >>, j, K + 1)
      BY <1>7, <2>3, <3>2, <3>3, HandedMore
    <3>5. out' = out \o << f >>
      BY <1>1, <2>3, <3>1, <3>2 DEF f
    <3> QED
      BY <1>1, <1>8, <2>3, <3>4, <3>5, OverNext
  <2>8. CASE ~Opened(k, n)
    <3>1. ~demux.open /\ out = << >>
      BY <2>2, <2>8 DEF Reading, UnitIs
    <3>2. out' = << >>
      BY <1>1, <3>1 DEF HasUnit
    <3>3. Pes(K, 1) \in Nat
      <4>1. Count(K) \in Nat \ {0} /\ K \in 1 .. K
        BY <1>4, <1>7, UnitsAre
      <4> QED
        BY <1>4, <4>1, PacketShape
    <3>4. Pes(K, 1) < join
      BY <1>4, <1>7, <2>6, <2>8, <3>3 DEF Opened
    <3> QED
      BY <1>1, <1>8, <2>3, <3>2, <3>4, OverNext
  <2> QED
    BY <2>7, <2>8
<1> QED
  BY <1>1, <1>9, <1>10

(* The invariant is inductive.                                             *)
LEMMA StreamInductive == PsInv /\ [PsNext]_psVars => PsInv'
<1> SUFFICES ASSUME PsInv, [PsNext]_psVars PROVE PsInv'
  OBVIOUS
<1>1. CASE UNCHANGED psVars
  <2>1. CASE Unsent
    BY <1>1, <2>1 DEF psVars, Unsent, PsInv
  <2>2. CASE \E codec \in Codecs : Sending(codec) /\ Receiving(codec)
    <3>1. PICK codec \in Codecs : Sending(codec) /\ Receiving(codec)
      BY <2>2
    <3>2. stream' = stream /\ wire' = wire /\ join' = join /\ got' = got /\ demux' = demux
          /\ out' = out /\ said' = said
      BY <1>1 DEF psVars
    <3>3. Sending(codec)'
      BY <3>1, <3>2, SendingStays
    <3>4. \A k, n, o : Held(codec, k, n, o) => Held(codec, k, n, o)'
      BY <3>2, HeldNext DEF Held
    <3>5. \A k, n : Short(k, n) => Short(k, n)'
      BY <3>2, ShortNext DEF Short
    <3>6. Over => Over'
      BY <3>2, OverNext DEF Over
    <3>7. Receiving(codec)'
      BY <3>1, <3>2, <3>4, <3>5, <3>6 DEF Receiving
    <3> QED
      BY <3>3, <3>7 DEF PsInv
  <2> QED
    BY <2>1, <2>2 DEF PsInv
<1>2. CASE PsNext
  BY <1>2, SendKeeps, ArriveKeeps, TakeKeeps, FlushKeeps DEF PsNext
<1> QED
  BY <1>1, <1>2

-----------------------------------------------------------------------------
(* What the invariant says of the frames.                                  *)

(* Where the properties see a unit begin and end.                          *)
LEMMA FirstIs ==
  ASSUME NEW codec, Muxed(codec), NEW k \in 1 .. Len(stream)
  PROVE  /\ FirstPes(k) = Pes(k, 1) /\ FirstEnd(k) = Ends(k, 1)
         /\ Pes(k, 1) \in Nat /\ Ends(k, 1) \in Nat /\ Pes(k, 1) < Ends(k, 1)
         /\ Starts(k) \in Nat /\ Starts(k) < Pes(k, 1)
<1> DEFINE u == stream[k]
           d == u.data
<1>1. /\ IsUnit(d) /\ Count(k) \in Nat \ {0} /\ Fragments(d) = Count(k) /\ Len(d) \in Nat
  BY UnitsAre DEF IsAccessUnit, Count
<1>2. 1 \in 1 .. Count(k)
  BY <1>1
<1>3. Base(k, 1) = Starts(k)
  BY <1>2, PacketsAre
<1>4. /\ Base(k, 1) \in Nat /\ Pes(k, 1) \in Nat /\ Ends(k, 1) \in Nat
      /\ Pes(k, 1) = Base(k, 1) + (IF Marked(u, 1) THEN 49 ELSE 14)
      /\ Pes(k, 1) + 10 <= Ends(k, 1)
  BY <1>2, PacketShape
<1> DEFINE c == Len(Chunk(d, 1))
<1>5. c = (IF Len(d) > PesChunk THEN PesChunk ELSE Len(d))
  <2>1. c = Cut(d, 1) - Cut(d, 0) /\ Cut(d, 0) = 0
    BY <1>1, <1>2, ChunkIs, CutsAre
  <2>2. Cut(d, 1) = (IF PesChunk > Len(d) THEN Len(d) ELSE PesChunk)
    <3>1. 1 * PesChunk = PesChunk
      BY StreamAssumption
    <3> QED
      BY <3>1 DEF Cut
  <2> HIDE DEF c
  <2> QED
    BY <1>1, <2>1, <2>2, StreamAssumption
<1>6. Ends(k, 1) = Pes(k, 1) + 14 + c
  BY DEF Ends, Hdr
<1> HIDE DEF c
<1>7. FirstPes(k) = Pes(k, 1)
  BY <1>3, <1>4 DEF FirstPes, Marked
<1>8. FirstEnd(k) = Ends(k, 1)
  BY <1>5, <1>6, <1>7 DEF FirstEnd
<1> QED
  BY <1>3, <1>4, <1>7, <1>8

(* Units come one after the other.                                         *)
LEMMA UnitsGrow ==
  ASSUME NEW codec, Muxed(codec), NEW k \in 1 .. Len(stream), NEW n \in 1 .. Count(k),
         NEW i \in 1 .. Len(stream), k < i
  PROVE  Pes(k, 1) < Pes(i, 1) /\ Ends(k, n) < Ends(i, 1) /\ Ends(k, n) \in Nat
<1>1. Len(stream) \in Nat /\ i \in k + 1 .. Len(stream) + 1
  BY DEF Muxed
<1>2. Ends(k, n) <= Starts(i) /\ Starts(i) \in Nat /\ Ends(k, n) \in Nat
  BY <1>1, After, PacketShape
<1>3. Pes(k, 1) < Ends(k, 1) /\ Ends(k, 1) <= Ends(k, n)
      /\ Starts(i) < Pes(i, 1) /\ Pes(i, 1) < Ends(i, 1)
      /\ Pes(k, 1) \in Nat /\ Ends(k, 1) \in Nat /\ Pes(i, 1) \in Nat /\ Ends(i, 1) \in Nat
  BY FirstIs, BasesGrow
<1> QED
  BY <1>2, <1>3

(* The units seen, from the first one that began after the joint.          *)
LEMMA SeenFrom ==
  ASSUME NEW codec, Muxed(codec), join \in Nat, got \in Nat,
         NEW u \in 1 .. Len(stream), NEW j \in 1 .. u, FirstUnit(j), Ends(u, 1) <= got
  PROVE  /\ j .. u \subseteq Seen /\ Smallest(Seen) = j
         /\ (\A i \in u + 1 .. Len(stream) : got < Ends(i, 1)) => Seen = j .. u
<1>1. Len(stream) \in Nat
  BY DEF Muxed
<1>2. \A i \in 1 .. Len(stream) :
        /\ FirstPes(i) = Pes(i, 1) /\ FirstEnd(i) = Ends(i, 1)
        /\ Pes(i, 1) \in Nat /\ Ends(i, 1) \in Nat
  BY FirstIs
<1>3. \A i \in 1 .. Len(stream) : 1 \in 1 .. Count(i)
  BY UnitsAre
<1>4. \A i \in 1 .. Len(stream) : \A k \in 1 .. Len(stream) :
        i < k => Pes(i, 1) < Pes(k, 1) /\ Ends(i, 1) < Ends(k, 1)
  BY <1>3, UnitsGrow
<1>5. ASSUME NEW i \in j .. u PROVE i \in Seen
  <2>1. i \in 1 .. Len(stream) /\ j \in 1 .. Len(stream)
    BY <1>1
  <2>2. Pes(j, 1) <= Pes(i, 1) /\ Ends(i, 1) <= Ends(u, 1)
    <3>1. CASE i = j /\ i = u
      BY <1>2, <2>1, <3>1
    <3>2. CASE i = j /\ i < u
      BY <1>2, <1>4, <2>1, <3>2
    <3>3. CASE j < i /\ i = u
      BY <1>2, <1>4, <2>1, <3>3
    <3>4. CASE j < i /\ i < u
      BY <1>2, <1>4, <2>1, <3>4
    <3> QED
      BY <3>1, <3>2, <3>3, <3>4
  <2>3. Pes(i, 1) >= join /\ Ends(i, 1) <= got
    BY <1>2, <2>1, <2>2 DEF FirstUnit
  <2> QED
    BY <1>2, <2>1, <2>3 DEF Seen
<1>6. ASSUME NEW i \in Seen PROVE i \in 1 .. Len(stream) /\ j <= i /\ Ends(i, 1) <= got
  <2>1. i \in 1 .. Len(stream) /\ Pes(i, 1) >= join /\ Ends(i, 1) <= got
    BY <1>2 DEF Seen
  <2>2. CASE i < j
    <3>1. j - 1 \in 1 .. Len(stream) /\ Pes(j - 1, 1) < join
      BY <1>1, <2>1, <2>2 DEF FirstUnit
    <3>2. Pes(i, 1) <= Pes(j - 1, 1)
      <4>1. i = j - 1 \/ i < j - 1
        BY <2>1, <2>2
      <4> QED
        BY <1>2, <1>4, <2>1, <3>1, <4>1
    <3> QED
      BY <1>2, <2>1, <3>1, <3>2, SMTT(40)
  <2> QED
    BY <2>1, <2>2
<1>7. j \in Seen
  BY <1>5
<1>8. Smallest(Seen) = j
  <2>1. Smallest(Seen) \in Seen /\ Smallest(Seen) <= j
    BY <1>6, <1>7 DEF Smallest
  <2> QED
    BY <1>6, <2>1
<1>9. ASSUME \A i \in u + 1 .. Len(stream) : got < Ends(i, 1) PROVE Seen = j .. u
  <2>1. ASSUME NEW i \in Seen PROVE i \in j .. u
    <3>1. i \in 1 .. Len(stream) /\ j <= i /\ Ends(i, 1) <= got /\ Ends(i, 1) \in Nat
      BY <1>2, <1>6
    <3>2. ~(i \in u + 1 .. Len(stream))
      BY <1>9, <3>1
    <3> QED
      BY <1>1, <3>1, <3>2
  <2> QED
    BY <1>5, <2>1
<1> QED
  BY <1>5, <1>8, <1>9

(* Nothing seen.                                                           *)
LEMMA SeenNone ==
  ASSUME NEW codec, Muxed(codec), join \in Nat, got \in Nat,
         NEW u \in 0 .. Len(stream), u >= 1 => Pes(u, 1) < join,
         \A i \in u + 1 .. Len(stream) : got < Ends(i, 1)
  PROVE  Seen = {}
<1> SUFFICES ASSUME NEW i \in Seen PROVE FALSE
  OBVIOUS
<1>1. Len(stream) \in Nat
  BY DEF Muxed
<1>2. i \in 1 .. Len(stream)
  BY DEF Seen
<1>3. /\ FirstPes(i) = Pes(i, 1) /\ FirstEnd(i) = Ends(i, 1)
      /\ Pes(i, 1) \in Nat /\ Ends(i, 1) \in Nat
  BY <1>2, FirstIs
<1>4. Pes(i, 1) >= join /\ Ends(i, 1) <= got
  BY <1>3 DEF Seen
<1>5. i <= u
  <2>1. ~(i \in u + 1 .. Len(stream))
    BY <1>3, <1>4
  <2> QED
    BY <1>1, <1>2, <2>1
<1>6. u \in 1 .. Len(stream) /\ Pes(u, 1) < join
  BY <1>1, <1>2, <1>5
<1>7. Pes(u, 1) \in Nat
  BY <1>6, FirstIs
<1>8. Pes(i, 1) <= Pes(u, 1)
  <2>1. i = u \/ i < u
    BY <1>2, <1>5
  <2>2. 1 \in 1 .. Count(i)
    BY <1>2, UnitsAre
  <2>3. i < u => Pes(i, 1) < Pes(u, 1)
    BY <1>2, <1>6, <2>2, UnitsGrow
  <2> QED
    BY <1>3, <1>7, <2>1, <2>3
<1> QED
  BY <1>3, <1>4, <1>6, <1>7, <1>8

(* What the properties say of the frames that came out.                    *)
RightFrames ==
  out # << >> =>
    \A k \in 1 .. Len(out) :
      LET u == Smallest(Seen) + k - 1 IN
        /\ out[k].data = stream[u].data
        /\ out[k].pts = Wrapped(stream[u].pts)
        /\ Labelled(u) => /\ out[k].codec = stream[u].codec
                          /\ out[k].key = IsKeyframe(stream[u].codec, stream[u].data)

LEMMA HandedRight ==
  ASSUME NEW j, NEW u \in Nat, Handed(out, j, u), Smallest(Seen) = j
  PROVE  RightFrames
<1>1. j \in 1 .. u /\ Len(out) = u - j
      /\ \A i \in 1 .. u - j : Matches(out[i], j + i - 1)
  BY DEF Handed
<1> SUFFICES ASSUME NEW k \in 1 .. Len(out)
             PROVE  LET v == Smallest(Seen) + k - 1 IN
                      /\ out[k].data = stream[v].data
                      /\ out[k].pts = Wrapped(stream[v].pts)
                      /\ Labelled(v) => /\ out[k].codec = stream[v].codec
                                        /\ out[k].key = IsKeyframe(stream[v].codec, stream[v].data)
  BY DEF RightFrames
<1> DEFINE v == Smallest(Seen) + k - 1
<1>2. Matches(out[k], v)
  BY <1>1
<1> HIDE DEF v
<1>3. /\ out[k].data = stream[v].data
      /\ out[k].pts = Wrapped(stream[v].pts)
      /\ Labelled(v) => /\ out[k].codec = stream[v].codec
                        /\ out[k].key = IsKeyframe(stream[v].codec, stream[v].data)
  BY <1>2 DEF Matches
<1> QED
  BY <1>3 DEF v

(* The packet that is next ends later than any unit before begins.         *)
LEMMA LaterUnseen ==
  ASSUME NEW codec, Muxed(codec), got \in Nat, NEW k, NEW n, At(k, n), Beyond(k, n, got)
  PROVE  /\ Cur(k, n) \in 0 .. Len(stream)
         /\ \A i \in Cur(k, n) + 1 .. Len(stream) : got < Ends(i, 1)
<1> DEFINE K == Len(stream)
           u == Cur(k, n)
<1>1. K \in Nat
  BY DEF Muxed
<1>2. \A i \in 1 .. K : Count(i) \in Nat \ {0}
  BY UnitsAre
<1>3. u \in 0 .. K
  BY <1>1, <1>2 DEF At, Cur
<1>4. ASSUME NEW i \in u + 1 .. K PROVE got < Ends(i, 1)
  <2>1. k \in 1 .. K /\ n \in 1 .. Count(k) /\ i \in 1 .. K
    BY <1>1, <1>3 DEF At, Cur
  <2>2. got < Ends(k, n) /\ Ends(k, n) \in Nat /\ Ends(i, 1) \in Nat
    BY <2>1, PacketShape, FirstIs DEF Beyond
  <2>3. CASE i = k
    <3>1. n = 1
      BY <1>1, <1>2, <2>1, <2>3 DEF Cur
    <3> QED
      BY <2>2, <2>3, <3>1
  <2>4. CASE i # k
    <3>1. k < i
      BY <1>1, <1>2, <2>1, <2>4 DEF Cur
    <3>2. Ends(k, n) < Ends(i, 1)
      BY <2>1, <3>1, UnitsGrow
    <3> QED
      BY <2>2, <3>2
  <2> QED
    BY <2>3, <2>4
<1> QED
  BY <1>3, <1>4

(* The receiver's place and what it handed out.                            *)
LEMMA PlaceIs ==
  ASSUME NEW codec, Muxed(codec), join \in Nat, NEW k, NEW n, NEW o, Held(codec, k, n, o)
  PROVE  /\ got \in Nat /\ At(k, n) /\ out \in Seq(Frames)
         /\ ~Opened(k, n) => out = << >>
         /\ Opened(k, n) => /\ Cur(k, n) \in 1 .. Len(stream) /\ Ends(Cur(k, n), 1) <= got
                            /\ \E j \in 1 .. Cur(k, n) : Handed(out, j, Cur(k, n)) /\ FirstUnit(j)
<1> DEFINE l == Len(demux.buf)
<1>1. Reading(demux, demux.cursor, k, n, out, codec, o, got) /\ Long(demux, l)
  BY DEF Held, Long
<1> HIDE DEF l
<1>2. got \in Nat /\ At(k, n) /\ Near(o + demux.cursor, k, n, got)
  BY <1>1, ReadingIs
<1>3. UnitIs(demux, k, n, out)
  BY <1>1 DEF Reading
<1>4. ASSUME Opened(k, n)
      PROVE  /\ Cur(k, n) \in 1 .. Len(stream) /\ Ends(Cur(k, n), 1) <= got
             /\ \E j \in 1 .. Cur(k, n) : Handed(out, j, Cur(k, n)) /\ FirstUnit(j)
  <2>1. Cur(k, n) \in 1 .. Len(stream) /\ Prev(k, n) >= join /\ Ends(Cur(k, n), 1) <= Base(k, n)
    BY <1>2, <1>4, OpenedIs
  <2>2. Base(k, n) <= got
    BY <1>2, <2>1 DEF Near
  <2>3. Ends(Cur(k, n), 1) \in Nat
    BY <2>1, FirstIs
  <2>4. Base(k, n) \in Nat
    <3>1. CASE k \in 1 .. Len(stream) /\ n \in 1 .. Count(k)
      BY <3>1, AheadIs DEF Ahead
    <3>2. CASE ~(k \in 1 .. Len(stream) /\ n \in 1 .. Count(k))
      BY <1>2, <3>2, EndIs, StartsAre
    <3> QED
      BY <3>1, <3>2
  <2>5. Ends(Cur(k, n), 1) <= got
    BY <1>2, <2>1, <2>2, <2>3, <2>4
  <2>6. \E j \in 1 .. Len(stream) : Handed(out, j, Cur(k, n))
    BY <1>3, <1>4 DEF UnitIs
  <2> QED
    BY <2>1, <2>5, <2>6 DEF Handed
<1> QED
  BY <1>2, <1>3, <1>4 DEF UnitIs

(* What the invariant says of the frames.                                  *)
LEMMA InvSays == PsInv => FramesAreThoseMuxed
<1> SUFFICES ASSUME PsInv PROVE FramesAreThoseMuxed
  OBVIOUS
<1> DEFINE C == Cardinality(Seen)
           Right == /\ said \in {"Again", "Eof", "Flushed"} =>
                         Len(out) = C - (IF said = "Again" /\ Seen # {} THEN 1 ELSE 0)
                    /\ said # "Format"
<1>1. SUFFICES Right /\ RightFrames
  BY DEF FramesAreThoseMuxed, RightFrames
<1>2. CASE Unsent
  BY <1>2 DEF Unsent, RightFrames
<1>3. CASE \E codec \in Codecs : Sending(codec) /\ Receiving(codec)
  <2>1. PICK codec \in Codecs : Sending(codec) /\ Receiving(codec)
    BY <1>3
  <2>2. Muxed(codec) /\ join \in Nat
    BY <2>1, StreamAssumption DEF Sending
  <2> DEFINE K == Len(stream)
  <2>3. K \in Nat \ {0}
    BY <2>2 DEF Muxed
  <2>4. CASE said = "None"
    BY <2>1, <2>4 DEF Receiving, RightFrames
  <2>5. CASE said \in {"Appended", "Ok"}
    <3>1. PICK k, n, o : Held(codec, k, n, o)
      BY <2>1, <2>5 DEF Receiving
    <3>2. CASE Opened(k, n)
      <4> DEFINE u == Cur(k, n)
      <4>1. got \in Nat /\ u \in 1 .. K /\ Ends(u, 1) <= got
        BY <2>2, <3>1, <3>2, PlaceIs
      <4>2. PICK j \in 1 .. u : Handed(out, j, u) /\ FirstUnit(j)
        BY <2>2, <3>1, <3>2, PlaceIs
      <4> HIDE DEF u
      <4>3. Smallest(Seen) = j
        BY <2>2, <4>1, <4>2, SeenFrom
      <4>4. u \in Nat
        BY <2>3, <4>1
      <4> QED
        BY <2>5, <4>2, <4>3, <4>4, HandedRight
    <3>3. CASE ~Opened(k, n)
      <4>1. out = << >>
        BY <2>2, <3>1, <3>3, PlaceIs
      <4> QED
        BY <2>5, <4>1 DEF RightFrames
    <3> QED
      BY <3>2, <3>3
  <2>6. CASE said = "Again"
    <3>1. PICK k, n, o : Held(codec, k, n, o) /\ Short(k, n)
      BY <2>1, <2>6 DEF Receiving
    <3> DEFINE u == Cur(k, n)
    <3>2. got \in Nat /\ At(k, n)
      BY <2>2, <3>1, PlaceIs
    <3>3. u \in 0 .. K /\ \A i \in u + 1 .. K : got < Ends(i, 1)
      BY <2>2, <3>1, <3>2, LaterUnseen DEF Short
    <3>4. CASE Opened(k, n)
      <4>1. u \in 1 .. K /\ Ends(u, 1) <= got
        BY <2>2, <3>1, <3>4, PlaceIs
      <4>2. PICK j \in 1 .. u : Handed(out, j, u) /\ FirstUnit(j)
        BY <2>2, <3>1, <3>4, PlaceIs
      <4> HIDE DEF u
      <4>3. Smallest(Seen) = j /\ Seen = j .. u
        BY <2>2, <3>2, <3>3, <4>1, <4>2, SeenFrom
      <4>4. u \in Nat /\ j \in Int /\ u \in Int /\ j <= u
        BY <2>3, <4>1
      <4>5. C = u - j + 1 /\ Seen # {}
        <5>1. Cardinality(j .. u) = (IF j > u THEN 0 ELSE u - j + 1)
          BY <4>4, FS_Interval
        <5>2. C = Cardinality(j .. u)
          BY <4>3
        <5>3. j \in Seen
          BY <4>3, <4>4
        <5> HIDE DEF C
        <5> QED
          BY <4>4, <5>1, <5>2, <5>3
      <4>6. Len(out) = u - j
        BY <4>2 DEF Handed
      <4> HIDE DEF C
      <4>7. Len(out) = C - 1
        BY <4>4, <4>5, <4>6
      <4> QED
        BY <2>6, <4>2, <4>3, <4>4, <4>5, <4>7, HandedRight
    <3>5. CASE ~Opened(k, n)
      <4>1. out = << >>
        BY <2>2, <3>1, <3>5, PlaceIs
      <4>2. u >= 1 => Pes(u, 1) < join
        <5>1. SUFFICES ASSUME u >= 1 PROVE Pes(u, 1) < join
          OBVIOUS
        <5>2. u \in 1 .. K
          BY <2>3, <3>3, <5>1
        <5>3. Pes(u, 1) \in Nat /\ ~(Pes(u, 1) >= join)
          BY <2>2, <3>5, <5>1, <5>2, FirstIs DEF Opened
        <5> QED
          BY <2>2, <5>3
      <4> HIDE DEF u
      <4>3. Seen = {}
        BY <2>2, <3>2, <3>3, <4>2, SeenNone
      <4>4. C = 0 /\ Len(out) = 0
        BY <4>1, <4>3, FS_EmptySet
      <4> QED
        BY <2>6, <4>1, <4>3, <4>4 DEF RightFrames
    <3> QED
      BY <3>4, <3>5
  <2>7. CASE said \in {"Flushed", "Eof"}
    <3>1. Over
      BY <2>1, <2>7 DEF Receiving
    <3>2. Len(wire) \in Nat /\ got = Len(wire) /\ got \in Nat
      BY <2>2, <3>1, StartsAre DEF Over
    <3>3. Ends(K, 1) <= got
      <4>1. K \in 1 .. K /\ 1 \in 1 .. Count(K)
        BY <2>2, <2>3, UnitsAre
      <4> QED
        BY <2>2, <3>2, <4>1, PacketShape
    <3>4. \A i \in K + 1 .. K : got < Ends(i, 1)
      BY <2>3
    <3>5. CASE \E j \in 1 .. K : Handed(out, j, K + 1)
      <4>1. PICK j \in 1 .. K : Handed(out, j, K + 1)
        BY <3>5
      <4>2. FirstUnit(j) /\ Len(out) = K + 1 - j
        BY <4>1 DEF Handed
      <4> HIDE DEF K
      <4>3. K \in 1 .. K /\ K = Len(stream)
        BY <2>3 DEF K
      <4>4. Smallest(Seen) = j /\ Seen = j .. K
        BY <2>2, <3>2, <3>3, <3>4, <4>2, <4>3, SeenFrom
      <4>5. j \in Int /\ K \in Int /\ j <= K /\ K + 1 \in Nat
        BY <2>3
      <4>6. C = K - j + 1
        BY <4>4, <4>5, FS_Interval
      <4> HIDE DEF C
      <4>7. Len(out) = C /\ C \in Int /\ C - 0 = C
        BY <4>2, <4>5, <4>6
      <4>8. RightFrames
        BY <4>1, <4>4, <4>5, HandedRight
      <4> QED
        BY <2>7, <4>7, <4>8
    <3>6. CASE Pes(K, 1) < join /\ out = << >>
      <4> HIDE DEF K
      <4>1. K \in 0 .. K /\ K = Len(stream)
        BY <2>3 DEF K
      <4>2. Seen = {}
        BY <2>2, <3>2, <3>4, <3>6, <4>1, SeenNone
      <4>3. C = 0 /\ Len(out) = 0
        BY <3>6, <4>2, FS_EmptySet
      <4>4. RightFrames
        BY <3>6 DEF RightFrames
      <4> HIDE DEF C
      <4>5. Len(out) = C - 0
        BY <4>3
      <4> QED
        BY <2>7, <4>4, <4>5
    <3> QED
      BY <3>1, <3>5, <3>6 DEF Over
  <2> QED
    BY <2>1, <2>4, <2>5, <2>6, <2>7 DEF Receiving
<1> QED
  BY <1>2, <1>3 DEF PsInv

(* The frames that come out are the units that were muxed (ps.hpp: "emits  *)
(* AU N when AU N+1 begins (one-AU delay, PTS-correct), or on flush()"):   *)
(* for all units, chunk sizes, pieces and joins the model assumes.         *)
THEOREM StreamIsLossless == PsSpec => []FramesAreThoseMuxed
<1>1. PsIdle => PsInv
  BY DEF PsIdle, PsInv, Unsent
<1> QED
  BY <1>1, StreamInductive, InvSays, PTL DEF PsSpec
=============================================================================
