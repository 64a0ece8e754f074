----------------------------- MODULE MlvcProofs -----------------------------
(***************************************************************************)
(* Proofs about Mlvc.  The invariant says of the history how each pair of  *)
(* references came from the one before, so that the decoder, which only    *)
(* sees the records, can follow.                                           *)
(***************************************************************************)
EXTENDS Mlvc, TLAPS

-----------------------------------------------------------------------------
(* The inductive invariant.                                                *)

(* What a record, as the decoder sees it, makes of the references.         *)
After(refs, r, n) ==
  IF r.drop THEN refs ELSE Kept(Cleared(refs, r.key), n, r.mark)

(* Record k, and the references before and after it.                       *)
Fits(r, k, before, after) ==
  /\ after = After(before, r, k)
  /\ r.drop => ~r.key /\ ~r.mark /\ ~r.recovery /\ k > 1
  /\ r.recovery => ~r.key /\ before.have
  /\ ~r.drop =>
       /\ r.ref = Reference(Cleared(before, r.key), r.recovery)
       /\ r.q \in 0 .. 63
       /\ Dynamic \/ r.q \in EncRungs

HistoryOK ==
  /\ Len(trail) = Len(log) + 1
  /\ trail[1] = Fresh
  /\ encoder = "running" => encRefs = trail[Len(log) + 1]
  /\ \A k \in 1 .. Len(log) : Fits(log[k], k, trail[k], trail[k + 1])

DecoderOK ==
  /\ ~ready /\ decoder # "failed" => taken = 0 /\ decRefs = Fresh
  /\ SameReferences

Inv == TypeOK /\ HistoryOK /\ DecoderOK

(* The references after m records: nothing from before a key frame, and    *)
(* the long-term one is the frame marked last, unless a key frame followed.*)
SlotFits(records, refs, m) ==
  /\ \A k \in 1 .. m : records[k].key =>
       refs.prev >= k /\ (refs.have => refs.ltr >= k)
  /\ refs.have =>
       /\ refs.ltr \in 1 .. m
       /\ records[refs.ltr].mark
       /\ \A j \in refs.ltr + 1 .. m : ~records[j].mark /\ ~records[j].key

SlotsOK == \A m \in 0 .. Len(log) : SlotFits(log, trail[m + 1], m)

-----------------------------------------------------------------------------
(* Constants and records.                                                  *)

LEMMA RungsOK == EncRungs \subseteq 0 .. 63 /\ DecRungs \subseteq 0 .. 63
  BY QualityAssumption DEF EncRungs, DecRungs, RungsOf

LEMMA SizesOK ==
  HeaderSize \in Nat \ {0} /\ RecordSize \in Nat \ {0} /\ Payloads \subseteq Nat
  BY SizesAssumption

(* The end of a record is a position in the stream.                        *)
LEMMA EndsOK ==
  ASSUME TypeOK
  PROVE  /\ \A k \in 0 .. Len(log) : WrittenBefore(k) \in Nat
         /\ Written \in Nat
<1>1. Len(log) \in Nat /\ \A k \in 1 .. Len(log) : log[k].end \in Nat
  <2> SUFFICES ASSUME NEW k \in 1 .. Len(log) PROVE log[k].end \in Nat
    BY DEF TypeOK
  <2>1. log[k] \in RecordType
    BY DEF TypeOK
  <2> QED BY <2>1 DEF RecordType
<1>2. \A k \in 0 .. Len(log) : WrittenBefore(k) \in Nat
  BY <1>1, SizesOK DEF WrittenBefore
<1> QED BY <1>1, <1>2 DEF Written

(* A record that is written adds to the history and changes none of it.    *)
LEMMA WriteAppends ==
  ASSUME TypeOK, HistoryOK, Len(log) < MaxFrames,
         NEW r \in RecordType, NEW refs \in RefsOf(Features), Write(r, refs)
  PROVE  /\ log' \in Seq(RecordType) /\ trail' \in Seq(RefsOf(Features))
         /\ Len(log') = Len(log) + 1 /\ Len(trail') = Len(trail) + 1
         /\ log'[Len(log')] = r /\ trail'[Len(log') + 1] = refs
         /\ \A k \in 1 .. Len(log) : log'[k] = log[k]
         /\ \A k \in 1 .. Len(log) + 1 : trail'[k] = trail[k]
  BY DEF TypeOK, HistoryOK, Write

(* So it keeps the history's invariant if it records what was done.        *)
LEMMA WriteKeepsHistory ==
  ASSUME TypeOK, HistoryOK, Len(log) < MaxFrames,
         NEW r \in RecordType, NEW refs \in RefsOf(Features), Write(r, refs),
         encRefs' = refs, encoder = "running",
         Fits(r, Len(log) + 1, encRefs, refs)
  PROVE  HistoryOK'
<1> DEFINE n == Len(log) + 1
<1>1. /\ log' \in Seq(RecordType) /\ trail' \in Seq(RefsOf(Features))
      /\ Len(log') = n /\ Len(trail') = Len(trail) + 1
      /\ log'[n] = r /\ trail'[n + 1] = refs
      /\ \A k \in 1 .. Len(log) : log'[k] = log[k]
      /\ \A k \in 1 .. Len(log) + 1 : trail'[k] = trail[k]
  BY WriteAppends
<1>2. Len(log) \in Nat /\ Len(trail) = n /\ trail[n] = encRefs
  BY DEF TypeOK, HistoryOK
<1>3. ASSUME NEW k \in 1 .. Len(log')
      PROVE  Fits(log'[k], k, trail'[k], trail'[k + 1])
  <2>1. CASE k = n
    BY <2>1, <1>1, <1>2
  <2>2. CASE k # n
    <3>1. k \in 1 .. Len(log) /\ k + 1 \in 1 .. Len(log) + 1
      BY <2>2, <1>1, <1>2
    <3>2. log'[k] = log[k] /\ trail'[k] = trail[k] /\ trail'[k + 1] = trail[k + 1]
      BY <3>1, <1>1, <1>2
    <3> QED BY <3>1, <3>2 DEF HistoryOK
  <2> QED BY <2>1, <2>2
<1> QED BY <1>1, <1>2, <1>3 DEF HistoryOK

(* Clearing and keeping give references again.                             *)
LEMMA KeptRefs ==
  ASSUME NEW S, 0 \in S, NEW refs \in RefsOf(S), refs.have <=> refs.ltr # 0,
         NEW n \in S, n # 0, NEW idr \in BOOLEAN, NEW mark \in BOOLEAN
  PROVE  LET new == Kept(Cleared(refs, idr), n, mark)
         IN  /\ Cleared(refs, idr) \in RefsOf(S)
             /\ Cleared(refs, idr).have <=> Cleared(refs, idr).ltr # 0
             /\ new \in RefsOf(S)
             /\ new.have <=> new.ltr # 0
  BY DEF Kept, Cleared, Fresh, RefsOf

LEMMA FeaturesOK ==
  ASSUME TypeOK, Len(log) < MaxFrames
  PROVE  0 \in Features /\ Len(log) + 1 \in Features
  BY FramesAssumption DEF TypeOK, Features

-----------------------------------------------------------------------------
(* The encoder's steps.                                                    *)

(* The decoder does not see a record before it is there.                   *)
LEMMA WriteKeepsDecoder ==
  ASSUME Inv, Len(log) < MaxFrames,
         NEW r \in RecordType, NEW refs \in RefsOf(Features), Write(r, refs),
         r.end >= Written, UNCHANGED << damaged, arrived, decVars >>
  PROVE  /\ DecoderOK'
         /\ arrived' \in 0 .. Written' /\ taken' \in 0 .. Len(log')
<1>1. /\ Len(log') = Len(log) + 1 /\ log'[Len(log')] = r
      /\ \A k \in 1 .. Len(log) + 1 : trail'[k] = trail[k]
  BY WriteAppends DEF Inv
<1>2. taken \in 0 .. Len(log) /\ arrived \in 0 .. Written /\ Len(log) \in Nat
  BY DEF Inv, TypeOK
<1>3. Written' = r.end
  BY <1>1, <1>2 DEF Written, WrittenBefore
<1>4. trail'[taken + 1] = trail[taken + 1]
  BY <1>1, <1>2
<1>5. r.end \in Nat /\ Written \in Nat
  BY EndsOK DEF Inv, RecordType
<1> QED
  BY <1>1, <1>2, <1>3, <1>4, <1>5
  DEF Inv, DecoderOK, SameReferences, RungsAgree, DecRungs, EncRungs, decVars

LEMMA ControlsType ==
  ASSUME TypeOK, NEW gop \in GopSizes, NEW bitrate \in BOOLEAN,
         Controls(gop, bitrate)
  PROVE  period' \in GopSizes /\ rc' \in BOOLEAN
  BY DEF TypeOK, Controls

LEMMA DropFrameKeeps ==
  ASSUME Inv, NEW gop \in GopSizes, NEW bitrate \in BOOLEAN,
         DropFrame(gop, bitrate)
  PROVE  Inv'
<1>1. Len(log) < MaxFrames /\ encoder = "running" /\ Write(DropRecord, encRefs)
  BY DEF DropFrame
<1>2. Len(log) \in Nat /\ Len(log) # 0 /\ Written \in Nat
      /\ Written = WrittenBefore(Len(log))
  BY EndsOK DEF Inv, TypeOK, DropFrame, IsIdr, Written
<1>3. DropRecord \in RecordType /\ DropRecord.end = Written + RecordSize
  BY <1>2, SizesOK, FramesAssumption DEF DropRecord, RecordType, Features
<1>4. encRefs \in RefsOf(Features) /\ encRefs' = encRefs
  BY DEF Inv, TypeOK, DropFrame
<1>5. Fits(DropRecord, Len(log) + 1, encRefs, encRefs)
  BY <1>2 DEF Fits, DropRecord, After
<1>6. HistoryOK'
  BY <1>1, <1>3, <1>4, <1>5, WriteKeepsHistory DEF Inv
<1>7. DecoderOK' /\ arrived' \in 0 .. Written' /\ taken' \in 0 .. Len(log')
  BY <1>1, <1>2, <1>3, <1>4, SizesOK, WriteKeepsDecoder DEF DropFrame
<1>8. TypeOK'
  <2>1. /\ log' \in Seq(RecordType) /\ trail' \in Seq(RefsOf(Features))
        /\ Len(log') = Len(log) + 1
    BY <1>1, <1>3, <1>4, WriteAppends DEF Inv
  <2>2. period' \in GopSizes /\ rc' \in BOOLEAN
    BY ControlsType DEF Inv, DropFrame
  <2> QED
    BY <1>1, <1>2, <1>7, <2>1, <2>2, FramesAssumption
    DEF Inv, TypeOK, DropFrame, decVars, NoDamage
<1> QED BY <1>6, <1>7, <1>8 DEF Inv

(* A quality the encoder uses is one of its rungs, or the one asked for.   *)
LEMMA UsedQpOK ==
  ASSUME NEW solved \in 0 .. 63, NEW q \in UsedQp(solved)
  PROVE  q \in 0 .. 63 /\ (Dynamic \/ q \in EncRungs)
  BY RungsOK DEF UsedQp, Nearest

LEMMA CodeFrameKeeps ==
  ASSUME Inv, NEW force \in BOOLEAN, NEW gop \in GopSizes,
         NEW bitrate \in BOOLEAN, NEW size \in Payloads,
         CodeFrame(force, gop, bitrate, size)
  PROVE  Inv'
<1> DEFINE idr  == IsIdr(force, period')
           mark == MarksLtr(idr)
           recovery == Recovers(mark)
           refs == Cleared(encRefs, idr)
           n    == Len(log) + 1
           new  == Kept(refs, n, mark)
<1>1. Len(log) < MaxFrames /\ encoder = "running" /\ encRefs' = new
  BY DEF CodeFrame
<1>2. idr \in BOOLEAN /\ mark \in BOOLEAN /\ recovery \in BOOLEAN
  BY DEF IsIdr, MarksLtr, Recovers, Inv, TypeOK, RefsOf
<1>3. Len(log) \in Nat /\ WrittenBefore(Len(log)) \in Nat
      /\ Written \in Nat /\ WrittenBefore(Len(log)) >= Written
  BY EndsOK DEF Inv, TypeOK, Written
<1>4. n \in Features /\ n # 0 /\ 0 \in Features
  BY <1>1, <1>3, FeaturesOK DEF Inv
<1>5. encRefs \in RefsOf(Features) /\ (encRefs.have <=> encRefs.ltr # 0)
  BY DEF Inv, TypeOK
<1>6. /\ refs \in RefsOf(Features) /\ new \in RefsOf(Features)
      /\ new.have <=> new.ltr # 0
  BY <1>2, <1>4, <1>5, KeptRefs
<1>7. PICK solved \in IF rc' THEN Solved ELSE {SessionQp} : \E q \in UsedQp(solved) :
        Write([drop |-> FALSE, q |-> q, key |-> idr, mark |-> mark,
               recovery |-> recovery, ref |-> Reference(refs, recovery),
               end |-> WrittenBefore(Len(log)) + RecordSize + size],
              encRefs')
  BY DEF CodeFrame
<1>8. PICK q \in UsedQp(solved) :
        Write([drop |-> FALSE, q |-> q, key |-> idr, mark |-> mark,
               recovery |-> recovery, ref |-> Reference(refs, recovery),
               end |-> WrittenBefore(Len(log)) + RecordSize + size],
              encRefs')
  BY <1>7
<1> DEFINE r == [drop |-> FALSE, q |-> q, key |-> idr, mark |-> mark,
                 recovery |-> recovery, ref |-> Reference(refs, recovery),
                 end |-> WrittenBefore(Len(log)) + RecordSize + size]
<1>9. solved \in 0 .. 63
  BY <1>7, QualityAssumption
<1>10. q \in 0 .. 63 /\ (Dynamic \/ q \in EncRungs)
  BY <1>8, <1>9, UsedQpOK
<1>11. Reference(refs, recovery) \in Features
  BY <1>6 DEF Reference, RefsOf
<1>12. size \in Nat /\ RecordSize \in Nat
  BY SizesOK
<1>13. r \in RecordType /\ r.end >= Written
  <2>1. r.end \in Nat /\ r.end >= Written
    BY <1>3, <1>12
  <2> QED BY <1>2, <1>10, <1>11, <2>1 DEF RecordType
<1>14. Fits(r, n, encRefs, new)
  BY <1>10 DEF Fits, After, Recovers, MarksLtr
<1>15. Write(r, new)
  BY <1>1, <1>8
<1> HIDE DEF r, new
<1>16. HistoryOK'
  BY <1>1, <1>6, <1>13, <1>14, <1>15, WriteKeepsHistory DEF Inv
<1>17. UNCHANGED << damaged, arrived, decVars, encoder >>
  BY DEF CodeFrame
<1>18. DecoderOK' /\ arrived' \in 0 .. Written' /\ taken' \in 0 .. Len(log')
  BY <1>1, <1>6, <1>13, <1>15, <1>17, WriteKeepsDecoder
<1>19. TypeOK'
  <2>1. /\ log' \in Seq(RecordType) /\ trail' \in Seq(RefsOf(Features))
        /\ Len(log') = Len(log) + 1
    BY <1>1, <1>6, <1>13, <1>15, WriteAppends DEF Inv
  <2>2. period' \in GopSizes /\ rc' \in BOOLEAN
    BY ControlsType DEF Inv, CodeFrame
  <2>3. cur' \in Nat /\ pending' = FALSE
    BY DEF Inv, TypeOK, CodeFrame
  <2>4. encRefs' \in RefsOf(Features) /\ (encRefs'.have <=> encRefs'.ltr # 0)
    BY <1>1, <1>6
  <2>5. Len(log') <= MaxFrames
    BY <1>1, <1>3, <2>1, FramesAssumption
  <2> QED
    BY <1>1, <1>17, <1>18, <2>1, <2>2, <2>3, <2>4, <2>5
    DEF Inv, TypeOK, decVars, NoDamage
<1> QED BY <1>16, <1>18, <1>19 DEF Inv

LEMMA EncodeFailsKeeps ==
  ASSUME Inv, NEW force \in BOOLEAN, NEW gop \in GopSizes,
         NEW bitrate \in BOOLEAN, EncodeFails(force, gop, bitrate)
  PROVE  Inv'
<1> DEFINE idr  == IsIdr(force, period')
           mark == MarksLtr(idr)
           refs == Cleared(encRefs, idr)
           new  == Kept(refs, Len(log) + 1, mark)
<1>1. /\ encoder' = "failed" /\ encRefs' \in {encRefs, refs, new}
      /\ Len(log) < MaxFrames /\ pending' \in BOOLEAN
      /\ UNCHANGED << cur, log, trail, damaged, arrived, decVars >>
  BY DEF EncodeFails
<1>2. idr \in BOOLEAN /\ mark \in BOOLEAN
  BY DEF IsIdr, MarksLtr
<1>3. 0 \in Features /\ Len(log) + 1 \in Features /\ Len(log) + 1 # 0
  BY <1>1, FeaturesOK DEF Inv, TypeOK
<1>4. encRefs \in RefsOf(Features) /\ (encRefs.have <=> encRefs.ltr # 0)
  BY DEF Inv, TypeOK
<1>5. encRefs' \in RefsOf(Features) /\ (encRefs'.have <=> encRefs'.ltr # 0)
  <2>1. /\ refs \in RefsOf(Features) /\ (refs.have <=> refs.ltr # 0)
        /\ new \in RefsOf(Features) /\ (new.have <=> new.ltr # 0)
    BY <1>2, <1>3, <1>4, KeptRefs
  <2> HIDE DEF refs, new
  <2> QED BY <1>1, <1>4, <2>1
<1>6. period' \in GopSizes /\ rc' \in BOOLEAN
  BY ControlsType DEF Inv, EncodeFails
<1>7. TypeOK'
  BY <1>1, <1>5, <1>6 DEF Inv, TypeOK, decVars, Written, WrittenBefore
<1>8. HistoryOK'
  BY <1>1 DEF Inv, HistoryOK
<1>9. DecoderOK'
  BY <1>1 DEF Inv, DecoderOK, SameReferences, RungsAgree, DecRungs, EncRungs, decVars
<1> QED BY <1>7, <1>8, <1>9 DEF Inv

-----------------------------------------------------------------------------
(* The transport's and the decoder's steps.                                *)

(* A record that is complete is one that was written.                      *)
LEMMA CompleteOK ==
  ASSUME TypeOK, Complete
  PROVE  /\ taken \in Nat /\ taken + 1 \in 1 .. Len(log) /\ Len(log) \in Nat
         /\ Record \in RecordType
<1>1. /\ taken \in 0 .. Len(log) /\ Len(log) \in Nat /\ arrived \in 0 .. Written
      /\ log \in Seq(RecordType)
  BY DEF TypeOK
<1>2. /\ Written \in Nat /\ Start \in Nat
      /\ Start + RecordSize <= arrived
  BY <1>1, EndsOK DEF Complete, Start
<1>3. taken # Len(log)
  <2> SUFFICES ASSUME taken = Len(log) PROVE FALSE
    OBVIOUS
  <2>1. Written <= Start
    BY <1>1, <1>2 DEF Written, Start
  <2> QED BY <1>1, <1>2, <2>1, SizesOK
<1>4. taken + 1 \in 1 .. Len(log)
  BY <1>1, <1>3
<1> QED BY <1>1, <1>4 DEF Record

(* What the decoder obtains from a record it has a rung for.               *)
LEMMA PictureOK ==
  ASSUME Inv, InLoop, ~Record.drop, HasRung(Record.q)
  PROVE  LET refs == Cleared(decRefs, Record.key)
             pic  == Picture(refs, Record)
         IN  /\ pic \in Features \cup {Drift} /\ pic # 0
             /\ DecKept(refs, pic, Record.mark) \in RefsOf(Features \cup {Drift})
             /\ refs \in RefsOf(Features \cup {Drift})
             /\ LET new == DecKept(refs, pic, Record.mark)
                IN  new.have <=> new.ltr # 0
             /\ refs.have <=> refs.ltr # 0
             /\ RungFor(Record.q) \in 0 .. 63
             /\ RungsAgree => /\ pic = taken + 1
                              /\ DecKept(refs, pic, Record.mark) = trail[taken + 2]
<1> DEFINE refs == Cleared(decRefs, Record.key)
           pic  == Picture(refs, Record)
           new  == DecKept(refs, pic, Record.mark)
           k    == taken + 1
<1>1. /\ taken \in Nat /\ k \in 1 .. Len(log) /\ Len(log) \in Nat
      /\ Record \in RecordType /\ Len(log) <= MaxFrames
  BY CompleteOK DEF Inv, InLoop, TypeOK
<1>2. Record = log[k] /\ Fits(Record, k, trail[k], trail[k + 1])
  BY <1>1 DEF Inv, HistoryOK, Record
<1>3. Record.key \in BOOLEAN /\ Record.mark \in BOOLEAN
  BY <1>1 DEF RecordType
<1>4. k \in Features /\ k # 0 /\ 0 \in Features
  BY <1>1, FramesAssumption DEF Features
<1>5. pic \in {k, Drift} /\ pic # 0
  BY <1>4 DEF Picture, Drift
<1>6. pic \in Features \cup {Drift}
  BY <1>4, <1>5
<1>7. decRefs \in RefsOf(Features \cup {Drift}) /\ (decRefs.have <=> decRefs.ltr # 0)
  BY DEF Inv, TypeOK
<1>8. new = Kept(refs, pic, Record.mark)
  BY DEF DecKept, Kept
<1>9. /\ refs \in RefsOf(Features \cup {Drift}) /\ (refs.have <=> refs.ltr # 0)
      /\ new \in RefsOf(Features \cup {Drift}) /\ (new.have <=> new.ltr # 0)
  BY <1>3, <1>4, <1>5, <1>6, <1>7, <1>8, KeptRefs
<1>10. Record.q \in 0 .. 63 /\ (Dynamic \/ Record.q \in EncRungs)
       /\ Record.ref = Reference(Cleared(trail[k], Record.key), Record.recovery)
  BY <1>2 DEF Fits
<1>11. RungFor(Record.q) \in 0 .. 63
  BY <1>10 DEF RungFor, Inv, TypeOK
<1>12. ASSUME RungsAgree PROVE pic = k /\ new = trail[k + 1]
  <2>1. RungFor(Record.q) = Record.q
    <3>1. CASE DecRungs = EncRungs
      BY <3>1, <1>10 DEF RungFor
    <3>2. CASE Cardinality(DecRungs) > 1
      BY <3>2 DEF RungFor, HasRung
    <3> QED BY <1>12, <3>1, <3>2 DEF RungsAgree
  <2>2. decRefs = trail[k]
    BY <1>12 DEF Inv, DecoderOK, SameReferences, InLoop
  <2>3. pic = k
    BY <2>1, <2>2, <1>10 DEF Picture
  <2>4. new = trail[k + 1]
    BY <1>2, <1>8, <2>2, <2>3 DEF Fits, After
  <2> QED BY <2>3, <2>4
<1>13. k + 1 = taken + 2
  BY <1>1
<1> HIDE DEF refs, pic, new
<1>14. RungsAgree => pic = taken + 1 /\ new = trail[taken + 2]
  BY <1>12, <1>13
<1> QED BY <1>5, <1>6, <1>9, <1>11, <1>14 DEF refs, pic, new

(* A step that leaves the encoder alone keeps the history.                 *)
LEMMA HistoryStays ==
  ASSUME Inv, UNCHANGED encVars
  PROVE  HistoryOK' /\ Written' = Written
BY DEF Inv, HistoryOK, encVars, Written, WrittenBefore

LEMMA ArriveKeeps ==
  ASSUME Inv, NEW n \in 1 .. Written - arrived, Arrive(n)
  PROVE  Inv'
<1>1. HistoryOK' /\ Written' = Written
  BY HistoryStays DEF Arrive
<1>2. arrived' \in 0 .. Written
  BY EndsOK DEF Inv, TypeOK, Arrive
<1>3. TypeOK'
  BY <1>1, <1>2 DEF Inv, TypeOK, Arrive, encVars
<1>4. DecoderOK'
  BY DEF Inv, DecoderOK, SameReferences, RungsAgree, DecRungs, EncRungs, Arrive,
         encVars
<1> QED BY <1>1, <1>3, <1>4 DEF Inv

LEMMA LookingKeeps ==
  ASSUME Inv, StreamIsMalformed \/ NeedMore
  PROVE  Inv'
<1>1. /\ UNCHANGED << encVars, damaged, arrived, taken, ready, decRefs, rung, out >>
      /\ decoder = "loop" /\ decoder' \in {"failed", "waiting"}
  BY DEF StreamIsMalformed, NeedMore
<1>2. HistoryOK' /\ Written' = Written
  BY <1>1, HistoryStays
<1>3. TypeOK'
  BY <1>1, <1>2 DEF Inv, TypeOK, encVars
<1>4. DecoderOK'
  BY <1>1 DEF Inv, DecoderOK, SameReferences, RungsAgree, DecRungs, EncRungs, encVars
<1> QED BY <1>2, <1>3, <1>4 DEF Inv

LEMMA LazyInitKeeps ==
  ASSUME Inv, LazyInit
  PROVE  Inv'
<1>1. /\ UNCHANGED << encVars, damaged, arrived, taken, out >>
      /\ decoder = "loop" /\ ~ready
  BY DEF LazyInit
<1>2. HistoryOK' /\ Written' = Written
  BY <1>1, HistoryStays
<1>3. taken = 0 /\ decRefs = Fresh
  BY <1>1 DEF Inv, DecoderOK
<1>4. \/ ready' = TRUE /\ decRefs' = Fresh /\ decoder' = "loop" /\ rung' \in 0 .. 63
      \/ decoder' = "failed" /\ ready' \in BOOLEAN /\ UNCHANGED << rung, decRefs >>
  BY RungsOK DEF LazyInit, Lowest, AfterInit
<1>5. TypeOK'
  BY <1>1, <1>2, <1>3, <1>4 DEF Inv, TypeOK, encVars
<1>6. DecoderOK'
  BY <1>1, <1>3, <1>4
  DEF Inv, HistoryOK, DecoderOK, SameReferences, RungsAgree, DecRungs, EncRungs, encVars
<1> QED BY <1>2, <1>5, <1>6 DEF Inv

LEMMA RepeatFrameKeeps ==
  ASSUME Inv, RepeatFrame
  PROVE  Inv'
<1>1. /\ UNCHANGED << encVars, damaged, arrived, decoder, ready, decRefs, rung >>
      /\ taken' = taken + 1 /\ decoder = "loop" /\ ready /\ Record.drop
  BY DEF RepeatFrame, InLoop
<1>2. HistoryOK' /\ Written' = Written
  BY <1>1, HistoryStays
<1>3. taken \in Nat /\ taken + 1 \in 1 .. Len(log) /\ Len(log) \in Nat
  BY CompleteOK DEF Inv, RepeatFrame, InLoop
<1>4. trail[taken + 2] = trail[taken + 1]
  <2>1. Fits(log[taken + 1], taken + 1, trail[taken + 1], trail[(taken + 1) + 1])
    BY <1>3 DEF Inv, HistoryOK
  <2>2. (taken + 1) + 1 = taken + 2
    BY <1>3
  <2> QED BY <1>1, <2>1, <2>2 DEF Fits, After, Record
<1>5. taken' \in 0 .. Len(log)
  BY <1>1, <1>3
<1>6. out' \in Seq(Features \cup {Drift})
  <2>1. CASE out = << >>
    BY <2>1 DEF RepeatFrame, Inv, TypeOK
  <2>2. CASE out # << >>
    <3>1. out[Len(out)] \in Features \cup {Drift} /\ out \in Seq(Features \cup {Drift})
      BY <2>2 DEF Inv, TypeOK
    <3> QED BY <2>2, <3>1 DEF RepeatFrame
  <2> QED BY <2>1, <2>2
<1>7. TypeOK'
  BY <1>1, <1>2, <1>5, <1>6 DEF Inv, TypeOK, encVars
<1>8. taken' + 1 = taken + 2
  BY <1>1, <1>3
<1>9. DecoderOK'
  BY <1>1, <1>4, <1>8
  DEF Inv, DecoderOK, SameReferences, RungsAgree, DecRungs, EncRungs, encVars
<1> QED BY <1>2, <1>7, <1>9 DEF Inv

LEMMA DecodeFrameKeeps ==
  ASSUME Inv, DecodeFrame
  PROVE  Inv'
<1> DEFINE refs == Cleared(decRefs, Record.key)
           pic  == Picture(refs, Record)
           new  == DecKept(refs, pic, Record.mark)
<1>1. /\ UNCHANGED << encVars, damaged, arrived, decoder, ready >>
      /\ taken' = taken + 1 /\ decoder = "loop" /\ ready
      /\ rung' = RungFor(Record.q) /\ decRefs' = new /\ out' = Append(out, pic)
  BY DEF DecodeFrame, InLoop
<1>2. HistoryOK' /\ Written' = Written
  BY <1>1, HistoryStays
<1>3. taken \in Nat /\ taken + 1 \in 1 .. Len(log) /\ Len(log) \in Nat
  BY CompleteOK DEF Inv, DecodeFrame, InLoop
<1>4. /\ pic \in Features \cup {Drift} /\ new \in RefsOf(Features \cup {Drift})
      /\ new.have <=> new.ltr # 0
      /\ RungFor(Record.q) \in 0 .. 63
      /\ RungsAgree => new = trail[taken + 2]
  BY PictureOK DEF DecodeFrame
<1> HIDE DEF refs, pic, new
<1>5. taken' \in 0 .. Len(log) /\ taken' + 1 = taken + 2
  BY <1>1, <1>3
<1>6. out' \in Seq(Features \cup {Drift})
  BY <1>1, <1>4 DEF Inv, TypeOK
<1>7. TypeOK'
  BY <1>1, <1>2, <1>4, <1>5, <1>6 DEF Inv, TypeOK, encVars
<1>8. DecoderOK'
  BY <1>1, <1>4, <1>5
  DEF Inv, DecoderOK, SameReferences, RungsAgree, DecRungs, EncRungs, encVars
<1> QED BY <1>2, <1>7, <1>8 DEF Inv

LEMMA DecodeFailsKeeps ==
  ASSUME Inv, DecodeFails
  PROVE  Inv'
<1> DEFINE refs == Cleared(decRefs, Record.key)
           new  == DecKept(refs, Picture(refs, Record), Record.mark)
<1>1. /\ UNCHANGED << encVars, damaged, arrived, taken, ready, out >>
      /\ decoder' = "failed" /\ ready
  BY DEF DecodeFails, InLoop
<1>2. HistoryOK' /\ Written' = Written
  BY <1>1, HistoryStays
<1>3. /\ rung' \in 0 .. 63 /\ decRefs' \in RefsOf(Features \cup {Drift})
      /\ decRefs'.have <=> decRefs'.ltr # 0
  <2>1. CASE UNCHANGED << decRefs, rung >>
    BY <2>1 DEF Inv, TypeOK
  <2>2. CASE ~UNCHANGED << decRefs, rung >>
    <3>1. /\ ~Record.drop /\ HasRung(Record.q) /\ InLoop
          /\ rung' = RungFor(Record.q) /\ decRefs' \in {refs, new}
      BY <2>2 DEF DecodeFails
    <3>2. /\ RungFor(Record.q) \in 0 .. 63
          /\ new \in RefsOf(Features \cup {Drift}) /\ (new.have <=> new.ltr # 0)
          /\ refs \in RefsOf(Features \cup {Drift}) /\ (refs.have <=> refs.ltr # 0)
      BY <3>1, PictureOK
    <3> HIDE DEF refs, new
    <3> QED BY <3>1, <3>2
  <2> QED BY <2>1, <2>2
<1>4. TypeOK'
  BY <1>1, <1>2, <1>3 DEF Inv, TypeOK, encVars
<1>5. DecoderOK'
  BY <1>1 DEF Inv, DecoderOK, SameReferences, encVars
<1> QED BY <1>2, <1>4, <1>5 DEF Inv

-----------------------------------------------------------------------------
(* The theorems.                                                           *)

LEMMA InitInv ==
  ASSUME Init
  PROVE  Inv
<1>1. encRefs \in RefsOf(Features) /\ decRefs \in RefsOf(Features \cup {Drift})
  BY FramesAssumption DEF Init, Fresh, RefsOf, Features
<1>2. /\ log = << >> /\ Len(log) = 0 /\ Written = 0
      /\ log \in Seq(RecordType) /\ out \in Seq(Features \cup {Drift})
  BY DEF Init, Written
<1>3. trail = << Fresh >> /\ Len(trail) = 1 /\ trail[1] = Fresh
      /\ trail \in Seq(RefsOf(Features))
  BY <1>1 DEF Init
<1>4. rung \in 0 .. 63
  BY QualityAssumption DEF Init
<1>5. TypeOK
  <2>1. (encRefs.have <=> encRefs.ltr # 0) /\ (decRefs.have <=> decRefs.ltr # 0)
    BY DEF Init, Fresh
  <2>2. /\ arrived \in 0 .. Written /\ taken \in 0 .. Len(log)
        /\ Len(log) <= MaxFrames
    BY <1>2, FramesAssumption DEF Init
  <2> QED BY <1>1, <1>2, <1>3, <1>4, <2>1, <2>2 DEF Init, TypeOK
<1>6. HistoryOK
  BY <1>2, <1>3 DEF Init, HistoryOK
<1>7. DecoderOK
  BY <1>3 DEF Init, DecoderOK, SameReferences
<1> QED BY <1>5, <1>6, <1>7 DEF Inv

LEMMA StepInv ==
  ASSUME Inv, [Next]_vars
  PROVE  Inv'
<1>1. CASE EncoderStep
  <2>1. PICK gop \in GopSizes, bitrate \in BOOLEAN :
          \/ DropFrame(gop, bitrate)
          \/ \E force \in BOOLEAN :
               \/ \E size \in Payloads : CodeFrame(force, gop, bitrate, size)
               \/ EncodeFails(force, gop, bitrate)
    BY <1>1 DEF EncoderStep
  <2> QED BY <2>1, DropFrameKeeps, CodeFrameKeeps, EncodeFailsKeeps
<1>2. CASE Transport
  BY <1>2, ArriveKeeps DEF Transport
<1>3. CASE DecoderStep
  BY <1>3, LookingKeeps, LazyInitKeeps, RepeatFrameKeeps, DecodeFrameKeeps,
     DecodeFailsKeeps DEF DecoderStep
<1>4. CASE UNCHANGED vars
  <2>1. HistoryOK' /\ Written' = Written
    BY <1>4, HistoryStays DEF vars
  <2>2. TypeOK'
    BY <1>4, <2>1 DEF vars, encVars, decVars, Inv, TypeOK
  <2>3. DecoderOK'
    BY <1>4 DEF vars, encVars, decVars, Inv, DecoderOK, SameReferences, RungsAgree,
                DecRungs, EncRungs
  <2> QED BY <2>1, <2>2, <2>3 DEF Inv
<1> QED BY <1>1, <1>2, <1>3, <1>4 DEF Next

(* The invariant holds: each pair of references the encoder ever had came  *)
(* from the one before by the record between them (encoder.cpp:270-452).   *)
THEOREM Invariance == Spec => []Inv
<1>1. Init => Inv
  BY InitInv
<1>2. Inv /\ [Next]_vars => Inv'
  BY StepInv
<1> QED BY <1>1, <1>2, PTL DEF Spec

(* The variables have their types, and a side holds a long-term reference  *)
(* exactly when have_ltr says so.                                          *)
THEOREM TypeCorrect == Spec => []TypeOK
<1>1. Inv => TypeOK
  BY DEF Inv
<1> QED BY <1>1, Invariance, PTL

(* The decoder's references are those the encoder had after the record     *)
(* that was read last, for every stream, every way to cut it, and every    *)
(* set of rungs that lets the decoder tell a foreign record.               *)
THEOREM ReferencesAgree == Spec => []SameReferences
<1>1. Inv => SameReferences
  BY DEF Inv, DecoderOK
<1> QED BY <1>1, Invariance, PTL

-----------------------------------------------------------------------------
(* The pictures.                                                           *)

LEMMA InitPictures == Init => PicturesAreThoseCoded
  BY DEF Init, PicturesAreThoseCoded

(* A record that is there stays as it is.                                  *)
LEMMA LogGrows ==
  ASSUME Inv, [Next]_vars
  PROVE  \/ UNCHANGED encVars
         \/ /\ encoder = "running" /\ Len(log) < MaxFrames
            /\ UNCHANGED << taken, out >>
            /\ \/ UNCHANGED << log, trail >>
               \/ /\ Len(log') = Len(log) + 1 /\ Len(log) \in Nat
                  /\ \A k \in 1 .. Len(log) : log'[k] = log[k]
                  /\ \A k \in 1 .. Len(log) + 1 : trail'[k] = trail[k]
<1>1. CASE EncoderStep
  <2>1. /\ encoder = "running" /\ Len(log) < MaxFrames
        /\ UNCHANGED << taken, out >>
        /\ \/ UNCHANGED << log, trail >>
           \/ \E r, refs : Write(r, refs)
    BY <1>1, ZenonT(60) DEF EncoderStep, DropFrame, CodeFrame, EncodeFails, decVars
  <2>2. CASE UNCHANGED << log, trail >>
    BY <2>1, <2>2
  <2>3. CASE \E r, refs : Write(r, refs)
    <3>1. log \in Seq(RecordType) /\ Len(log) \in Nat
          /\ log' \in Seq(RecordType) /\ Len(trail) = Len(log) + 1
          /\ trail \in Seq(RefsOf(Features)) /\ trail' \in Seq(RefsOf(Features))
      BY StepInv DEF Inv, TypeOK, HistoryOK
    <3>2. PICK r, refs : log' = Append(log, r) /\ trail' = Append(trail, refs)
      BY <2>3 DEF Write
    <3> QED BY <2>1, <3>1, <3>2
  <2> QED BY <2>1, <2>2, <2>3
<1>2. CASE Transport
  BY <1>2 DEF Transport, Arrive
<1>3. CASE DecoderStep
  BY <1>3 DEF DecoderStep, StreamIsMalformed, NeedMore, LazyInit, RepeatFrame,
              DecodeFrame, DecodeFails
<1>4. CASE UNCHANGED vars
  BY <1>4 DEF vars
<1> QED BY <1>1, <1>2, <1>3, <1>4 DEF Next

LEMMA RepeatFramePictures ==
  ASSUME Inv, PicturesAreThoseCoded, RungsAgree, RepeatFrame
  PROVE  /\ Len(out') = taken'
         /\ \A k \in 1 .. Len(out') : IsLastCoded(log, out'[k], k)
<1> DEFINE n == taken + 1
<1>1. /\ taken \in Nat /\ n \in 1 .. Len(log) /\ Len(log) \in Nat
      /\ taken' = n /\ log[n].drop
  BY CompleteOK DEF Inv, RepeatFrame, InLoop, Record
<1>2. Len(out) = taken /\ \A k \in 1 .. Len(out) : IsLastCoded(log, out[k], k)
  BY DEF PicturesAreThoseCoded
<1>3. n > 1
  BY <1>1 DEF Inv, HistoryOK, Fits
<1>4. out # << >> /\ out' = Append(out, out[taken]) /\ IsLastCoded(log, out[taken], taken)
  BY <1>1, <1>2, <1>3 DEF RepeatFrame
<1>5. IsLastCoded(log, out[taken], n)
  <2>1. /\ out[taken] \in 1 .. taken /\ ~log[out[taken]].drop
        /\ \A i \in out[taken] + 1 .. taken : log[i].drop
    BY <1>4 DEF IsLastCoded
  <2>2. \A i \in out[taken] + 1 .. n : i = n \/ i \in out[taken] + 1 .. taken
    BY <1>1, <2>1
  <2> QED BY <1>1, <2>1, <2>2 DEF IsLastCoded
<1>6. out \in Seq(Features \cup {Drift}) /\ out[taken] \in Features \cup {Drift}
  BY <1>1, <1>2, <1>3 DEF Inv, TypeOK
<1>7. /\ Len(out') = n /\ out'[n] = out[taken]
      /\ \A k \in 1 .. taken : out'[k] = out[k]
  BY <1>1, <1>2, <1>4, <1>6
<1>8. \A k \in 1 .. n : k = n \/ k \in 1 .. taken
  BY <1>1
<1> HIDE DEF n
<1> QED BY <1>1, <1>2, <1>5, <1>7, <1>8

LEMMA DecodeFramePictures ==
  ASSUME Inv, PicturesAreThoseCoded, RungsAgree, DecodeFrame
  PROVE  /\ Len(out') = taken'
         /\ \A k \in 1 .. Len(out') : IsLastCoded(log, out'[k], k)
<1> DEFINE n == taken + 1
<1>1. /\ taken \in Nat /\ n \in 1 .. Len(log) /\ taken' = n /\ ~log[n].drop
  BY CompleteOK DEF Inv, DecodeFrame, InLoop, Record
<1>2. Len(out) = taken /\ \A k \in 1 .. Len(out) : IsLastCoded(log, out[k], k)
  BY DEF PicturesAreThoseCoded
<1>3. out' = Append(out, n) /\ n \in Features \cup {Drift}
  BY PictureOK DEF DecodeFrame
<1>4. IsLastCoded(log, n, n)
  BY <1>1 DEF IsLastCoded
<1>5. /\ Len(out') = n /\ out'[n] = n
      /\ \A k \in 1 .. taken : out'[k] = out[k]
  BY <1>1, <1>2, <1>3 DEF Inv, TypeOK
<1>6. \A k \in 1 .. n : k = n \/ k \in 1 .. taken
  BY <1>1
<1> HIDE DEF n
<1> QED BY <1>1, <1>2, <1>4, <1>5, <1>6

LEMMA StepPictures ==
  ASSUME Inv, PicturesAreThoseCoded, [Next]_vars
  PROVE  PicturesAreThoseCoded'
<1> SUFFICES ASSUME RungsAgree
             PROVE  /\ Len(out') = taken'
                    /\ \A k \in 1 .. Len(out') : IsLastCoded(log', out'[k], k)
  BY DEF PicturesAreThoseCoded, RungsAgree, DecRungs, EncRungs
<1>1. Len(out) = taken /\ \A k \in 1 .. Len(out) : IsLastCoded(log, out[k], k)
  BY DEF PicturesAreThoseCoded
<1>2. taken \in 0 .. Len(log) /\ Len(log) \in Nat
  BY DEF Inv, TypeOK
<1>3. CASE UNCHANGED encVars
  <2>1. \/ UNCHANGED << taken, out >>
        \/ RepeatFrame
        \/ DecodeFrame
    BY DEF Next, vars, decVars, EncoderStep, DropFrame, CodeFrame, EncodeFails,
           Transport, Arrive, DecoderStep, StreamIsMalformed, NeedMore, LazyInit,
           DecodeFails
  <2>2. /\ Len(out') = taken'
        /\ \A k \in 1 .. Len(out') : IsLastCoded(log, out'[k], k)
    BY <1>1, <2>1, RepeatFramePictures, DecodeFramePictures
  <2>3. log' = log
    BY <1>3 DEF encVars
  <2> QED BY <2>2, <2>3 DEF IsLastCoded
<1>4. CASE /\ UNCHANGED << taken, out >>
           /\ \A k \in 1 .. Len(log) : log'[k] = log[k]
  <2> SUFFICES ASSUME NEW k \in 1 .. Len(out) PROVE IsLastCoded(log', out'[k], k)
    BY <1>1, <1>4
  <2>1. /\ out[k] \in 1 .. k /\ ~log[out[k]].drop
        /\ \A i \in out[k] + 1 .. k : log[i].drop
    BY <1>1 DEF IsLastCoded
  <2>2. \A i \in 1 .. k : log'[i] = log[i]
    BY <1>1, <1>2, <1>4
  <2>3. out'[k] = out[k]
    BY <1>4
  <2>4. out[k] + 1 .. k \subseteq 1 .. k
    BY <2>1
  <2>5. ~log'[out[k]].drop /\ \A i \in out[k] + 1 .. k : log'[i].drop
    BY <2>1, <2>2, <2>4
  <2> QED BY <2>1, <2>3, <2>5 DEF IsLastCoded
<1>5. \/ UNCHANGED encVars
      \/ /\ UNCHANGED << taken, out >>
         /\ \A k \in 1 .. Len(log) : log'[k] = log[k]
  BY LogGrows
<1> QED BY <1>3, <1>4, <1>5

(* Every record that is read becomes one picture: the one that was coded,  *)
(* or the last one again where the encoder dropped a frame.                *)
THEOREM PicturesAgree == Spec => []PicturesAreThoseCoded
<1>1. Inv /\ PicturesAreThoseCoded /\ [Next]_vars => PicturesAreThoseCoded'
  BY StepPictures
<1> QED BY <1>1, InitPictures, Invariance, PTL DEF Spec

-----------------------------------------------------------------------------
(* The references of the records.                                          *)

LEMMA SlotStep ==
  ASSUME NEW records, NEW m \in Nat \ {0},
         NEW before \in RefsOf(Features), NEW after,
         SlotFits(records, before, m - 1), Fits(records[m], m, before, after)
  PROVE  SlotFits(records, after, m)
<1>1. before.prev \in Int /\ before.ltr \in Int
  BY FramesAssumption DEF RefsOf, Features
<1>2. \A k \in 1 .. m : k = m \/ k \in 1 .. m - 1
  OBVIOUS
<1>3. CASE records[m].drop
  <2>1. after = before /\ ~records[m].key /\ ~records[m].mark
    BY <1>3 DEF Fits, After
  <2>2. before.have =>
          /\ before.ltr \in 1 .. m
          /\ \A j \in before.ltr + 1 .. m : j = m \/ j \in before.ltr + 1 .. m - 1
    BY <1>1 DEF SlotFits
  <2> QED BY <1>2, <2>1, <2>2 DEF SlotFits
<1>4. CASE ~records[m].drop
  <2> DEFINE refs == Cleared(before, records[m].key)
  <2>1. /\ after.prev = m
        /\ after.ltr = IF records[m].mark THEN m ELSE refs.ltr
        /\ after.have <=> refs.have \/ records[m].mark
    BY <1>4 DEF Fits, After, Kept
  <2>2. CASE records[m].mark
    <3>1. after.ltr = m
      BY <2>1, <2>2
    <3> QED BY <2>1, <2>2, <3>1 DEF SlotFits
  <2>3. CASE ~records[m].mark /\ records[m].key
    <3>1. ~after.have
      BY <2>1, <2>3 DEF Cleared, Fresh
    <3> QED BY <2>1, <3>1 DEF SlotFits
  <2>4. CASE ~records[m].mark /\ ~records[m].key
    <3>1. after.ltr = before.ltr /\ (after.have <=> before.have)
      BY <2>1, <2>4 DEF Cleared
    <3>2. before.have =>
            /\ before.ltr \in 1 .. m
            /\ \A j \in before.ltr + 1 .. m : j = m \/ j \in before.ltr + 1 .. m - 1
      BY <1>1 DEF SlotFits
    <3> QED BY <1>2, <2>1, <2>4, <3>1, <3>2 DEF SlotFits
  <2> QED BY <2>2, <2>3, <2>4
<1> QED BY <1>3, <1>4

LEMMA InitSlots == Init => SlotsOK
<1> SUFFICES ASSUME Init PROVE SlotsOK
  OBVIOUS
<1>1. Len(log) = 0 /\ trail[1] = Fresh
  BY DEF Init
<1>2. SlotFits(log, Fresh, 0)
  BY DEF SlotFits, Fresh
<1>3. ASSUME NEW m \in 0 .. 0 PROVE m = 0 /\ m + 1 = 1
  OBVIOUS
<1> QED BY <1>1, <1>2, <1>3 DEF SlotsOK

LEMMA StepSlots ==
  ASSUME Inv, Inv', SlotsOK, [Next]_vars
  PROVE  SlotsOK'
<1>1. Len(log) \in Nat /\ Len(log') \in Nat
  BY DEF Inv, TypeOK
<1>2. CASE UNCHANGED << log, trail >>
  BY <1>2 DEF SlotsOK
<1>3. CASE /\ Len(log') = Len(log) + 1
           /\ \A k \in 1 .. Len(log) : log'[k] = log[k]
           /\ \A k \in 1 .. Len(log) + 1 : trail'[k] = trail[k]
  <2> SUFFICES ASSUME NEW m \in 0 .. Len(log') PROVE SlotFits(log', trail'[m + 1], m)
    BY DEF SlotsOK
  <2>1. ASSUME NEW i \in 0 .. Len(log) PROVE SlotFits(log', trail'[i + 1], i)
    <3>1. SlotFits(log, trail[i + 1], i)
      BY DEF SlotsOK
    <3>2. trail'[i + 1] = trail[i + 1] /\ \A k \in 1 .. i : log'[k] = log[k]
      BY <1>1, <1>3
    <3>3. trail[i + 1].have => \A j \in trail[i + 1].ltr + 1 .. i : j \in 1 .. i
      BY <3>1 DEF SlotFits
    <3> QED BY <3>1, <3>2, <3>3 DEF SlotFits
  <2>2. CASE m \in 0 .. Len(log)
    BY <2>1, <2>2
  <2>3. CASE m = Len(log')
    <3>1. SlotFits(log', trail'[(m - 1) + 1], m - 1)
      BY <1>1, <1>3, <2>1, <2>3
    <3>2. (m - 1) + 1 = m /\ m \in 1 .. Len(log') /\ m \in Nat \ {0}
      BY <1>1, <1>3, <2>3
    <3>3. trail'[m] \in RefsOf(Features)
      BY <1>1, <1>3, <2>3, SMTT(40) DEF Inv, TypeOK, HistoryOK
    <3>4. Fits(log'[m], m, trail'[m], trail'[m + 1])
      BY <3>2 DEF Inv, HistoryOK
    <3> QED BY <3>1, <3>2, <3>3, <3>4, SlotStep
  <2> QED BY <1>1, <1>3, <2>2, <2>3
<1>4. \/ UNCHANGED << log, trail >>
      \/ /\ Len(log') = Len(log) + 1
         /\ \A k \in 1 .. Len(log) : log'[k] = log[k]
         /\ \A k \in 1 .. Len(log) + 1 : trail'[k] = trail[k]
  BY LogGrows DEF encVars
<1> QED BY <1>2, <1>3, <1>4

(* After any number of records the slots hold nothing from before a key    *)
(* frame, and the long-term one holds the frame marked last.               *)
THEOREM SlotsInvariance == Spec => []SlotsOK
<1>1. Inv /\ Inv' /\ SlotsOK /\ [Next]_vars => SlotsOK'
  BY StepSlots
<1> QED BY <1>1, InitSlots, Invariance, PTL DEF Spec

(* What a record's reference is, by the references before it.              *)
LEMMA RecordSlots ==
  ASSUME Inv, SlotsOK, NEW n \in 1 .. Len(log)
  PROVE  /\ Fits(log[n], n, trail[n], trail[n + 1])
         /\ SlotFits(log, trail[n], n - 1)
         /\ n \in Nat
<1>1. n - 1 \in 0 .. Len(log) /\ (n - 1) + 1 = n /\ Len(log) \in Nat
  BY DEF Inv, TypeOK
<1>2. SlotFits(log, trail[(n - 1) + 1], n - 1)
  BY <1>1 DEF SlotsOK
<1> QED BY <1>1, <1>2 DEF Inv, HistoryOK

(* Decoding can begin at any key frame: no later record refers to anything *)
(* older than it.                                                          *)
THEOREM EntryPoints == Spec => []KeyFramesAreEntryPoints
<1>1. ASSUME Inv, SlotsOK PROVE KeyFramesAreEntryPoints
  <2> SUFFICES ASSUME NEW k \in 1 .. Len(log), NEW n \in 1 .. Len(log),
                      k < n, log[k].key, ~log[n].drop, ~log[n].key
               PROVE  log[n].ref >= k
    BY DEF KeyFramesAreEntryPoints
  <2>1. SlotFits(log, trail[n], n - 1) /\ k \in 1 .. n - 1
    BY <1>1, RecordSlots
  <2>2. log[n].ref = Reference(trail[n], log[n].recovery)
    BY <1>1, RecordSlots DEF Fits, Cleared
  <2> QED BY <2>1, <2>2 DEF SlotFits, Reference
<1> QED BY <1>1, Invariance, SlotsInvariance, PTL

(* A recovery frame refers to the frame that was marked last, and never to *)
(* one from before a key frame.                                            *)
THEOREM RecoveryIsSound == Spec => []RecoveryUsesLastMark
<1>1. ASSUME Inv, SlotsOK PROVE RecoveryUsesLastMark
  <2> SUFFICES ASSUME NEW n \in 1 .. Len(log), log[n].recovery
               PROVE  /\ log[n].ref \in 1 .. n - 1
                      /\ log[log[n].ref].mark
                      /\ \A j \in log[n].ref + 1 .. n - 1 : ~log[j].mark /\ ~log[j].key
    BY DEF RecoveryUsesLastMark
  <2>1. SlotFits(log, trail[n], n - 1) /\ trail[n].have /\ ~log[n].key /\ ~log[n].drop
    BY <1>1, RecordSlots DEF Fits
  <2>2. log[n].ref = trail[n].ltr
    BY <1>1, <2>1, RecordSlots DEF Fits, Cleared, Reference
  <2> QED BY <2>1, <2>2 DEF SlotFits
<1> QED BY <1>1, Invariance, SlotsInvariance, PTL

-----------------------------------------------------------------------------
(* The demuxer.                                                            *)

(* Records lie one behind the other.                                       *)
EndsGrow ==
  \A k \in 1 .. Len(log) : log[k].end >= WrittenBefore(k - 1) + RecordSize

(* A record is added behind the others.                                    *)
Extends ==
  /\ Len(log') = Len(log) + 1
  /\ \A k \in 1 .. Len(log) : log'[k] = log[k]
  /\ log'[Len(log) + 1].end >= WrittenBefore(Len(log)) + RecordSize
  /\ UNCHANGED << arrived, taken, decoder >>

LEMMA EncoderExtends ==
  ASSUME Inv, EncoderStep
  PROVE  UNCHANGED << log, arrived, taken, decoder >> \/ Extends
<1>1. PICK gop \in GopSizes, bitrate \in BOOLEAN :
        \/ DropFrame(gop, bitrate)
        \/ \E force \in BOOLEAN :
             \/ \E size \in Payloads : CodeFrame(force, gop, bitrate, size)
             \/ EncodeFails(force, gop, bitrate)
  BY DEF EncoderStep
<1>2. WrittenBefore(Len(log)) \in Nat /\ RecordSize \in Nat /\ Len(log) \in Nat
  BY EndsOK, SizesOK DEF Inv, TypeOK
<1>3. ASSUME NEW r, log' = Append(log, r),
             r.end >= WrittenBefore(Len(log)) + RecordSize,
             UNCHANGED << arrived, taken, decoder >>
      PROVE  Extends
  BY <1>3 DEF Extends, Inv, TypeOK
<1>4. CASE DropFrame(gop, bitrate)
  BY <1>2, <1>3, <1>4 DEF DropFrame, Write, DropRecord, decVars
<1>5. ASSUME NEW force \in BOOLEAN, NEW size \in Payloads,
             CodeFrame(force, gop, bitrate, size)
      PROVE  Extends
  <2>1. PICK r : /\ log' = Append(log, r)
                 /\ r.end = WrittenBefore(Len(log)) + RecordSize + size
    BY <1>5 DEF CodeFrame, Write
  <2>2. size \in Nat
    BY SizesOK
  <2>3. r.end >= WrittenBefore(Len(log)) + RecordSize
    BY <1>2, <2>1, <2>2
  <2>4. UNCHANGED << arrived, taken, decoder >>
    BY <1>5 DEF CodeFrame, decVars
  <2> QED BY <1>3, <2>1, <2>3, <2>4
<1>6. ASSUME NEW force \in BOOLEAN, EncodeFails(force, gop, bitrate)
      PROVE  UNCHANGED << log, arrived, taken, decoder >>
  BY <1>6 DEF EncodeFails, decVars
<1> QED BY <1>1, <1>4, <1>5, <1>6

LEMMA StepEnds ==
  ASSUME Inv, EndsGrow, [Next]_vars
  PROVE  EndsGrow'
<1>1. CASE Extends
  <2>1. /\ Len(log) \in Nat /\ Len(log') = Len(log) + 1
        /\ \A k \in 1 .. Len(log) : log'[k] = log[k]
    BY <1>1 DEF Extends, Inv, TypeOK
  <2>2. \A k \in 0 .. Len(log) : WrittenBefore(k)' = WrittenBefore(k)
    BY <2>1 DEF WrittenBefore
  <2> SUFFICES ASSUME NEW k \in 1 .. Len(log')
               PROVE  log'[k].end >= WrittenBefore(k - 1)' + RecordSize
    BY DEF EndsGrow
  <2>3. k - 1 \in 0 .. Len(log)
    BY <2>1
  <2>4. WrittenBefore(k - 1)' = WrittenBefore(k - 1)
    BY <2>2, <2>3 DEF WrittenBefore
  <2>5. CASE k \in 1 .. Len(log)
    BY <2>1, <2>4, <2>5 DEF EndsGrow
  <2>6. CASE k = Len(log) + 1
    <3>1. k - 1 = Len(log)
      BY <2>1, <2>6
    <3> QED BY <1>1, <2>4, <2>6, <3>1 DEF Extends
  <2> QED BY <2>1, <2>5, <2>6
<1>2. CASE UNCHANGED log
  BY <1>2 DEF EndsGrow, WrittenBefore
<1>3. UNCHANGED log \/ Extends
  BY EncoderExtends
  DEF Next, vars, encVars, Transport, Arrive, DecoderStep, StreamIsMalformed,
      NeedMore, LazyInit, RepeatFrame, DecodeFrame, DecodeFails
<1> QED BY <1>1, <1>2, <1>3

LEMMA StepWhole ==
  ASSUME Inv, EndsGrow, WholeRecordsAreRead, [Next]_vars
  PROVE  WholeRecordsAreRead'
<1>1. /\ taken \in 0 .. Len(log) /\ Len(log) \in Nat /\ arrived \in 0 .. Written
      /\ Written \in Nat /\ RecordSize \in Nat \ {0}
      /\ \A k \in 1 .. Len(log) : log[k].end \in Nat
  <2>1. \A k \in 1 .. Len(log) : log[k].end \in Nat
    <3> SUFFICES ASSUME NEW k \in 1 .. Len(log) PROVE log[k].end \in Nat
      OBVIOUS
    <3>1. log[k] \in RecordType
      BY DEF Inv, TypeOK
    <3> QED BY <3>1 DEF RecordType
  <2> QED BY <2>1, EndsOK, SizesOK DEF Inv, TypeOK
<1>2. CASE EncoderStep
  <2>1. CASE UNCHANGED << log, arrived, taken, decoder >>
    BY <2>1 DEF WholeRecordsAreRead
  <2>2. CASE Extends
    <3>1. /\ arrived' = arrived /\ taken' = taken /\ decoder' = decoder
          /\ Len(log') = Len(log) + 1
          /\ \A k \in 1 .. Len(log) : log'[k] = log[k]
          /\ log'[Len(log) + 1].end >= WrittenBefore(Len(log)) + RecordSize
      BY <2>2 DEF Extends
    <3>2. taken > 0 => log'[taken'].end <= arrived'
      BY <1>1, <3>1 DEF WholeRecordsAreRead
    <3>3. CASE taken < Len(log)
      BY <1>1, <3>1, <3>2, <3>3 DEF WholeRecordsAreRead
    <3>4. CASE taken = Len(log)
      <4>1. WrittenBefore(Len(log)) \in Nat /\ Written <= WrittenBefore(Len(log))
        BY <1>1, EndsOK DEF Inv, Written
      <4>2. arrived < WrittenBefore(Len(log)) + RecordSize
        BY <1>1, <4>1
      <4>3. log'[Len(log) + 1].end \in Int
        <5>1. log'[Len(log) + 1] \in RecordType
          BY <1>1, <3>1, StepInv DEF Inv, TypeOK
        <5> QED BY <5>1 DEF RecordType
      <4>4. arrived < log'[taken + 1].end
        BY <1>1, <3>1, <3>4, <4>1, <4>2, <4>3
      <4> QED BY <1>1, <3>1, <3>2, <3>4, <4>4 DEF WholeRecordsAreRead
    <3> QED BY <1>1, <3>3, <3>4
  <2> QED BY <1>2, <2>1, <2>2, EncoderExtends
<1>3. CASE Transport
  <2>1. PICK n \in 1 .. Written - arrived : Arrive(n)
    BY <1>3 DEF Transport
  <2>2. /\ arrived' = arrived + n /\ decoder' = "loop" /\ log' = log /\ taken' = taken
    BY <2>1 DEF Arrive, encVars
  <2> QED BY <1>1, <2>2 DEF WholeRecordsAreRead
<1>4. CASE NeedMore
  <2>1. /\ log' = log /\ taken' = taken /\ arrived' = arrived /\ ~Complete /\ ~Malformed
    BY <1>4 DEF NeedMore, Incomplete, encVars
  <2>2. ASSUME taken < Len(log) PROVE arrived < log[taken + 1].end
    <3>1. taken + 1 \in 1 .. Len(log) /\ (taken + 1) - 1 = taken
      BY <1>1, <2>2
    <3>2. log[taken + 1].end >= Start + RecordSize /\ Start \in Nat
      BY <1>1, <3>1, EndsOK DEF EndsGrow, Start, Inv
    <3> QED BY <1>1, <2>1, <3>1, <3>2 DEF Complete, Record
  <2> QED BY <1>1, <2>1, <2>2 DEF WholeRecordsAreRead
<1>5. CASE StreamIsMalformed \/ LazyInit \/ DecodeFails
  BY <1>5 DEF StreamIsMalformed, LazyInit, AfterInit, DecodeFails, encVars,
              WholeRecordsAreRead
<1>6. CASE RepeatFrame \/ DecodeFrame
  <2>1. /\ log' = log /\ taken' = taken + 1 /\ arrived' = arrived
        /\ decoder' = "loop" /\ log[taken + 1].end <= arrived
    BY <1>1, <1>6 DEF RepeatFrame, DecodeFrame, InLoop, Complete, Record, encVars
  <2> QED BY <1>1, <2>1 DEF WholeRecordsAreRead
<1>7. CASE UNCHANGED vars
  BY <1>7 DEF vars, encVars, decVars, WholeRecordsAreRead
<1> QED BY <1>2, <1>3, <1>4, <1>5, <1>6, <1>7 DEF Next, DecoderStep

(* However the stream is cut, no record is read before all of it is there, *)
(* and the decoder only waits when no complete record is left.             *)
THEOREM Demuxed == Spec => []WholeRecordsAreRead
<1>1. Init => EndsGrow /\ WholeRecordsAreRead
  BY DEF Init, EndsGrow, WholeRecordsAreRead
<1>2. Inv /\ EndsGrow /\ [Next]_vars => EndsGrow'
  BY StepEnds
<1>3. Inv /\ EndsGrow /\ WholeRecordsAreRead /\ [Next]_vars => WholeRecordsAreRead'
  BY StepWhole
<1> QED BY <1>1, <1>2, <1>3, Invariance, PTL DEF Spec

=============================================================================
