------------------------------ MODULE RangeCoder ------------------------------
(***************************************************************************)
(* The rANS entropy coder of codecs/mlvc/src/rans.cpp: values are encoded  *)
(* back to front, each with one of several distributions, a value outside  *)
(* its distribution as an escape followed by raw digits, and decoded front *)
(* to back.                                                                *)
(*                                                                         *)
(* The widths are parameters.  The code has two variants: units of 8 bits  *)
(* with a state of 23 + 8 bits, and units of 32 bits with 31 + 32; in both *)
(* the reciprocals that replace the division are one bit wider than the    *)
(* state.  The buffer that grows downwards is a sequence.                  *)
(***************************************************************************)
EXTENDS Integers, Sequences

CONSTANTS Variants,    \* records [unit, lower, units]: the bits of a unit and
                       \* of the lower bound, and the units of a state
          SymbolBits,  \* log2 of the total of a distribution
          BypassBits,  \* bits of a raw digit
          ValueBits,   \* bits of the widest escape
          Tables,      \* the sequences of distributions [offset, freqs]
          Indices,     \* the indices values come with
          Values,      \* the values
          MaxValues    \* bound: values per stream

(* A state has room for its units, and a digit or a symbol goes in without *)
(* losing the lower bound; a variant that looks once has units as wide as  *)
(* its digits and symbols.                                                 *)
ASSUME WidthsAssumption ==
  /\ SymbolBits \in Nat \ {0} /\ BypassBits \in Nat \ {0} /\ ValueBits \in Nat
  /\ \A v \in Variants :
       /\ v \in [unit : Nat \ {0}, lower : Nat, units : Nat \ {0}]
       /\ v.lower + v.unit <= v.unit * v.units
       /\ SymbolBits <= v.lower /\ BypassBits <= v.lower
       /\ v.units = 2 => SymbolBits <= v.unit /\ BypassBits <= v.unit

ASSUME TablesAssumption == Tables \subseteq Seq([offset : Int, freqs : Seq(Int)])

ASSUME ValuesAssumption == Indices \subseteq Int /\ Values \subseteq Int

VARIABLES coder,    \* the variant and table in use, "none" before
          phase,    \* "idle", "encode", "decode", "done", or "refused"
          sent,     \* the pairs encoded, in the order of decoding
          x,        \* the state of the encoder, then of the decoder
          data,     \* the units written, then those not yet read
          received, \* the values decoded
          status    \* what the last call returned

rcVars == << coder, phase, sent, x, data, received, status >>

Pow[n \in Nat] == IF n = 0 THEN 1 ELSE 2 * Pow[n - 1]

BypassMax  == Pow[BypassBits] - 1
MaxDigits  == ValueBits \div BypassBits
Lower      == Pow[coder.lower]
StateBits  == coder.lower + coder.unit

(* The sums of the first numbers of a sequence, and the number with the    *)
(* given digits, the lowest first.                                         *)
Sums(s) == LET sum[n \in 0 .. Len(s)] == IF n = 0 THEN 0 ELSE sum[n - 1] + s[n] IN sum
Assembled(digits, bits) ==
  Sums([k \in 1 .. Len(digits) |-> digits[k] * Pow[bits * (k - 1)]])[Len(digits)]

(* The cumulated frequencies of a distribution, before its n-th symbol     *)
(* (from 0), and the symbol that stands for an escape.                     *)
Start(d, n)    == Sums(d.freqs)[n]
Freq(d, n)     == d.freqs[n + 1]
Sentinel(d)    == Len(d.freqs) - 1
DistOf(index)  ==
  coder.table[IF index >= Len(coder.table) THEN Len(coder.table) ELSE index + 1]

(* RansCoder::create(): every distribution has an escape and fits.         *)
Accepted(table) ==
  /\ table # << >>
  /\ \A k \in 1 .. Len(table) :
       /\ Len(table[k].freqs) > 1
       /\ \A n \in 0 .. Sentinel(table[k]) :
            /\ Freq(table[k], n) > 0
            /\ Start(table[k], n) + Freq(table[k], n) <= Pow[SymbolBits]

-----------------------------------------------------------------------------
(* Encoder and decoder work on [x, data].                                  *)

UnitOf(v, n) == (v \div Pow[coder.unit * n]) % Pow[coder.unit]

(* Units leave, the lowest first, until the state is below the limit; the  *)
(* 64-bit variant looks only once.                                         *)
Renorm(s, limit) ==
  LET Below(k) == \/ s.x \div Pow[coder.unit * k] < limit
                  \/ coder.units = 2 /\ k = 1
      n == CHOOSE k \in 0 .. coder.units : Below(k) /\ \A j \in 0 .. k - 1 : ~Below(j)
  IN [x    |-> s.x \div Pow[coder.unit * n],
      data |-> [k \in 1 .. n |-> UnitOf(s.x, n - k)] \o s.data]

(* enc_sym_init: the division by a frequency as a multiplication and a     *)
(* shift.                                                                  *)
Shift(freq)      == CHOOSE n \in 1 .. SymbolBits : /\ freq <= Pow[n]
                                                   /\ \A k \in 1 .. n - 1 : freq > Pow[k]
Reciprocal(freq) ==
  IF freq > 1 THEN (Pow[Shift(freq) + StateBits] + freq - 1) \div freq
              ELSE Pow[StateBits + 1] - 1
RcpShift(freq)   == IF freq > 1 THEN Shift(freq) + StateBits ELSE StateBits + 1
Bias(start, freq) == IF freq > 1 THEN start ELSE start + Pow[SymbolBits] - 1

(* put_sym: a symbol of a distribution.                                    *)
PutSym(s, start, freq) ==
  LET r == Renorm(s, freq * Pow[StateBits - SymbolBits])
      q == (r.x * Reciprocal(freq)) \div Pow[RcpShift(freq)]
  IN [r EXCEPT !.x = @ + q * (Pow[SymbolBits] - freq) + Bias(start, freq)]

(* put_raw of a digit, and of several.                                     *)
PutRaw(s, digit) ==
  LET r == Renorm(s, Pow[StateBits - BypassBits])
  IN [r EXCEPT !.x = @ * Pow[BypassBits] + digit]
Put(s, digits) ==
  LET put[k \in 0 .. Len(digits)] == IF k = 0 THEN s ELSE PutRaw(put[k - 1], digits[k])
  IN put
PutAll(s, digits) == Put(s, digits)[Len(digits)]

DigitOf(v, n) == (v \div Pow[BypassBits * n]) % Pow[BypassBits]
DigitCount(v) ==
  CHOOSE n \in 0 .. ValueBits : /\ v < Pow[BypassBits * n]
                                /\ \A k \in 0 .. n - 1 : v >= Pow[BypassBits * k]

(* A fault: a count that is a multiple of the largest digit has no last    *)
(* digit of zero.                                                          *)
CountWithoutZero(n) ==
  IF n > 0 /\ n % BypassMax = 0 THEN [k \in 1 .. n \div BypassMax |-> BypassMax]
  ELSE << n % BypassMax >> \o [k \in 1 .. n \div BypassMax |-> BypassMax]

(* The number of digits goes out in digits too: for the decoder, first     *)
(* the largest digit, as often as it fits, then the rest, below it.        *)
CountDigits(n) == << n % BypassMax >> \o [k \in 1 .. n \div BypassMax |-> BypassMax]

Bypass(s, v) ==
  LET n == DigitCount(v)
  IN PutAll(s, [k \in 1 .. n |-> DigitOf(v, n - k)] \o CountDigits(n))

(* encode() of one value: an escape's digits first, as the decoder comes   *)
(* from the other side.                                                    *)
Escaped(d, v)  == v < 0 \/ v >= Sentinel(d)
EscapeOf(d, v) == IF v < 0 THEN 2 * (-v) - 1 ELSE 2 * (v - Sentinel(d))

(* The digits that a decoder takes hold every escape.                      *)
ASSUME EscapesFit ==
  \A t \in Tables, value \in Values : \A k \in 1 .. Len(t) :
    EscapeOf(t[k], value + t[k].offset) < Pow[BypassBits * MaxDigits]

EncodeOne(s, index, value) ==
  LET d == DistOf(index)
      v == value + d.offset
  IN IF index < 0 THEN s
     ELSE IF Escaped(d, v)
          THEN PutSym(Bypass(s, EscapeOf(d, v)), Start(d, Sentinel(d)), Freq(d, Sentinel(d)))
          ELSE PutSym(s, Start(d, v), Freq(d, v))

(* flush(): the state itself, the lowest unit in front.                    *)
StateUnits(v) == [n \in 1 .. coder.units |-> UnitOf(v, n - 1)]

(* The decoder: "bad" when it runs out of data or finds no symbol.         *)
Bad == [x |-> 0, data |-> << >>, ok |-> FALSE, value |-> 0]
WithValue(s, v) == [s EXCEPT !.value = v]

(* Units come back until the state reaches the lower bound; the 64-bit     *)
(* variant looks only once.                                                *)
Read(s) ==
  LET read[k \in 0 .. Len(s.data)] ==
        IF k = 0 THEN s.x ELSE read[k - 1] * Pow[coder.unit] + s.data[k]
  IN read
Refill(s) ==
  LET Full(k) == Read(s)[k] >= Lower \/ (coder.units = 2 /\ k = 1)
      n == CHOOSE k \in 0 .. Len(s.data) : Full(k) /\ \A j \in 0 .. k - 1 : ~Full(j)
  IN IF \E k \in 0 .. Len(s.data) : Full(k)
     THEN [s EXCEPT !.x = Read(s)[n], !.data = SubSeq(@, n + 1, Len(@))]
     ELSE Bad

Advance(s, start, freq, bits) ==
  Refill([s EXCEPT !.x = freq * (@ \div Pow[bits]) + (@ % Pow[bits]) - start])

Digit(s)    == s.x % Pow[BypassBits]
GetDigit(s) == Advance(s, Digit(s), 1, BypassBits)

(* The count of digits, up to the first digit that is not the largest;     *)
(* it must not exceed what a value can hold.  Then the digits, the lowest  *)
(* first.                                                                  *)
Got(s) ==
  LET got[k \in 0 .. 2 * MaxDigits + 1] == IF k = 0 THEN s ELSE GetDigit(got[k - 1])
  IN got
Taken(got, p, n) ==
  IF n <= MaxDigits /\ got[p + 1 + n].ok
  THEN WithValue(got[p + 1 + n], Assembled([k \in 1 .. n |-> Digit(got[p + k])], BypassBits))
  ELSE Bad
GetBypass(s) ==
  LET got     == Got(s)
      Last(k) == Digit(got[k]) # BypassMax
      p == CHOOSE k \in 0 .. MaxDigits : Last(k) /\ \A j \in 0 .. k - 1 : ~Last(j)
  IN IF \E k \in 0 .. MaxDigits : Last(k)
     THEN Taken(got, p, p * BypassMax + Digit(got[p]))
     ELSE Bad

(* decode() of one value: n is the symbol whose interval the state is in,  *)
(* t the state after it, and e that after an escape.                       *)
CumOf(s)        == s.x % Pow[SymbolBits]
FoundIn(d, cum) == CHOOSE k \in 0 .. Sentinel(d) :
                     Start(d, k) <= cum /\ cum < Start(d, k) + Freq(d, k)
After(s, d, n)  == Advance(s, Start(d, n), Freq(d, n), SymbolBits)
Unescaped(d, e) == IF e % 2 = 1 THEN -(e \div 2) - 1 ELSE e \div 2 + Sentinel(d)
Decided(s, index, n, t, e) ==
  LET d   == DistOf(index)
      top == Start(d, Len(d.freqs))
      v   == IF n < Sentinel(d) THEN n ELSE Unescaped(d, e.value)
  IN CASE index < 0                                  -> WithValue(s, 0)
       [] index >= 0 /\ CumOf(s) >= top              -> Bad
       [] index >= 0 /\ CumOf(s) < top /\ ~t.ok      -> Bad
       [] OTHER -> IF n < Sentinel(d) THEN WithValue(t, v - d.offset)
                   ELSE IF e.ok THEN WithValue(e, v - d.offset) ELSE Bad
DecodeOne(s, index) ==
  LET d == DistOf(index)
      n == FoundIn(d, CumOf(s))
      t == After(s, d, n)
  IN Decided(s, index, n, t, GetBypass(t))

-----------------------------------------------------------------------------
RcIdle ==
  /\ coder = "none"
  /\ phase = "idle"
  /\ sent = << >>
  /\ x = 0
  /\ data = << >>
  /\ received = << >>
  /\ status = "None"

Create ==
  /\ phase = "idle"
  /\ \E v \in Variants, t \in Tables :
       IF Accepted(t)
       THEN /\ coder' = [unit |-> v.unit, lower |-> v.lower, units |-> v.units, table |-> t]
            /\ x' = Pow[v.lower]
            /\ phase' = "encode"
            /\ status' = "Ok"
       ELSE /\ phase' = "refused"
            /\ status' = "Format"
            /\ UNCHANGED << coder, x >>
  /\ UNCHANGED << sent, data, received >>

Encode ==
  /\ phase = "encode"
  /\ Len(sent) < MaxValues
  /\ \E index \in Indices, value \in Values :
       LET s == EncodeOne([x |-> x, data |-> data], index, value) IN
         /\ x' = s.x
         /\ data' = s.data
         /\ sent' = << [index |-> index, value |-> value] >> \o sent
  /\ UNCHANGED << coder, phase, received, status >>

(* RansEncoder::flush(), then RansDecoder::open() on what it wrote.        *)
FlushAndOpen ==
  /\ phase = "encode"
  /\ LET written == StateUnits(x) \o data
         state   == Assembled(SubSeq(written, 1, coder.units), coder.unit)
     IN /\ x' = state
        /\ data' = SubSeq(written, coder.units + 1, Len(written))
        /\ status' = IF state < Lower THEN "Format" ELSE "Ok"
        /\ phase' = IF state < Lower THEN "done" ELSE "decode"
  /\ UNCHANGED << coder, sent, received >>

Decode ==
  /\ phase = "decode"
  /\ Len(received) < Len(sent)
  /\ LET s == DecodeOne([x |-> x, data |-> data, ok |-> TRUE, value |-> 0],
                        sent[Len(received) + 1].index)
     IN /\ x' = s.x
        /\ data' = s.data
        /\ received' = IF s.ok THEN Append(received, s.value) ELSE received
        /\ status' = IF s.ok THEN "Ok" ELSE "Format"
        /\ phase' = IF s.ok THEN "decode" ELSE "done"
  /\ UNCHANGED << coder, sent >>

(* rans_decode() asks check_eof(): all data used, the state at its start.  *)
CheckEof ==
  /\ phase = "decode"
  /\ Len(received) = Len(sent)
  /\ phase' = "done"
  /\ status' = IF data = << >> /\ x = Lower THEN "Ok" ELSE "Format"
  /\ UNCHANGED << coder, sent, x, data, received >>

RcNext == Create \/ Encode \/ FlushAndOpen \/ Decode \/ CheckEof

RcSpec == RcIdle /\ [][RcNext]_rcVars

-----------------------------------------------------------------------------
(* Properties.                                                             *)

(* The coder is lossless: what was encoded is decoded, value by value,     *)
(* escapes included, values without a distribution as zero, and the end    *)
(* check finds all data used; on the way the state keeps to its interval,  *)
(* where the reciprocals divide exactly.                                   *)
RoundTrip ==
  phase \in {"encode", "decode", "done"} =>
    /\ status = "Ok"
    /\ x >= Lower /\ x < Pow[StateBits]
    /\ \A k \in 1 .. Len(received) :
         received[k] = IF sent[k].index < 0 THEN 0 ELSE sent[k].value
=============================================================================
