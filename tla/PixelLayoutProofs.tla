-------------------------- MODULE PixelLayoutProofs --------------------------
(***************************************************************************)
(* The kernels keep every element of tensors, blocks and pictures of any   *)
(* size: what goes through vectors and their transposition is what the     *)
(* scalar loops would have stored, and what goes through the network's     *)
(* layouts, or is a mean, comes from the pixels it should come from.       *)
(***************************************************************************)
EXTENDS PixelLayouts, FiniteSetTheorems, WellFoundedInduction, TLAPS

-----------------------------------------------------------------------------
(* Numbers in mixed radix.                                                 *)

LEMMA Products ==
  ASSUME NEW a \in Nat, NEW b \in Nat
  PROVE  a * b \in Nat
OBVIOUS

LEMMA Grows ==
  ASSUME NEW a \in Nat, NEW b \in Nat, NEW n \in Nat, a <= b
  PROVE  a * n <= b * n /\ a * n \in Nat /\ b * n \in Nat
<1>1. (b - a) * n \in Nat
  <2>1. b - a \in Nat
    OBVIOUS
  <2> QED
    BY <2>1, Products
<1>2. (b - a) * n = b * n - a * n
  OBVIOUS
<1>3. a * n \in Nat /\ b * n \in Nat
  BY Products
<1> QED
  BY <1>1, <1>2, <1>3

(* A digit below n behind q places of n.                                   *)
LEMMA Digit ==
  ASSUME NEW m \in Nat, NEW n \in Nat, NEW q \in Upto(m), NEW r \in Upto(n)
  PROVE  /\ q * n + r \in Upto(m * n)
         /\ q * n \in Nat /\ q \in Nat /\ r \in Nat
<1>1. q \in Nat /\ r \in Nat /\ q + 1 <= m /\ r < n /\ q + 1 \in Nat
  BY DEF Upto
<1>2. (q + 1) * n <= m * n /\ (q + 1) * n \in Nat /\ m * n \in Nat
  BY <1>1, Grows
<1>3. (q + 1) * n = q * n + n /\ q * n \in Nat
  BY <1>1, Products
<1>4. q * n + r \in Nat /\ q * n + r <= m * n - 1
  BY <1>1, <1>2, <1>3
<1> QED
  BY <1>1, <1>2, <1>3, <1>4 DEF Upto

LEMMA Digits ==
  ASSUME NEW n \in Nat, NEW p \in Nat, NEW q \in Nat, NEW r \in Upto(n), NEW s \in Upto(n),
         p * n + r = q * n + s
  PROVE  p = q /\ r = s
<1>1. r \in Nat /\ s \in Nat /\ r < n /\ s < n
  BY DEF Upto
<1>2. ASSUME NEW a \in Nat, NEW b \in Nat, NEW c \in Nat, c < n, NEW d \in Nat, d < n,
             a < b
      PROVE  a * n + c # b * n + d
  <2>1. (a + 1) * n <= b * n /\ b * n \in Nat
    BY <1>2, Grows
  <2>2. (a + 1) * n = a * n + n /\ a * n \in Nat
    BY Products
  <2> QED
    BY <1>2, <2>1, <2>2
<1>3. ~(p < q) /\ ~(q < p)
  BY <1>1, <1>2
<1>4. p = q
  BY <1>3
<1>5. r = s
  BY <1>1, <1>4, Products
<1> QED
  BY <1>4, <1>5

(* The same with a name for the number, which the provers need not expand. *)
Behind(q, n, r) == q * n + r

LEMMA BehindIn ==
  ASSUME NEW m \in Nat, NEW n \in Nat, NEW q \in Upto(m), NEW r \in Upto(n)
  PROVE  Behind(q, n, r) \in Upto(m * n) /\ m * n \in Nat
BY Digit, Products DEF Behind

LEMMA BehindNat ==
  ASSUME NEW n \in Nat, NEW q \in Nat, NEW r \in Upto(n)
  PROVE  Behind(q, n, r) \in Nat
BY Products DEF Behind, Upto

LEMMA BehindOneToOne ==
  ASSUME NEW n \in Nat, NEW p \in Nat, NEW q \in Nat, NEW r \in Upto(n), NEW s \in Upto(n),
         Behind(p, n, r) = Behind(q, n, s)
  PROVE  p = q /\ r = s
BY Digits DEF Behind

LEMMA UptoNat ==
  ASSUME NEW n \in Nat, NEW k \in Upto(n)
  PROVE  k \in Nat /\ k < n
BY DEF Upto

(* Division takes the digits apart again.                                  *)
LEMMA Divided ==
  ASSUME NEW a \in Nat, NEW n \in Nat \ {0}
  PROVE  a \div n \in Nat /\ a % n \in Upto(n) /\ a = Behind(a \div n, n, a % n)
<1>1. /\ a \div n \in Int /\ a % n \in 0 .. n - 1
      /\ a = n * (a \div n) + (a % n)
  OBVIOUS
<1>2. a \div n \in Nat
  OBVIOUS
<1>3. n * (a \div n) = (a \div n) * n
  BY <1>2
<1> QED
  BY <1>1, <1>2, <1>3 DEF Behind, Upto

LEMMA Composed ==
  ASSUME NEW q \in Nat, NEW n \in Nat \ {0}, NEW r \in Upto(n)
  PROVE  Behind(q, n, r) \div n = q /\ Behind(q, n, r) % n = r
<1> DEFINE a == Behind(q, n, r)
<1>1. n \in Nat /\ a \in Nat
  BY BehindNat
<1> HIDE DEF a
<1>2. a = Behind(a \div n, n, a % n) /\ a \div n \in Nat /\ a % n \in Upto(n)
  BY <1>1, Divided
<1>3. a = Behind(q, n, r)
  BY DEF a
<1>4. q = a \div n /\ r = a % n
  BY <1>1, <1>2, <1>3, BehindOneToOne
<1> QED
  BY <1>4 DEF a

(* Digits in order: the number of places grows with the places.            *)
LEMMA DividedIn ==
  ASSUME NEW n \in Nat \ {0}, NEW m \in Nat, NEW a \in Upto(m * n)
  PROVE  a \div n \in Upto(m)
<1>1. a \in Nat /\ a < m * n /\ m * n \in Nat
  BY Products, UptoNat
<1>2. a \div n \in Nat /\ a = (a \div n) * n + (a % n) /\ a % n \in Nat
  BY <1>1, Divided, UptoNat DEF Behind
<1>3. m <= a \div n => m * n <= (a \div n) * n
  BY <1>2, Grows
<1>4. (a \div n) * n \in Nat
  BY <1>2, Products
<1> DEFINE d == a \div n
           l == d * n
           k == m * n
           r == a % n
<1>5. a < k /\ k \in Nat /\ a = l + r /\ l \in Nat /\ r \in Nat /\ (m <= d => k <= l)
      /\ d \in Nat
  BY <1>1, <1>2, <1>3, <1>4
<1> HIDE DEF d, l, k, r
<1>6. d < m
  BY <1>5
<1> QED
  BY <1>5, <1>6 DEF Upto, d

-----------------------------------------------------------------------------
(* The layouts are one to one.                                             *)

Sized(t) == t.c \in Nat /\ t.h \in Nat /\ t.w \in Nat

LEMMA NchwPlace ==
  ASSUME NEW t, Sized(t), NEW c \in Upto(t.c), NEW y \in Upto(t.h), NEW x \in Upto(t.w)
  PROVE  Nchw(t, c, y, x) \in Upto(Size(t))
<1>1. Behind(c, t.h, y) \in Upto(t.c * t.h) /\ t.c * t.h \in Nat
  BY BehindIn DEF Sized
<1>2. Behind(Behind(c, t.h, y), t.w, x) \in Upto((t.c * t.h) * t.w)
  BY <1>1, BehindIn DEF Sized
<1> QED
  BY <1>2 DEF Nchw, Size, Behind

LEMMA NchwOneToOne ==
  ASSUME NEW t, Sized(t),
         NEW c \in Upto(t.c), NEW y \in Upto(t.h), NEW x \in Upto(t.w),
         NEW d \in Upto(t.c), NEW v \in Upto(t.h), NEW u \in Upto(t.w),
         Nchw(t, c, y, x) = Nchw(t, d, v, u)
  PROVE  c = d /\ y = v /\ x = u
<1>1. c \in Nat /\ d \in Nat /\ Behind(c, t.h, y) \in Nat /\ Behind(d, t.h, v) \in Nat
  BY UptoNat, BehindNat DEF Sized
<1>2. Behind(Behind(c, t.h, y), t.w, x) = Behind(Behind(d, t.h, v), t.w, u)
  BY DEF Nchw, Behind
<1>3. Behind(c, t.h, y) = Behind(d, t.h, v) /\ x = u
  BY <1>1, <1>2, BehindOneToOne DEF Sized
<1> QED
  BY <1>1, <1>3, BehindOneToOne DEF Sized

LEMMA NhwcPlace ==
  ASSUME NEW t, Sized(t), NEW c \in Upto(t.c), NEW y \in Upto(t.h), NEW x \in Upto(t.w)
  PROVE  Nhwc(t, c, y, x) \in Upto(Size(t))
<1>1. Behind(y, t.w, x) \in Upto(t.h * t.w) /\ t.h * t.w \in Nat
  BY BehindIn DEF Sized
<1>2. Behind(Behind(y, t.w, x), t.c, c) \in Upto((t.h * t.w) * t.c)
  BY <1>1, BehindIn DEF Sized
<1>3. (t.h * t.w) * t.c = t.c * t.h * t.w
  BY DEF Sized
<1> QED
  BY <1>2, <1>3 DEF Nhwc, Size, Behind

LEMMA NhwcOneToOne ==
  ASSUME NEW t, Sized(t),
         NEW c \in Upto(t.c), NEW y \in Upto(t.h), NEW x \in Upto(t.w),
         NEW d \in Upto(t.c), NEW v \in Upto(t.h), NEW u \in Upto(t.w),
         Nhwc(t, c, y, x) = Nhwc(t, d, v, u)
  PROVE  c = d /\ y = v /\ x = u
<1>1. y \in Nat /\ v \in Nat /\ Behind(y, t.w, x) \in Nat /\ Behind(v, t.w, u) \in Nat
  BY UptoNat, BehindNat DEF Sized
<1>2. Behind(Behind(y, t.w, x), t.c, c) = Behind(Behind(v, t.w, u), t.c, d)
  BY DEF Nhwc, Behind
<1>3. Behind(y, t.w, x) = Behind(v, t.w, u) /\ c = d
  BY <1>1, <1>2, BehindOneToOne DEF Sized
<1> QED
  BY <1>1, <1>3, BehindOneToOne DEF Sized

(* Blocks of b channels whose rows are s elements apart.                   *)
LEMMA BlockIs ==
  ASSUME NEW t, NEW s, NEW b, NEW c, NEW y, NEW x
  PROVE  Nc1hwc2(t, s, b, c, y, x)
           = Behind(Behind(Behind(c \div b, t.h, y), s, x), b, c % b)
BY DEF Nc1hwc2, Behind

LEMMA Blocks1 ==
  ASSUME NEW t, Sized(t), NEW b \in Nat \ {0}, NEW s \in Nat, t.w <= s,
         NEW c \in Upto(t.c), NEW x \in Upto(t.w)
  PROVE  /\ c \in Nat /\ b \in Nat /\ x \in Upto(s) /\ x \in Nat
         /\ c \div b \in Nat /\ c % b \in Upto(b) /\ c = Behind(c \div b, b, c % b)
<1>1. c \in Nat /\ x \in Nat /\ x < t.w
  BY UptoNat DEF Sized
<1>2. x \in Upto(s)
  BY <1>1 DEF Upto, Sized
<1> QED
  BY <1>1, <1>2, Divided

(* The blocks for all channels are enough for each.                        *)
LEMMA BlockOfChannel ==
  ASSUME NEW m \in Nat, NEW b \in Nat \ {0}, NEW c \in Upto(m)
  PROVE  c \div b \in Upto((m + b - 1) \div b) /\ (m + b - 1) \div b \in Nat
<1> DEFINE n == (m + b - 1) \div b
           r == (m + b - 1) % b
<1>1. m + b - 1 \in Nat /\ b \in Nat
  OBVIOUS
<1>2. n \in Nat /\ r \in Nat /\ r < b /\ m + b - 1 = n * b + r
  BY <1>1, Divided, UptoNat DEF Behind
<1> HIDE DEF n, r
<1>3. n * b \in Nat
  BY <1>1, <1>2, Products
<1>4. m <= n * b
  BY <1>1, <1>2, <1>3
<1>5. c \in Upto(n * b)
  BY <1>3, <1>4 DEF Upto
<1>6. c \div b \in Upto(n)
  BY <1>2, <1>5, DividedIn
<1> QED
  BY <1>2, <1>6 DEF n

LEMMA BlockPlace ==
  ASSUME NEW t, Sized(t), NEW b \in Nat \ {0}, NEW s \in Nat, t.w <= s,
         NEW c \in Upto(t.c), NEW y \in Upto(t.h), NEW x \in Upto(t.w)
  PROVE  Nc1hwc2(t, s, b, c, y, x) \in Upto(((t.c + b - 1) \div b) * t.h * s * b)
<1> DEFINE n == (t.c + b - 1) \div b
<1>1. c \div b \in Upto(n) /\ n \in Nat
  BY BlockOfChannel DEF Sized
<1> HIDE DEF n
<1>2. x \in Upto(s) /\ c % b \in Upto(b) /\ b \in Nat
  BY Blocks1
<1>3. Behind(c \div b, t.h, y) \in Upto(n * t.h) /\ n * t.h \in Nat
  BY <1>1, BehindIn DEF Sized
<1>4. /\ Behind(Behind(c \div b, t.h, y), s, x) \in Upto((n * t.h) * s)
      /\ (n * t.h) * s \in Nat
  BY <1>2, <1>3, BehindIn
<1>5. Behind(Behind(Behind(c \div b, t.h, y), s, x), b, c % b)
        \in Upto(((n * t.h) * s) * b)
  BY <1>2, <1>4, BehindIn
<1> QED
  BY <1>5, BlockIs DEF n

LEMMA BlockOneToOne ==
  ASSUME NEW t, Sized(t), NEW b \in Nat \ {0}, NEW s \in Nat, t.w <= s,
         NEW c \in Upto(t.c), NEW y \in Upto(t.h), NEW x \in Upto(t.w),
         NEW d \in Upto(t.c), NEW v \in Upto(t.h), NEW u \in Upto(t.w),
         Nc1hwc2(t, s, b, c, y, x) = Nc1hwc2(t, s, b, d, v, u)
  PROVE  c = d /\ y = v /\ x = u
<1>1. /\ c \div b \in Nat /\ c % b \in Upto(b) /\ c = Behind(c \div b, b, c % b)
      /\ x \in Upto(s) /\ b \in Nat
  BY Blocks1
<1>2. /\ d \div b \in Nat /\ d % b \in Upto(b) /\ d = Behind(d \div b, b, d % b)
      /\ u \in Upto(s)
  BY Blocks1
<1>3. Behind(c \div b, t.h, y) \in Nat /\ Behind(d \div b, t.h, v) \in Nat
  BY <1>1, <1>2, BehindNat DEF Sized
<1>4. /\ Behind(Behind(c \div b, t.h, y), s, x) \in Nat
      /\ Behind(Behind(d \div b, t.h, v), s, u) \in Nat
  BY <1>1, <1>2, <1>3, BehindNat
<1>5. Behind(Behind(Behind(c \div b, t.h, y), s, x), b, c % b)
        = Behind(Behind(Behind(d \div b, t.h, v), s, u), b, d % b)
  BY BlockIs
<1>6. /\ Behind(Behind(c \div b, t.h, y), s, x) = Behind(Behind(d \div b, t.h, v), s, u)
      /\ c % b = d % b
  BY <1>1, <1>2, <1>4, <1>5, BehindOneToOne
<1>7. Behind(c \div b, t.h, y) = Behind(d \div b, t.h, v) /\ x = u
  BY <1>1, <1>2, <1>3, <1>6, BehindOneToOne
<1>8. c \div b = d \div b /\ y = v
  BY <1>1, <1>2, <1>7, BehindOneToOne DEF Sized
<1> QED
  BY <1>1, <1>2, <1>6, <1>7, <1>8

-----------------------------------------------------------------------------
(* What a kernel's stores make of a buffer.                                *)

Functional(stores) == \A s, u \in stores : s[1] = u[1] => s[2] = u[2]

LEMMA MovedAt ==
  ASSUME NEW stores, NEW n, NEW fill, Functional(stores),
         NEW s \in stores, s[1] \in Upto(n)
  PROVE  Moved(stores, n, fill)[s[1]] = buf[s[2]]
<1> DEFINE u == CHOOSE u \in stores : u[1] = s[1]
<1>1. u \in stores /\ u[1] = s[1]
  OBVIOUS
<1>2. u[2] = s[2]
  BY <1>1 DEF Functional
<1>3. Moved(stores, n, fill)[s[1]] = buf[u[2]]
  BY DEF Moved
<1> QED
  BY <1>2, <1>3

LEMMA MovedFill ==
  ASSUME NEW stores, NEW n, NEW fill, NEW i \in Upto(n), \A s \in stores : s[1] # i
  PROVE  Moved(stores, n, fill)[i] = fill
BY DEF Moved

(* Stores that place each element of a set once move that element there.   *)
Stores(S, to, from) == {<< to[e], from[e] >> : e \in S}

LEMMA MovedEach ==
  ASSUME NEW S, NEW to, NEW from, NEW n, NEW fill,
         \A e \in S : to[e] \in Upto(n),
         \A e, f \in S : to[e] = to[f] => from[e] = from[f]
  PROVE  /\ \A e \in S : Moved(Stores(S, to, from), n, fill)[to[e]] = buf[from[e]]
         /\ \A i \in Upto(n) \ {to[e] : e \in S} :
              Moved(Stores(S, to, from), n, fill)[i] = fill
<1>1. Functional(Stores(S, to, from))
  BY DEF Functional, Stores
<1>2. ASSUME NEW e \in S
      PROVE  Moved(Stores(S, to, from), n, fill)[to[e]] = buf[from[e]]
  <2>1. << to[e], from[e] >> \in Stores(S, to, from)
    BY DEF Stores
  <2>2. << to[e], from[e] >>[1] \in Upto(n)
    OBVIOUS
  <2> QED
    BY <1>1, <2>1, <2>2, MovedAt
<1>3. ASSUME NEW i \in Upto(n) \ {to[e] : e \in S}
      PROVE  Moved(Stores(S, to, from), n, fill)[i] = fill
  <2>1. \A s \in Stores(S, to, from) : s[1] # i
    BY DEF Stores
  <2> QED
    BY <2>1, MovedFill
<1> QED
  BY <1>2, <1>3

(* The transposition, round by round.                                      *)
LEMMA TrnAt ==
  ASSUME NEW a, NEW b, NEW g, NEW odd, NEW i \in Upto(Lanes)
  PROVE  /\ (i \div g) % 2 = 0 => Trn(a, b, g, odd)[i] = a[((i \div g) + odd) * g + (i % g)]
         /\ (i \div g) % 2 # 0 => Trn(a, b, g, odd)[i] = b[((i \div g) - 1 + odd) * g + (i % g)]
BY DEF Trn

(* Rows and lanes by their bits: each round exchanges one of a row's bits  *)
(* with one of a lane's.                                                   *)
Bit == {0, 1}
Num(c, b, a) == 4 * c + 2 * b + a
Cell(k, j)   == << k, j >>

LEMMA Bits ==
  ASSUME NEW k \in Upto(Lanes)
  PROVE  \E c, b, a \in Bit : k = Num(c, b, a)
<1>1. k \in {0, 1, 2, 3, 4, 5, 6, 7}
  BY DEF Upto, Lanes
<1>2. /\ Num(0, 0, 0) = 0 /\ Num(0, 0, 1) = 1 /\ Num(0, 1, 0) = 2 /\ Num(0, 1, 1) = 3
      /\ Num(1, 0, 0) = 4 /\ Num(1, 0, 1) = 5 /\ Num(1, 1, 0) = 6 /\ Num(1, 1, 1) = 7
  BY DEF Num
<1> QED
  BY <1>1, <1>2 DEF Bit

LEMMA BitsOf ==
  ASSUME NEW c \in Bit, NEW b \in Bit, NEW a \in Bit
  PROVE  /\ Num(c, b, a) \in Upto(Lanes)
         /\ Num(c, b, a) \div 1 = Num(c, b, a) /\ Num(c, b, a) % 1 = 0
         /\ Num(c, b, a) \div 2 = 2 * c + b /\ Num(c, b, a) % 2 = a
         /\ Num(c, b, a) \div 4 = c /\ Num(c, b, a) % 4 = 2 * b + a
         /\ (2 * c + b) % 2 = b /\ (2 * b + a) \div 2 = b /\ c % 2 = c
BY DEF Bit, Num, Upto, Lanes

LEMMA TrnBit ==
  ASSUME NEW p, NEW q, NEW odd \in Bit, NEW c \in Bit, NEW b \in Bit, NEW a \in Bit
  PROVE  /\ Trn(p, q, 1, odd)[Num(c, b, a)] = IF a = 0 THEN p[Num(c, b, odd)] ELSE q[Num(c, b, odd)]
         /\ Trn(p, q, 2, odd)[Num(c, b, a)] = IF b = 0 THEN p[Num(c, odd, a)] ELSE q[Num(c, odd, a)]
         /\ Trn(p, q, 4, odd)[Num(c, b, a)] = IF c = 0 THEN p[Num(odd, b, a)] ELSE q[Num(odd, b, a)]
<1> DEFINE i == Num(c, b, a)
<1>1. i \in Upto(Lanes)
  BY BitsOf
<1>2. /\ i \div 1 = i /\ i % 1 = 0 /\ i % 2 = a
      /\ i \div 2 = 2 * c + b /\ (2 * c + b) % 2 = b
      /\ i \div 4 = c /\ i % 4 = 2 * b + a /\ c % 2 = c
  BY BitsOf
<1>3. /\ a = 0 => (i + odd) * 1 + 0 = Num(c, b, odd)
      /\ a # 0 => (i - 1 + odd) * 1 + 0 = Num(c, b, odd)
  BY DEF Num, Bit
<1>4. /\ b = 0 => ((2 * c + b) + odd) * 2 + a = Num(c, odd, a)
      /\ b # 0 => ((2 * c + b) - 1 + odd) * 2 + a = Num(c, odd, a)
  BY DEF Num, Bit
<1>5. /\ c = 0 => (c + odd) * 4 + (2 * b + a) = Num(odd, b, a)
      /\ c # 0 => (c - 1 + odd) * 4 + (2 * b + a) = Num(odd, b, a)
  BY DEF Num, Bit
<1> HIDE DEF i
<1>6. Trn(p, q, 1, odd)[i] = IF a = 0 THEN p[Num(c, b, odd)] ELSE q[Num(c, b, odd)]
  <2>1. /\ a = 0 => Trn(p, q, 1, odd)[i] = p[(i + odd) * 1 + 0]
        /\ a # 0 => Trn(p, q, 1, odd)[i] = q[(i - 1 + odd) * 1 + 0]
    BY <1>1, <1>2, TrnAt
  <2> QED
    BY <1>3, <2>1
<1>7. Trn(p, q, 2, odd)[i] = IF b = 0 THEN p[Num(c, odd, a)] ELSE q[Num(c, odd, a)]
  <2>1. /\ b = 0 => Trn(p, q, 2, odd)[i] = p[((2 * c + b) + odd) * 2 + a]
        /\ b # 0 => Trn(p, q, 2, odd)[i] = q[((2 * c + b) - 1 + odd) * 2 + a]
    BY <1>1, <1>2, TrnAt
  <2> QED
    BY <1>4, <2>1
<1>8. Trn(p, q, 4, odd)[i] = IF c = 0 THEN p[Num(odd, b, a)] ELSE q[Num(odd, b, a)]
  <2>1. /\ c = 0 => Trn(p, q, 4, odd)[i] = p[(c + odd) * 4 + (2 * b + a)]
        /\ c # 0 => Trn(p, q, 4, odd)[i] = q[(c - 1 + odd) * 4 + (2 * b + a)]
    BY <1>1, <1>2, TrnAt
  <2> QED
    BY <1>5, <2>1
<1> QED
  BY <1>6, <1>7, <1>8 DEF i

(* After the first round, row and lane have traded their lowest bits; after *)
(* the second, the row's lowest bit and the lane's middle one too.         *)
Once(t) ==
  \A c, b, a \in Bit : \A f, e, d \in Bit :
    t[Num(c, b, a)][Num(f, e, d)] = Cell(Num(c, b, d), Num(f, e, a))
Twice(v) ==
  \A c, b, a \in Bit : \A f, e, d \in Bit :
    v[Num(c, b, a)][Num(f, e, d)] = Cell(Num(c, e, d), Num(f, a, b))
Thrice(x) ==
  \A c, b, a \in Bit : \A f, e, d \in Bit :
    x[Num(c, b, a)][Num(f, e, d)] = Cell(Num(f, e, d), Num(c, b, a))

LEMMA OnceAt ==
  ASSUME NEW t, Once(t), NEW c \in Bit, NEW b \in Bit, NEW a \in Bit,
         NEW f \in Bit, NEW e \in Bit, NEW d \in Bit
  PROVE  t[Num(c, b, a)][Num(f, e, d)] = Cell(Num(c, b, d), Num(f, e, a))
BY SMTT(40) DEF Once

LEMMA TwiceAt ==
  ASSUME NEW v, Twice(v), NEW c \in Bit, NEW b \in Bit, NEW a \in Bit,
         NEW f \in Bit, NEW e \in Bit, NEW d \in Bit
  PROVE  v[Num(c, b, a)][Num(f, e, d)] = Cell(Num(c, e, d), Num(f, a, b))
BY SMTT(40) DEF Twice

LEMMA ThriceAt ==
  ASSUME NEW x, Thrice(x), NEW c \in Bit, NEW b \in Bit, NEW a \in Bit,
         NEW f \in Bit, NEW e \in Bit, NEW d \in Bit
  PROVE  x[Num(c, b, a)][Num(f, e, d)] = Cell(Num(f, e, d), Num(c, b, a))
BY SMTT(40) DEF Thrice

Row1(r, t) ==
  \A i \in Upto(Lanes) : t[i] = Trn(r[2 * (i \div 2)], r[2 * (i \div 2) + 1], 1, i % 2)
Row2(t, v) ==
  \A i \in Upto(Lanes) :
    v[i] = Trn(t[4 * (i \div 4) + ((i % 4) \div 2)],
               t[4 * (i \div 4) + ((i % 4) \div 2) + 2], 2, i % 2)
Row3(v, x) ==
  \A i \in Upto(Lanes) : x[i] = Trn(v[Last(i % 4)], v[Last(i % 4) + 4], 4, i \div 4)

LEMMA Row1At ==
  ASSUME NEW r, NEW t, Row1(r, t), NEW c \in Bit, NEW b \in Bit, NEW a \in Bit
  PROVE  t[Num(c, b, a)] = Trn(r[Num(c, b, 0)], r[Num(c, b, 1)], 1, a)
<1>1. 2 * (2 * c + b) = Num(c, b, 0) /\ 2 * (2 * c + b) + 1 = Num(c, b, 1)
  BY DEF Num, Bit
<1>2. /\ Num(c, b, a) \in Upto(Lanes)
      /\ Num(c, b, a) \div 2 = 2 * c + b /\ Num(c, b, a) % 2 = a
  BY BitsOf
<1> QED
  BY <1>1, <1>2 DEF Row1

LEMMA Row2At ==
  ASSUME NEW t, NEW v, Row2(t, v), NEW c \in Bit, NEW b \in Bit, NEW a \in Bit
  PROVE  v[Num(c, b, a)] = Trn(t[Num(c, 0, b)], t[Num(c, 1, b)], 2, a)
<1>1. 4 * c + b = Num(c, 0, b) /\ 4 * c + b + 2 = Num(c, 1, b)
  BY DEF Num, Bit
<1>2. /\ Num(c, b, a) \in Upto(Lanes)
      /\ Num(c, b, a) \div 4 = c /\ Num(c, b, a) % 2 = a
      /\ Num(c, b, a) % 4 = 2 * b + a /\ (2 * b + a) \div 2 = b
  BY BitsOf
<1> QED
  BY <1>1, <1>2 DEF Row2

LEMMA Row3At ==
  ASSUME NEW v, NEW x, Row3(v, x), NEW c \in Bit, NEW b \in Bit, NEW a \in Bit
  PROVE  x[Num(c, b, a)] = Trn(v[Num(0, a, b)], v[Num(1, a, b)], 4, c)
<1>1. Last(2 * b + a) = Num(0, a, b) /\ Num(0, a, b) + 4 = Num(1, a, b)
  BY DEF Num, Bit, Last
<1>2. /\ Num(c, b, a) \in Upto(Lanes)
      /\ Num(c, b, a) \div 4 = c /\ Num(c, b, a) % 4 = 2 * b + a
  BY BitsOf
<1> QED
  BY <1>1, <1>2 DEF Row3

LEMMA Round1 ==
  ASSUME NEW r, NEW t, \A i, l \in Upto(Lanes) : r[i][l] = << i, l >>, Row1(r, t)
  PROVE  Once(t)
<1> SUFFICES ASSUME NEW c \in Bit, NEW b \in Bit, NEW a \in Bit,
                    NEW f \in Bit, NEW e \in Bit, NEW d \in Bit
             PROVE  t[Num(c, b, a)][Num(f, e, d)] = Cell(Num(c, b, d), Num(f, e, a))
  BY DEF Once
<1>1. 0 \in Bit /\ 1 \in Bit /\ (d = 0 \/ d = 1)
  BY DEF Bit
<1> DEFINE p == r[Num(c, b, 0)]
           q == r[Num(c, b, 1)]
<1>2. t[Num(c, b, a)] = Trn(p, q, 1, a)
  BY Row1At
<1> HIDE DEF p, q
<1>3. t[Num(c, b, a)][Num(f, e, d)] = IF d = 0 THEN p[Num(f, e, a)] ELSE q[Num(f, e, a)]
  BY <1>2, TrnBit
<1>4. t[Num(c, b, a)][Num(f, e, d)] = r[Num(c, b, d)][Num(f, e, a)]
  BY <1>1, <1>3 DEF p, q
<1>5. Num(c, b, d) \in Upto(Lanes) /\ Num(f, e, a) \in Upto(Lanes)
  BY BitsOf
<1> QED
  BY <1>4, <1>5 DEF Cell

LEMMA Round2 ==
  ASSUME NEW t, NEW v, Once(t), Row2(t, v)
  PROVE  Twice(v)
<1> SUFFICES ASSUME NEW c \in Bit, NEW b \in Bit, NEW a \in Bit,
                    NEW f \in Bit, NEW e \in Bit, NEW d \in Bit
             PROVE  v[Num(c, b, a)][Num(f, e, d)] = Cell(Num(c, e, d), Num(f, a, b))
  BY DEF Twice
<1>1. 0 \in Bit /\ 1 \in Bit /\ (e = 0 \/ e = 1)
  BY DEF Bit
<1> DEFINE p == t[Num(c, 0, b)]
           q == t[Num(c, 1, b)]
<1>2. v[Num(c, b, a)] = Trn(p, q, 2, a)
  BY Row2At
<1> HIDE DEF p, q
<1>3. v[Num(c, b, a)][Num(f, e, d)] = IF e = 0 THEN p[Num(f, a, d)] ELSE q[Num(f, a, d)]
  BY <1>2, TrnBit
<1>4. v[Num(c, b, a)][Num(f, e, d)] = t[Num(c, e, b)][Num(f, a, d)]
  BY <1>1, <1>3 DEF p, q
<1> QED
  BY <1>4, OnceAt, SMTT(40)

LEMMA Round3 ==
  ASSUME NEW v, NEW x, Twice(v), Row3(v, x)
  PROVE  Thrice(x)
<1> SUFFICES ASSUME NEW c \in Bit, NEW b \in Bit, NEW a \in Bit,
                    NEW f \in Bit, NEW e \in Bit, NEW d \in Bit
             PROVE  x[Num(c, b, a)][Num(f, e, d)] = Cell(Num(f, e, d), Num(c, b, a))
  BY DEF Thrice
<1>1. 0 \in Bit /\ 1 \in Bit /\ (f = 0 \/ f = 1)
  BY DEF Bit
<1> DEFINE p == v[Num(0, a, b)]
           q == v[Num(1, a, b)]
<1>2. x[Num(c, b, a)] = Trn(p, q, 4, c)
  BY Row3At
<1> HIDE DEF p, q
<1>3. x[Num(c, b, a)][Num(f, e, d)] = IF f = 0 THEN p[Num(c, e, d)] ELSE q[Num(c, e, d)]
  BY <1>2, TrnBit
<1>4. x[Num(c, b, a)][Num(f, e, d)] = v[Num(f, a, b)][Num(c, e, d)]
  BY <1>1, <1>3 DEF p, q
<1> QED
  BY <1>4, TwiceAt, SMTT(40)

LEMMA Transposed ==
  ASSUME NEW k \in Upto(Lanes), NEW j \in Upto(Lanes)
  PROVE  Exchanged[k][j] = << j, k >>
<1> DEFINE r == [i \in Upto(Lanes) |-> [l \in Upto(Lanes) |-> << i, l >>]]
           t == [i \in Upto(Lanes) |-> Trn(r[2 * (i \div 2)], r[2 * (i \div 2) + 1], 1, i % 2)]
           v == [i \in Upto(Lanes) |->
                   LET a == 4 * (i \div 4) + ((i % 4) \div 2) IN Trn(t[a], t[a + 2], 2, i % 2)]
           x == [i \in Upto(Lanes) |-> Trn(v[Last(i % 4)], v[Last(i % 4) + 4], 4, i \div 4)]
<1>1. Exchanged = x
  BY DEF Exchanged
<1>2. \A i, l \in Upto(Lanes) : r[i][l] = << i, l >>
  OBVIOUS
<1>3. Row1(r, t)
  BY DEF t, Row1
<1>4. Row2(t, v)
  BY DEF v, Row2
<1>5. Row3(v, x)
  BY DEF x, Row3
<1> HIDE DEF r, t, v, x
<1>6. Thrice(x)
  BY <1>2, <1>3, <1>4, <1>5, Round1, Round2, Round3
<1>7. PICK c, b, a \in Bit : k = Num(c, b, a)
  BY Bits
<1>8. PICK f, e, d \in Bit : j = Num(f, e, d)
  BY Bits
<1>9. x[Num(c, b, a)][Num(f, e, d)] = Cell(Num(f, e, d), Num(c, b, a))
  BY <1>6, ThriceAt, SMTT(40)
<1> QED
  BY <1>1, <1>7, <1>8, <1>9 DEF Cell

-----------------------------------------------------------------------------
(* What goes through vectors is what the scalar loops would store.         *)

LEMMA VectoredIn ==
  ASSUME NEW w \in Nat
  PROVE  Vectored(w) \in Nat /\ Vectored(w) <= w /\ Vectored(w) = 8 * (w \div 8)
<1>1. w = 8 * (w \div 8) + (w % 8) /\ w \div 8 \in Nat /\ w % 8 \in 0 .. 7
  OBVIOUS
<1> QED
  BY <1>1 DEF Vectored, Lanes

LEMMA ColumnIn ==
  ASSUME NEW w \in Nat, NEW x \in Upto(Vectored(w)), x % Lanes = 0, NEW k \in Upto(Lanes)
  PROVE  x + k \in Upto(w) /\ x \in Nat /\ k \in Nat
<1>1. x \in Nat /\ x < Vectored(w) /\ k \in Nat /\ k < 8 /\ x % 8 = 0
  BY VectoredIn, UptoNat DEF Lanes
<1>2. x = 8 * (x \div 8) /\ x \div 8 \in Nat
  BY <1>1
<1>3. x \div 8 < w \div 8 /\ w \div 8 \in Nat
  BY <1>1, <1>2, VectoredIn
<1>4. x + k < 8 * (w \div 8)
  BY <1>1, <1>2, <1>3
<1>5. x + k < w
  BY <1>1, <1>4, VectoredIn
<1> QED
  BY <1>1, <1>5 DEF Upto

LEMMA ColumnOf ==
  ASSUME NEW w \in Nat, NEW x \in Upto(w), x < Vectored(w)
  PROVE  /\ x - (x % Lanes) \in Upto(Vectored(w)) /\ (x - (x % Lanes)) % Lanes = 0
         /\ x % Lanes \in Upto(Lanes) /\ (x - (x % Lanes)) + (x % Lanes) = x
<1>1. x \in Nat
  BY UptoNat
<1>2. x = 8 * (x \div 8) + (x % 8) /\ x \div 8 \in Nat /\ x % 8 \in 0 .. 7
  BY <1>1
<1>3. (8 * (x \div 8)) % 8 = 0
  BY <1>2
<1>4. x - (x % 8) = 8 * (x \div 8)
  BY <1>2
<1>5. x - (x % 8) \in Upto(Vectored(w))
  BY <1>1, <1>2, <1>4, VectoredIn, SMTT(40) DEF Upto
<1> QED
  BY <1>1, <1>2, <1>3, <1>4, <1>5 DEF Upto, Lanes

LEMMA TailIn ==
  ASSUME NEW w \in Nat
  PROVE  /\ \A x \in Vectored(w) .. w - 1 : x \in Upto(w)
         /\ \A x \in Upto(w) : ~(x < Vectored(w)) => x \in Vectored(w) .. w - 1
BY VectoredIn DEF Upto

LEMMA ChannelIn ==
  ASSUME NEW c \in Nat, c % Lanes = 0, NEW q \in Upto(c \div Lanes), NEW k \in Upto(Lanes)
  PROVE  /\ q * Lanes + k \in Upto(c)
         /\ (q * Lanes + k) \div Lanes = q /\ (q * Lanes + k) % Lanes = k
<1>1. Lanes \in Nat \ {0} /\ c \div Lanes \in Nat /\ (c \div Lanes) * Lanes = c
  BY DEF Lanes
<1>2. q \in Nat
  BY <1>1, UptoNat
<1>3. Behind(q, Lanes, k) \in Upto((c \div Lanes) * Lanes)
  BY <1>1, BehindIn
<1>4. Behind(q, Lanes, k) \div Lanes = q /\ Behind(q, Lanes, k) % Lanes = k
  BY <1>1, <1>2, Composed
<1> QED
  BY <1>1, <1>3, <1>4 DEF Behind

LEMMA ChannelOf ==
  ASSUME NEW c \in Nat, c % Lanes = 0, NEW i \in Upto(c)
  PROVE  /\ i \div Lanes \in Upto(c \div Lanes) /\ i % Lanes \in Upto(Lanes)
         /\ (i \div Lanes) * Lanes + (i % Lanes) = i
<1>1. Lanes \in Nat \ {0} /\ c \div Lanes \in Nat /\ (c \div Lanes) * Lanes = c
  BY DEF Lanes
<1>2. i \in Upto((c \div Lanes) * Lanes)
  BY <1>1
<1>3. i \div Lanes \in Upto(c \div Lanes)
  BY <1>1, <1>2, DividedIn
<1>4. i \in Nat
  BY UptoNat
<1> QED
  BY <1>1, <1>3, <1>4, Divided DEF Behind

(* A row of blocks of eight, and the element of it at a column and lane.   *)
BlockRow(t, s, q, y) == (q * t.h + y) * s * Lanes

LEMMA InBlockRow ==
  ASSUME NEW t, Sized(t), NEW s \in Nat, NEW q \in Nat, NEW y \in Upto(t.h), NEW x \in Nat,
         NEW k \in Upto(Lanes)
  PROVE  /\ BlockRow(t, s, q, y) \in Nat
         /\ Nc1hwc2(t, s, Lanes, q * Lanes + k, y, x) = BlockRow(t, s, q, y) + x * Lanes + k
<1>1. Lanes \in Nat \ {0}
  BY DEF Lanes
<1>2. Behind(q, Lanes, k) \div Lanes = q /\ Behind(q, Lanes, k) % Lanes = k
  BY <1>1, Composed
<1> DEFINE r == q * t.h + y
           m == r * s
<1>3. r \in Nat
  BY BehindNat DEF Behind, Sized
<1> HIDE DEF r
<1>4. m \in Nat
  BY <1>3, Products
<1>5. k \in Nat
  BY <1>1, UptoNat
<1> HIDE DEF m
<1>6. (m + x) * Lanes + k = m * Lanes + x * Lanes + k /\ m * Lanes \in Nat
  BY <1>4, <1>5 DEF Lanes
<1>7. BlockRow(t, s, q, y) = m * Lanes
  BY DEF BlockRow, m, r
<1>8. Nc1hwc2(t, s, Lanes, q * Lanes + k, y, x) = (m + x) * Lanes + k
  BY <1>2 DEF Nc1hwc2, Behind, m, r
<1> QED
  BY <1>6, <1>7, <1>8

(* Every element by its block of eight, lane, row and column.              *)
LEMMA LanePlace ==
  ASSUME NEW t, Sized(t), NEW s \in Nat,
         NEW q \in Upto(t.c \div Lanes), NEW k \in Upto(Lanes),
         NEW y \in Upto(t.h), NEW x \in Upto(t.w)
  PROVE  Nc1hwc2(t, s, Lanes, q * Lanes + k, y, x) = BlockRow(t, s, q, y) + x * Lanes + k
<1>1. q \in Nat /\ x \in Nat
  <2>1. t.c \div Lanes \in Nat /\ t.w \in Nat
    BY DEF Sized, Lanes
  <2> QED
    BY <2>1, UptoNat
<1> QED
  BY <1>1, InBlockRow

LEMMA LaneIn ==
  ASSUME NEW t, Sized(t), t.c % Lanes = 0, NEW s \in Nat,
         NEW q \in Upto(t.c \div Lanes), NEW k \in Upto(Lanes),
         NEW y \in Upto(t.h), NEW x \in Upto(t.w)
  PROVE  /\ << q * Lanes + k, y, x >> \in Each(t)
         /\ Nc1hwc2(t, s, Lanes, q * Lanes + k, y, x) = BlockRow(t, s, q, y) + x * Lanes + k
<1>1. q * Lanes + k \in Upto(t.c)
  BY ChannelIn DEF Sized
<1> QED
  BY <1>1, LanePlace DEF Each

LEMMA EachIs ==
  ASSUME NEW t, NEW e \in Each(t)
  PROVE  e[1] \in Upto(t.c) /\ e[2] \in Upto(t.h) /\ e[3] \in Upto(t.w) /\ e = << e[1], e[2], e[3] >>
BY DEF Each

LEMMA LaneOf ==
  ASSUME NEW t, Sized(t), t.c % Lanes = 0, NEW s \in Nat, NEW e \in Each(t)
  PROVE  /\ e[1] \div Lanes \in Upto(t.c \div Lanes) /\ e[1] % Lanes \in Upto(Lanes)
         /\ (e[1] \div Lanes) * Lanes + (e[1] % Lanes) = e[1]
         /\ Nc1hwc2(t, s, Lanes, e[1], e[2], e[3])
              = BlockRow(t, s, e[1] \div Lanes, e[2]) + e[3] * Lanes + (e[1] % Lanes)
<1> DEFINE q == e[1] \div Lanes
           k == e[1] % Lanes
<1>1. e[1] \in Upto(t.c) /\ e[2] \in Upto(t.h) /\ e[3] \in Upto(t.w)
  BY EachIs
<1>2. /\ e[1] \div Lanes \in Upto(t.c \div Lanes) /\ e[1] % Lanes \in Upto(Lanes)
      /\ (e[1] \div Lanes) * Lanes + (e[1] % Lanes) = e[1]
  BY <1>1, ChannelOf DEF Sized
<1>3. q \in Upto(t.c \div Lanes) /\ k \in Upto(Lanes) /\ q * Lanes + k = e[1]
  BY <1>2
<1> HIDE DEF q, k
<1>4. Nc1hwc2(t, s, Lanes, q * Lanes + k, e[2], e[3]) = BlockRow(t, s, q, e[2]) + e[3] * Lanes + k
  BY <1>1, <1>3, LanePlace
<1>5. Nc1hwc2(t, s, Lanes, e[1], e[2], e[3]) = BlockRow(t, s, q, e[2]) + e[3] * Lanes + k
  BY <1>3, <1>4
<1> QED
  BY <1>2, <1>5 DEF q, k

(* The stores of nchw_f16_to_nc1hwc2 are the same either way.              *)
LEMMA VectorIsScattered ==
  ASSUME NEW t, Sized(t), NEW b, ByVector(t, b), Stride(t, b) \in Nat
  PROVE  VectorScattered(t, b) = Scattered(t, b)
<1> DEFINE s == Stride(t, b)
           rows   == Upto(t.c \div Lanes) \X Upto(t.h)
           starts == {x \in Upto(Vectored(t.w)) : x % Lanes = 0}
           Vec(p, x, k, j) ==
             << BlockRow(t, s, p[1], p[2]) + (x + k) * Lanes + j,
                Nchw(t, p[1] * Lanes + Exchanged[k][j][1], p[2], x + Exchanged[k][j][2]) >>
           Lone(p, x, k) ==
             << BlockRow(t, s, p[1], p[2]) + x * Lanes + k, Nchw(t, p[1] * Lanes + k, p[2], x) >>
           One(e) == << Nc1hwc2(t, s, Lanes, e[1], e[2], e[3]), Nchw(t, e[1], e[2], e[3]) >>
<1>1. VectorScattered(t, b)
        = {Vec(p, x, k, j) : p \in rows, x \in starts, k \in Upto(Lanes), j \in Upto(Lanes)}
          \cup {Lone(p, x, k) : p \in rows, x \in Vectored(t.w) .. t.w - 1, k \in Upto(Lanes)}
  BY DEF VectorScattered, BlockRow
<1>2. Scattered(t, b) = {One(e) : e \in Each(t)}
  BY DEF Scattered, ByVector
<1>3. t.c % Lanes = 0 /\ t.w \in Nat /\ s \in Nat
  BY DEF ByVector, Sized
<1>4. ASSUME NEW p \in rows, NEW x \in Upto(t.w), NEW k \in Upto(Lanes)
      PROVE  Lone(p, x, k) \in {One(e) : e \in Each(t)}
  <2>1. p[1] \in Upto(t.c \div Lanes) /\ p[2] \in Upto(t.h)
    OBVIOUS
  <2> DEFINE e == << p[1] * Lanes + k, p[2], x >>
  <2>2. /\ e \in Each(t)
        /\ Nc1hwc2(t, s, Lanes, p[1] * Lanes + k, p[2], x)
             = BlockRow(t, s, p[1], p[2]) + x * Lanes + k
    BY <1>3, <2>1, LaneIn
  <2>3. Lone(p, x, k) = One(e)
    BY <2>2
  <2> QED
    BY <2>2, <2>3
<1>5. ASSUME NEW p \in rows, NEW x \in starts, NEW k \in Upto(Lanes), NEW j \in Upto(Lanes)
      PROVE  x + k \in Upto(t.w) /\ Vec(p, x, k, j) = Lone(p, x + k, j)
  <2>1. x + k \in Upto(t.w)
    BY <1>3, ColumnIn
  <2>2. Exchanged[k][j][1] = j /\ Exchanged[k][j][2] = k
    BY Transposed
  <2> QED
    BY <2>1, <2>2
<1>6. ASSUME NEW e \in Each(t)
      PROVE  /\ << e[1] \div Lanes, e[2] >> \in rows /\ e[1] % Lanes \in Upto(Lanes)
             /\ e[3] \in Upto(t.w)
             /\ One(e) = Lone(<< e[1] \div Lanes, e[2] >>, e[3], e[1] % Lanes)
  BY <1>3, LaneOf, EachIs
<1>7. ASSUME NEW u, NEW p \in rows, NEW x \in Upto(t.w), NEW k \in Upto(Lanes), u = Lone(p, x, k)
      PROVE  u \in VectorScattered(t, b)
  <2>1. CASE x < Vectored(t.w)
    <3> DEFINE z == x - (x % Lanes)
               i == x % Lanes
    <3>1. z \in starts /\ i \in Upto(Lanes) /\ z + i = x
      BY <1>3, <2>1, ColumnOf
    <3> HIDE DEF z, i, Vec, Lone, starts, rows
    <3>2. Vec(p, z, i, k) = Lone(p, z + i, k)
      BY <1>5, <3>1
    <3> QED
      BY <1>1, <1>7, <3>1, <3>2
  <2>2. CASE ~(x < Vectored(t.w))
    <3>1. x \in Vectored(t.w) .. t.w - 1
      BY <1>3, <2>2, TailIn
    <3> HIDE DEF Vec, Lone, starts, rows
    <3> QED
      BY <1>1, <1>7, <3>1
  <2> QED
    BY <2>1, <2>2
<1>8. \A x \in Vectored(t.w) .. t.w - 1 : x \in Upto(t.w)
  BY <1>3, TailIn
<1> HIDE DEF Vec, Lone, starts, rows, One
<1>9. ASSUME NEW u \in VectorScattered(t, b)
      PROVE  u \in Scattered(t, b)
  BY <1>1, <1>2, <1>4, <1>5, <1>8
<1>10. ASSUME NEW u \in Scattered(t, b)
       PROVE  u \in VectorScattered(t, b)
  <2>1. PICK e \in Each(t) : u = One(e)
    BY <1>2
  <2> QED
    BY <1>6, <1>7, <2>1
<1> QED
  BY <1>9, <1>10

(* And nc1hwc2_to_nchw reads each element where it is.                     *)
Gathered(t) ==
  {<< Nchw(t, e[1], e[2], e[3]), Nc1hwc2(t, t.w, Lanes, e[1], e[2], e[3]) >> : e \in Each(t)}

LEMMA FromBlocksGather ==
  ASSUME NEW t, Sized(t), t.c % Lanes = 0
  PROVE  FromBlocks(t) = Gathered(t)
<1> DEFINE s == t.w
           rows   == Upto(t.c \div Lanes) \X Upto(t.h)
           starts == {x \in Upto(Vectored(t.w)) : x % Lanes = 0}
           Vec(p, x, k, j) ==
             << Nchw(t, p[1] * Lanes + k, p[2], x + j),
                BlockRow(t, s, p[1], p[2]) + x * Lanes + Exchanged[k][j][1] * Lanes
                  + Exchanged[k][j][2] >>
           Rest(p, x, k) ==
             << Nchw(t, p[1] * Lanes + k, p[2], x),
                BlockRow(t, s, p[1], p[2]) + Vectored(t.w) * Lanes + (x - Vectored(t.w)) * Lanes + k >>
           Lone(p, x, k) ==
             << Nchw(t, p[1] * Lanes + k, p[2], x), BlockRow(t, s, p[1], p[2]) + x * Lanes + k >>
           One(e) == << Nchw(t, e[1], e[2], e[3]), Nc1hwc2(t, s, Lanes, e[1], e[2], e[3]) >>
<1>1. FromBlocks(t)
        = {Vec(p, x, k, j) : p \in rows, x \in starts, k \in Upto(Lanes), j \in Upto(Lanes)}
          \cup {Rest(p, x, k) : p \in rows, x \in Vectored(t.w) .. t.w - 1, k \in Upto(Lanes)}
  BY DEF FromBlocks, BlockRow
<1>2. Gathered(t) = {One(e) : e \in Each(t)}
  BY DEF Gathered
<1>3. t.w \in Nat /\ s \in Nat
  BY DEF Sized
<1>4. ASSUME NEW p \in rows, NEW x \in Upto(t.w), NEW k \in Upto(Lanes)
      PROVE  Lone(p, x, k) \in {One(e) : e \in Each(t)}
  <2>1. p[1] \in Upto(t.c \div Lanes) /\ p[2] \in Upto(t.h)
    OBVIOUS
  <2> DEFINE e == << p[1] * Lanes + k, p[2], x >>
  <2>2. /\ e \in Each(t)
        /\ Nc1hwc2(t, s, Lanes, p[1] * Lanes + k, p[2], x)
             = BlockRow(t, s, p[1], p[2]) + x * Lanes + k
    BY <1>3, <2>1, LaneIn
  <2>3. Lone(p, x, k) = One(e)
    BY <2>2
  <2> QED
    BY <2>2, <2>3
<1>5. ASSUME NEW p \in rows
      PROVE  BlockRow(t, s, p[1], p[2]) \in Nat
  <2>1. p[1] \in Upto(t.c \div Lanes) /\ p[2] \in Upto(t.h) /\ t.c \div Lanes \in Nat
    BY DEF Sized, Lanes
  <2>2. p[1] \in Nat /\ 0 \in Nat /\ 0 \in Upto(Lanes)
    BY <2>1, UptoNat DEF Upto, Lanes
  <2> QED
    BY <1>3, <2>1, <2>2, InBlockRow
<1>6. ASSUME NEW p \in rows, NEW x \in starts, NEW k \in Upto(Lanes), NEW j \in Upto(Lanes)
      PROVE  x + j \in Upto(t.w) /\ Vec(p, x, k, j) = Lone(p, x + j, k)
  <2>1. x + j \in Upto(t.w) /\ x \in Nat /\ j \in Nat /\ k \in Nat
    BY <1>3, ColumnIn
  <2>2. Exchanged[k][j][1] = j /\ Exchanged[k][j][2] = k
    BY Transposed
  <2> DEFINE r == BlockRow(t, s, p[1], p[2])
  <2>3. r \in Nat
    BY <1>5
  <2> HIDE DEF r
  <2>4. r + x * Lanes + j * Lanes + k = r + (x + j) * Lanes + k
    BY <2>1, <2>3 DEF Lanes
  <2>5. r + x * Lanes + Exchanged[k][j][1] * Lanes + Exchanged[k][j][2] = r + (x + j) * Lanes + k
    BY <2>2, <2>4
  <2> QED
    BY <2>1, <2>5 DEF r
<1>7. ASSUME NEW p \in rows, NEW x \in Vectored(t.w) .. t.w - 1, NEW k \in Upto(Lanes)
      PROVE  x \in Upto(t.w) /\ Rest(p, x, k) = Lone(p, x, k)
  <2>1. x \in Upto(t.w)
    BY <1>3, TailIn
  <2> DEFINE r == BlockRow(t, s, p[1], p[2])
             v == Vectored(t.w)
  <2>2. r \in Nat /\ v \in Nat /\ x \in Nat /\ k \in Nat
    BY <1>3, <1>5, <2>1, VectoredIn DEF Upto, Lanes
  <2> HIDE DEF r, v
  <2>3. r + v * Lanes + (x - v) * Lanes + k = r + x * Lanes + k
    BY <2>2 DEF Lanes
  <2> QED
    BY <2>1, <2>3 DEF r, v
<1>8. ASSUME NEW e \in Each(t)
      PROVE  /\ << e[1] \div Lanes, e[2] >> \in rows /\ e[1] % Lanes \in Upto(Lanes)
             /\ e[3] \in Upto(t.w)
             /\ One(e) = Lone(<< e[1] \div Lanes, e[2] >>, e[3], e[1] % Lanes)
  BY <1>3, LaneOf, EachIs
<1>9. ASSUME NEW u, NEW p \in rows, NEW x \in Upto(t.w), NEW k \in Upto(Lanes), u = Lone(p, x, k)
      PROVE  u \in FromBlocks(t)
  <2>1. CASE x < Vectored(t.w)
    <3> DEFINE z == x - (x % Lanes)
               i == x % Lanes
    <3>1. z \in starts /\ i \in Upto(Lanes) /\ z + i = x
      BY <1>3, <2>1, ColumnOf
    <3> HIDE DEF z, i, Vec, Lone, Rest, starts, rows
    <3>2. Vec(p, z, k, i) = Lone(p, z + i, k)
      BY <1>6, <3>1
    <3> QED
      BY <1>1, <1>9, <3>1, <3>2
  <2>2. CASE ~(x < Vectored(t.w))
    <3>1. x \in Vectored(t.w) .. t.w - 1
      BY <1>3, <2>2, TailIn
    <3> HIDE DEF Vec, Lone, Rest, starts, rows
    <3>2. Rest(p, x, k) = Lone(p, x, k)
      BY <1>7, <3>1
    <3> QED
      BY <1>1, <1>9, <3>1, <3>2
  <2> QED
    BY <2>1, <2>2
<1> HIDE DEF Vec, Lone, Rest, starts, rows, One
<1>10. ASSUME NEW u \in FromBlocks(t)
       PROVE  u \in Gathered(t)
  BY <1>1, <1>2, <1>4, <1>6, <1>7
<1>11. ASSUME NEW u \in Gathered(t)
       PROVE  u \in FromBlocks(t)
  <2>1. PICK e \in Each(t) : u = One(e)
    BY <1>2
  <2> QED
    BY <1>8, <1>9, <2>1
<1> QED
  BY <1>10, <1>11

-----------------------------------------------------------------------------
(* What the kernels do to a buffer.                                        *)

LEMMA NhwcMoved ==
  ASSUME NEW t, Sized(t), NEW e \in Each(t)
  PROVE  /\ Nhwc(t, e[1], e[2], e[3]) \in Upto(Size(t))
         /\ Moved(ToNhwc(t), Size(t), Blank)[Nhwc(t, e[1], e[2], e[3])]
              = buf[Nchw(t, e[1], e[2], e[3])]
<1> DEFINE to   == [d \in Each(t) |-> Nhwc(t, d[1], d[2], d[3])]
           from == [d \in Each(t) |-> Nchw(t, d[1], d[2], d[3])]
<1>1. ToNhwc(t) = Stores(Each(t), to, from)
  BY DEF ToNhwc, Stores
<1>2. \A d \in Each(t) : Nhwc(t, d[1], d[2], d[3]) \in Upto(Size(t))
  BY EachIs, NhwcPlace
<1>3. \A d \in Each(t) : to[d] \in Upto(Size(t))
  BY <1>2
<1>4. ASSUME NEW d \in Each(t), NEW f \in Each(t), to[d] = to[f]
      PROVE  from[d] = from[f]
  <2>1. d[1] = f[1] /\ d[2] = f[2] /\ d[3] = f[3]
    BY <1>4, EachIs, NhwcOneToOne
  <2> QED
    BY <2>1
<1>5. to[e] = Nhwc(t, e[1], e[2], e[3]) /\ from[e] = Nchw(t, e[1], e[2], e[3])
  OBVIOUS
<1> HIDE DEF to, from
<1>6. Moved(Stores(Each(t), to, from), Size(t), Blank)[to[e]] = buf[from[e]]
  BY <1>3, <1>4, MovedEach
<1> QED
  BY <1>1, <1>2, <1>5, <1>6

BlockAt(t, b, e) == Nc1hwc2(t, Stride(t, b), b[1], e[1], e[2], e[3])
Blockable(t, b)  == Sized(t) /\ b[1] \in Nat \ {0} /\ Stride(t, b) \in Nat /\ t.w <= Stride(t, b)

LEMMA BlocksMoved ==
  ASSUME NEW t, NEW b, Blockable(t, b)
  PROVE  /\ \A e \in Each(t) :
              /\ BlockAt(t, b, e) \in Upto(BlockedSize(t, b))
              /\ Moved(ToBlocks(t, b), BlockedSize(t, b), 0)[BlockAt(t, b, e)]
                   = buf[Nchw(t, e[1], e[2], e[3])]
         /\ \A i \in Upto(BlockedSize(t, b)) \ {BlockAt(t, b, e) : e \in Each(t)} :
              Moved(ToBlocks(t, b), BlockedSize(t, b), 0)[i] = 0
<1> DEFINE to   == [d \in Each(t) |-> BlockAt(t, b, d)]
           from == [d \in Each(t) |-> Nchw(t, d[1], d[2], d[3])]
           n    == BlockedSize(t, b)
<1>1. Sized(t) /\ b[1] \in Nat \ {0} /\ Stride(t, b) \in Nat /\ t.w <= Stride(t, b)
  BY DEF Blockable
<1>2. ToBlocks(t, b) = Scattered(t, b)
  BY <1>1, VectorIsScattered DEF ToBlocks
<1>3. Scattered(t, b) = Stores(Each(t), to, from)
  BY DEF Scattered, Stores, BlockAt
<1>4. ASSUME NEW d \in Each(t)
      PROVE  BlockAt(t, b, d) \in Upto(n)
  <2>1. d[1] \in Upto(t.c) /\ d[2] \in Upto(t.h) /\ d[3] \in Upto(t.w)
    BY EachIs
  <2>2. BlockAt(t, b, d)
          \in Upto(((t.c + b[1] - 1) \div b[1]) * t.h * Stride(t, b) * b[1])
    BY <1>1, <2>1, BlockPlace DEF BlockAt
  <2> QED
    BY <2>2 DEF BlockedSize, BlockCount
<1>5. \A d \in Each(t) : to[d] \in Upto(n)
  BY <1>4
<1>6. ASSUME NEW d \in Each(t), NEW f \in Each(t), to[d] = to[f]
      PROVE  from[d] = from[f]
  <2>1. /\ d[1] \in Upto(t.c) /\ d[2] \in Upto(t.h) /\ d[3] \in Upto(t.w)
        /\ f[1] \in Upto(t.c) /\ f[2] \in Upto(t.h) /\ f[3] \in Upto(t.w)
    BY EachIs
  <2>2. BlockAt(t, b, d) = BlockAt(t, b, f)
    BY <1>6
  <2>3. d[1] = f[1] /\ d[2] = f[2] /\ d[3] = f[3]
    BY <1>1, <2>1, <2>2, BlockOneToOne DEF BlockAt
  <2> QED
    BY <2>3
<1>7. \A e \in Each(t) : to[e] = BlockAt(t, b, e) /\ from[e] = Nchw(t, e[1], e[2], e[3])
  OBVIOUS
<1>8. {to[e] : e \in Each(t)} = {BlockAt(t, b, e) : e \in Each(t)}
  BY <1>7
<1> HIDE DEF to, from, n
<1>9. /\ \A e \in Each(t) : Moved(Stores(Each(t), to, from), n, 0)[to[e]] = buf[from[e]]
      /\ \A i \in Upto(n) \ {to[e] : e \in Each(t)} :
           Moved(Stores(Each(t), to, from), n, 0)[i] = 0
  BY <1>5, <1>6, MovedEach
<1> QED
  BY <1>2, <1>3, <1>4, <1>7, <1>8, <1>9 DEF n

LEMMA NchwMoved ==
  ASSUME NEW t, Sized(t), t.c % Lanes = 0, NEW e \in Each(t)
  PROVE  Moved(FromBlocks(t), Size(t), Blank)[Nchw(t, e[1], e[2], e[3])]
           = buf[Nc1hwc2(t, t.w, Lanes, e[1], e[2], e[3])]
<1> DEFINE to   == [d \in Each(t) |-> Nchw(t, d[1], d[2], d[3])]
           from == [d \in Each(t) |-> Nc1hwc2(t, t.w, Lanes, d[1], d[2], d[3])]
<1>1. FromBlocks(t) = Stores(Each(t), to, from)
  BY FromBlocksGather DEF Gathered, Stores
<1>2. \A d \in Each(t) : Nchw(t, d[1], d[2], d[3]) \in Upto(Size(t))
  BY EachIs, NchwPlace
<1>3. \A d \in Each(t) : to[d] \in Upto(Size(t))
  BY <1>2
<1>4. ASSUME NEW d \in Each(t), NEW f \in Each(t), to[d] = to[f]
      PROVE  from[d] = from[f]
  <2>1. d[1] = f[1] /\ d[2] = f[2] /\ d[3] = f[3]
    BY <1>4, EachIs, NchwOneToOne
  <2> QED
    BY <2>1
<1>5. /\ to[e] = Nchw(t, e[1], e[2], e[3])
      /\ from[e] = Nc1hwc2(t, t.w, Lanes, e[1], e[2], e[3])
  OBVIOUS
<1> HIDE DEF to, from
<1>6. Moved(Stores(Each(t), to, from), Size(t), Blank)[to[e]] = buf[from[e]]
  BY <1>3, <1>4, MovedEach
<1> QED
  BY <1>1, <1>5, <1>6

-----------------------------------------------------------------------------
(* Depth to space.                                                         *)

BlockSizes == BlockSize \in Nat \ {0}

LEMMA BlockSizeIs == BlockSizes
BY ShapesAssumption DEF BlockSizes

(* A channel is a phase, of a row and a column, before the channel it goes *)
(* to.                                                                     *)
Phased(c, B, i, d) ==
  /\ d \in Nat \ {0} /\ c = d * (B * B)
  /\ i \in Nat /\ i % d \in Upto(d)
  /\ i \div d \in Nat /\ (i \div d) \div B \in Upto(B) /\ (i \div d) % B \in Upto(B)
  /\ Behind((i \div d) \div B, B, (i \div d) % B) = i \div d
  /\ Behind(i \div d, d, i % d) = i

LEMMA Phases ==
  ASSUME NEW c \in Nat, NEW B \in Nat \ {0}, c % (B * B) = 0, NEW i \in Upto(c),
         NEW d, d = c \div (B * B)
  PROVE  Phased(c, B, i, d)
<1>1. B * B \in Nat \ {0}
  OBVIOUS
<1> DEFINE n == B * B
<1>2. n \in Nat \ {0} /\ n = B * B
  BY <1>1
<1> HIDE DEF n
<1>3. c % n = 0 /\ d = c \div n
  BY <1>2
<1>4. d \in Nat /\ c = Behind(d, n, c % n)
  BY <1>2, <1>3, Divided
<1>5. c = d * n
  BY <1>2, <1>3, <1>4, Products DEF Behind
<1>6. i \in Nat /\ i < c
  BY UptoNat
<1>7. d # 0
  BY <1>2, <1>5, <1>6
<1>8. d * n = n * d
  BY <1>2, <1>4
<1>9. i \in Upto(n * d)
  BY <1>5, <1>8
<1>10. i \div d \in Upto(n)
  BY <1>2, <1>4, <1>7, <1>9, DividedIn
<1>11. i \div d \in Nat /\ i % d \in Upto(d) /\ i = Behind(i \div d, d, i % d)
  BY <1>4, <1>6, <1>7, Divided, SMTT(40)
<1> DEFINE p == i \div d
<1>12. p \in Nat /\ p \in Upto(B * B)
  BY <1>2, <1>10, <1>11
<1> HIDE DEF p
<1>13. p \div B \in Upto(B)
  BY <1>12, DividedIn
<1>14. p % B \in Upto(B) /\ p = Behind(p \div B, B, p % B)
  BY <1>12, Divided
<1> QED
  BY <1>2, <1>4, <1>5, <1>6, <1>7, <1>11, <1>13, <1>14 DEF p, Phased

(* The place of an element of a tensor with c channels after depth to      *)
(* space, as the property has it.                                          *)
Onto(t, c, e) ==
  LET out   == Spread(t, c)
      phase == e[1] \div out.c
  IN Nchw(out, e[1] % out.c, e[2] * BlockSize + phase \div BlockSize,
          e[3] * BlockSize + (phase % BlockSize))

LEMMA SpreadIs ==
  ASSUME NEW t, Sized(t), NEW c \in Nat, c % (BlockSize * BlockSize) = 0
  PROVE  /\ Spread(t, c).c = c \div (BlockSize * BlockSize)
         /\ Spread(t, c).h = t.h * BlockSize /\ Spread(t, c).w = t.w * BlockSize
         /\ Sized(Spread(t, c)) /\ Size(Spread(t, c)) = c * t.h * t.w
<1> DEFINE B == BlockSize
           n == B * B
           d == c \div n
<1>1. B \in Nat \ {0}
  BY BlockSizeIs DEF BlockSizes
<1>2. n \in Nat \ {0}
  BY <1>1
<1> HIDE DEF n
<1>3. d \in Nat /\ c = Behind(d, n, c % n)
  BY <1>2, Divided
<1>4. c = d * n
  BY <1>2, <1>3, Products DEF Behind, n
<1>5. t.h * B \in Nat /\ t.w * B \in Nat
  BY <1>1, Products DEF Sized
<1>6. Spread(t, c).c = d /\ Spread(t, c).h = t.h * B /\ Spread(t, c).w = t.w * B
  BY DEF Spread, n
<1> HIDE DEF d, B
<1>7. \A a, h, w, k \in Nat : a * (h * k) * (w * k) = (a * (k * k)) * h * w
  OBVIOUS
<1>8. d * (t.h * B) * (t.w * B) = c * t.h * t.w
  BY <1>1, <1>3, <1>4, <1>7 DEF Sized, n
<1> QED
  BY <1>3, <1>5, <1>6, <1>8 DEF Sized, Size, d, n, B

LEMMA ToSpaceMoved ==
  ASSUME NEW t, Sized(t), t.c % (BlockSize * BlockSize) = 0, NEW e \in Each(t)
  PROVE  Moved(ToSpace(t), t.c * t.h * t.w, Blank)[Onto(t, t.c, e)] = buf[Nchw(t, e[1], e[2], e[3])]
<1> DEFINE B   == BlockSize
           out == Spread(t, t.c)
           n   == t.c * t.h * t.w
           to   == [f \in Each(out) |-> Nchw(out, f[1], f[2], f[3])]
           from == [f \in Each(out) |->
                      Nchw(t, ((f[2] % B) * B + (f[3] % B)) * out.c + f[1], f[2] \div B, f[3] \div B)]
           d == t.c \div (B * B)
           p == e[1] \div d
           f0 == << e[1] % d, Behind(e[2], B, p \div B), Behind(e[3], B, p % B) >>
<1>1. ToSpace(t) = Stores(Each(out), to, from)
  BY DEF ToSpace, Stores
<1>2. B \in Nat \ {0} /\ B \in Nat
  BY BlockSizeIs DEF BlockSizes
<1>3. /\ out.c = d /\ out.h = t.h * B /\ out.w = t.w * B
      /\ Sized(out) /\ Size(out) = n
  BY SpreadIs DEF Sized
<1>4. e[1] \in Upto(t.c) /\ e[2] \in Upto(t.h) /\ e[3] \in Upto(t.w)
  BY EachIs
<1>5. /\ e[1] % d \in Upto(d) /\ p \in Nat /\ p \div B \in Upto(B) /\ p % B \in Upto(B)
      /\ Behind(p \div B, B, p % B) = p /\ Behind(p, d, e[1] % d) = e[1]
  <2>1. d = t.c \div (B * B) /\ t.c % (B * B) = 0 /\ t.c \in Nat /\ p = e[1] \div d
    BY DEF Sized
  <2> DEFINE i == e[1]
             c == t.c
  <2>2. i \in Upto(c) /\ c \in Nat /\ d = c \div (B * B) /\ c % (B * B) = 0 /\ p = i \div d
    BY <1>4, <2>1
  <2> HIDE DEF d, p, B, i, c
  <2>3. /\ i % d \in Upto(d)
        /\ i \div d \in Nat /\ (i \div d) \div B \in Upto(B) /\ (i \div d) % B \in Upto(B)
        /\ Behind((i \div d) \div B, B, (i \div d) % B) = i \div d
        /\ Behind(i \div d, d, i % d) = i
    BY <1>2, <2>2, Phases DEF Phased
  <2> QED
    BY <2>2, <2>3 DEF i
<1>6. Onto(t, t.c, e) = Nchw(out, f0[1], f0[2], f0[3])
  BY <1>3 DEF Onto, Behind
<1> HIDE DEF out, n, d, p, B
<1>7. /\ Behind(e[2], B, p \div B) \in Upto(t.h * B)
      /\ Behind(e[3], B, p % B) \in Upto(t.w * B)
  BY <1>2, <1>4, <1>5, BehindIn DEF Sized
<1>8. f0 \in Each(out)
  BY <1>3, <1>5, <1>7 DEF Each
<1>9. e[2] \in Nat /\ e[3] \in Nat
  BY <1>4, UptoNat DEF Sized
<1>10. /\ f0[2] \div B = e[2] /\ f0[2] % B = p \div B
       /\ f0[3] \div B = e[3] /\ f0[3] % B = p % B
  BY <1>2, <1>5, <1>9, Composed
<1>11. ((f0[2] % B) * B + (f0[3] % B)) * out.c + f0[1] = e[1]
  BY <1>3, <1>5, <1>10 DEF Behind
<1>12. \A f \in Each(out) : Nchw(out, f[1], f[2], f[3]) \in Upto(n)
  BY <1>3, EachIs, NchwPlace
<1>13. \A f \in Each(out) : to[f] \in Upto(n)
  BY <1>12
<1>14. ASSUME NEW f \in Each(out), NEW g \in Each(out), to[f] = to[g]
       PROVE  from[f] = from[g]
  <2>1. f[1] = g[1] /\ f[2] = g[2] /\ f[3] = g[3]
    BY <1>3, <1>14, EachIs, NchwOneToOne
  <2> QED
    BY <2>1
<1>15. to[f0] = Onto(t, t.c, e)
  BY <1>6, <1>8
<1>16. from[f0] = Nchw(t, e[1], e[2], e[3])
  BY <1>8, <1>10, <1>11
<1> HIDE DEF to, from, f0
<1>17. Moved(Stores(Each(out), to, from), n, Blank)[to[f0]] = buf[from[f0]]
  BY <1>8, <1>13, <1>14, MovedEach
<1> QED
  BY <1>1, <1>15, <1>16, <1>17 DEF n

(* The same place by its channel, and the row and column of its phase.     *)
LEMMA OntoIs ==
  ASSUME NEW t, Sized(t), NEW c \in Nat, c % (BlockSize * BlockSize) = 0,
         NEW e, e[1] \in Upto(c)
  PROVE  \E q \in Upto(c \div (BlockSize * BlockSize)), a, g \in Upto(BlockSize) :
           /\ Onto(t, c, e)
                = Nchw(Spread(t, c), q, Behind(e[2], BlockSize, a), Behind(e[3], BlockSize, g))
           /\ e[1] = Behind(Behind(a, BlockSize, g), c \div (BlockSize * BlockSize), q)
<1> DEFINE B == BlockSize
           d == c \div (B * B)
           i == e[1]
           p == i \div d
<1>1. B \in Nat \ {0} /\ i \in Upto(c) /\ d = c \div (B * B) /\ c % (B * B) = 0
  BY BlockSizeIs DEF BlockSizes
<1>2. Onto(t, c, e)
        = Nchw(Spread(t, c), i % d, Behind(e[2], B, p \div B), Behind(e[3], B, p % B))
  <2>1. Spread(t, c).c = d
    BY DEF Spread
  <2> QED
    BY <2>1 DEF Onto, Behind
<1> HIDE DEF B, d, i
<1>3. /\ i % d \in Upto(d) /\ (i \div d) \div B \in Upto(B) /\ (i \div d) % B \in Upto(B)
      /\ Behind((i \div d) \div B, B, (i \div d) % B) = i \div d
      /\ Behind(i \div d, d, i % d) = i
  <2> HIDE DEF p
  <2>1. B \in Nat \ {0} /\ i \in Upto(c) /\ c \in Nat
    BY <1>1
  <2>2. d = c \div (B * B) /\ c % (B * B) = 0
    BY <1>1
  <2>3. Phased(c, B, i, d)
    BY <2>1, <2>2, Phases
  <2> QED
    BY <2>3 DEF Phased
<1>4. /\ i % d \in Upto(d) /\ p \div B \in Upto(B) /\ p % B \in Upto(B)
      /\ i = Behind(Behind(p \div B, B, p % B), d, i % d)
  BY <1>3
<1> HIDE DEF p
<1>5. \E q \in Upto(d), a, g \in Upto(B) :
        /\ Onto(t, c, e) = Nchw(Spread(t, c), q, Behind(e[2], B, a), Behind(e[3], B, g))
        /\ i = Behind(Behind(a, B, g), d, q)
  BY <1>2, <1>4
<1> QED
  BY <1>5 DEF B, d, i

(* nc1hwc2_d2s_dcr_f16 reads a channel where its block has it.             *)
ReadAt(t, b, i, y, x) == y * t.w * b + x * b + ((i \div b) * t.h * t.w * b + (i % b))

LEMMA BlockSource ==
  ASSUME NEW t, Sized(t), NEW b \in Nat \ {0}, NEW i \in Nat, NEW y \in Nat, NEW x \in Nat
  PROVE  ReadAt(t, b, i, y, x) = Nc1hwc2(t, t.w, b, i, y, x)
<1> DEFINE u == i \div b
           r == i % b
<1>1. b \in Nat /\ u \in Nat /\ r \in Nat
  BY Divided, UptoNat
<1> HIDE DEF u, r
<1>2. \A h, w, k, m, n, v, z \in Nat :
        m * w * k + n * k + (v * h * w * k + z) = ((v * h + m) * w + n) * k + z
  OBVIOUS
<1>3. y * t.w * b + x * b + (u * t.h * t.w * b + r) = ((u * t.h + y) * t.w + x) * b + r
  BY <1>1, <1>2 DEF Sized
<1> QED
  BY <1>3 DEF Nc1hwc2, ReadAt, u, r

SpaceStore(t, b, q, p, a) ==
  LET c  == BlockCount(t, b) * b[1]
      d  == c \div (BlockSize * BlockSize)
      ch == Behind(Behind(a[1], BlockSize, a[2]), d, q)
  IN << Nchw(Spread(t, c), q, Behind(p[1], BlockSize, a[1]), Behind(p[2], BlockSize, a[2])),
        Nc1hwc2(t, t.w, b[1], ch, p[1], p[2]) >>

LEMMA SpaceStoreIs ==
  ASSUME NEW t, Sized(t), NEW b, b[1] \in Nat \ {0}, NEW c \in Nat, c = BlockCount(t, b) * b[1],
         c % (BlockSize * BlockSize) = 0,
         NEW q \in Upto(c \div (BlockSize * BlockSize)),
         NEW p \in Upto(t.h) \X Upto(t.w), NEW a \in Upto(BlockSize) \X Upto(BlockSize),
         NEW out, out = Spread(t, c), NEW ch, ch = a[1] * (BlockSize * out.c) + a[2] * out.c + q
  PROVE  << (q * out.h + p[1] * BlockSize + a[1]) * out.w + p[2] * BlockSize + a[2],
            p[1] * t.w * b[1] + p[2] * b[1]
              + ((ch \div b[1]) * t.h * t.w * b[1] + (ch % b[1])) >>
           = SpaceStore(t, b, q, p, a)
<1> DEFINE B  == BlockSize
           d  == c \div (B * B)
           y  == p[1]
           x  == p[2]
           g  == a[1]
           k  == a[2]
<1>1. B \in Nat \ {0}
  BY BlockSizeIs DEF BlockSizes
<1>2. y \in Upto(t.h) /\ x \in Upto(t.w) /\ g \in Upto(B) /\ k \in Upto(B)
  OBVIOUS
<1>3. out.c = d /\ Sized(out)
  BY SpreadIs
<1>4. q \in Upto(d)
  OBVIOUS
<1> HIDE DEF d, B, y, x, g, k
<1>5. B \in Nat /\ d \in Nat /\ q \in Nat /\ y \in Nat /\ x \in Nat /\ g \in Nat /\ k \in Nat
  BY <1>1, <1>2, <1>3, <1>4, UptoNat DEF Sized
<1>6. \A m, n, u, v, z \in Nat : u * (m * n) + v * n + z = (u * m + v) * n + z
  OBVIOUS
<1>7. g * (B * d) + k * d + q = Behind(Behind(g, B, k), d, q)
  BY <1>5, <1>6 DEF Behind
<1>8. ch = Behind(Behind(g, B, k), d, q)
  BY <1>3, <1>7 DEF B, g, k
<1>9. Behind(g, B, k) \in Nat
  BY <1>2, <1>5, BehindNat
<1>10. ch \in Nat
  BY <1>4, <1>5, <1>8, <1>9, BehindNat
<1>11. y * t.w * b[1] + x * b[1] + ((ch \div b[1]) * t.h * t.w * b[1] + (ch % b[1]))
         = Nc1hwc2(t, t.w, b[1], ch, y, x)
  <2> DEFINE b1 == b[1]
  <2>1. b1 \in Nat \ {0} /\ Sized(t)
    OBVIOUS
  <2> HIDE DEF b1
  <2>2. ReadAt(t, b1, ch, y, x) = Nc1hwc2(t, t.w, b1, ch, y, x)
    BY <1>5, <1>10, <2>1, BlockSource
  <2> QED
    BY <2>2 DEF b1, ReadAt
<1>12. /\ q * out.h \in Nat /\ y * B \in Nat /\ x * B \in Nat
  BY <1>3, <1>5, Products DEF Sized
<1> DEFINE qh == q * out.h
           yb == y * B
           xb == x * B
           l  == (qh + (yb + g)) * out.w
<1>13. qh + yb + g = qh + (yb + g) /\ (qh + (yb + g)) \in Nat /\ out.w \in Nat
  BY <1>3, <1>5, <1>12 DEF Sized
<1>14. (qh + yb + g) * out.w = l /\ l \in Nat
  BY <1>13, Products
<1> HIDE DEF qh, yb, xb, l
<1>15. l + xb + k = l + (xb + k)
  BY <1>5, <1>12, <1>14 DEF xb
<1>16. (qh + yb + g) * out.w + xb + k = l + (xb + k)
  BY <1>14, <1>15
<1>17. (q * out.h + y * B + g) * out.w + x * B + k = Nchw(out, q, Behind(y, B, g), Behind(x, B, k))
  BY <1>16 DEF qh, yb, xb, l, Nchw, Behind
<1> QED
  BY <1>8, <1>11, <1>17 DEF SpaceStore, B, d, y, x, g, k

LEMMA BlocksToSpaceIs ==
  ASSUME NEW t, Sized(t), NEW b, b[1] \in Nat \ {0}, NEW c \in Nat, c = BlockCount(t, b) * b[1],
         c % (BlockSize * BlockSize) = 0
  PROVE  BlocksToSpace(t, b)
           = {SpaceStore(t, b, q, p, a) :
                q \in Upto(c \div (BlockSize * BlockSize)), p \in Upto(t.h) \X Upto(t.w),
                a \in Upto(BlockSize) \X Upto(BlockSize)}
<1> DEFINE out == Spread(t, c)
           Ch(q, p, a) == a[1] * (BlockSize * out.c) + a[2] * out.c + q
           One(q, p, a) ==
             << (q * out.h + p[1] * BlockSize + a[1]) * out.w + p[2] * BlockSize + a[2],
                p[1] * t.w * b[1] + p[2] * b[1]
                  + ((Ch(q, p, a) \div b[1]) * t.h * t.w * b[1] + (Ch(q, p, a) % b[1])) >>
<1>1. BlocksToSpace(t, b)
        = {One(q, p, a) : q \in Upto(out.c), p \in Upto(t.h) \X Upto(t.w),
             a \in Upto(BlockSize) \X Upto(BlockSize)}
  BY DEF BlocksToSpace
<1>2. out.c = c \div (BlockSize * BlockSize)
  BY DEF Spread
<1>3. ASSUME NEW q \in Upto(c \div (BlockSize * BlockSize)),
             NEW p \in Upto(t.h) \X Upto(t.w), NEW a \in Upto(BlockSize) \X Upto(BlockSize)
      PROVE  One(q, p, a) = SpaceStore(t, b, q, p, a)
  <2> DEFINE ch == Ch(q, p, a)
  <2>1. out = Spread(t, c) /\ ch = a[1] * (BlockSize * out.c) + a[2] * out.c + q
    OBVIOUS
  <2> HIDE DEF out, ch
  <2> QED
    BY <2>1, SpaceStoreIs DEF ch
<1> HIDE DEF One, out
<1> QED
  BY <1>1, <1>2, <1>3

LEMMA BlocksToSpaceMoved ==
  ASSUME NEW t, Sized(t), NEW b, b[1] \in Nat \ {0}, NEW c \in Nat, c = BlockCount(t, b) * b[1],
         c % (BlockSize * BlockSize) = 0, NEW e \in Each(t)
  PROVE  Moved(BlocksToSpace(t, b), c * t.h * t.w, Blank)[Onto(t, c, e)]
           = buf[Nc1hwc2(t, t.w, b[1], e[1], e[2], e[3])]
<1> DEFINE B   == BlockSize
           out == Spread(t, c)
           n   == c * t.h * t.w
           d   == c \div (B * B)
           all == BlocksToSpace(t, b)
           Dst(q, p, a) == Nchw(out, q, Behind(p[1], B, a[1]), Behind(p[2], B, a[2]))
           Src(q, p, a) ==
             Nc1hwc2(t, t.w, b[1], Behind(Behind(a[1], B, a[2]), d, q), p[1], p[2])
<1>1. all = {SpaceStore(t, b, q, p, a) : q \in Upto(d), p \in Upto(t.h) \X Upto(t.w),
               a \in Upto(B) \X Upto(B)}
  BY BlocksToSpaceIs
<1>2. ASSUME NEW q, NEW p, NEW a
      PROVE  SpaceStore(t, b, q, p, a)[1] = Dst(q, p, a) /\ SpaceStore(t, b, q, p, a)[2] = Src(q, p, a)
  BY DEF SpaceStore
<1>3. B \in Nat
  BY BlockSizeIs DEF BlockSizes
<1>4. /\ out.c = d /\ out.h = t.h * B /\ out.w = t.w * B
      /\ Sized(out) /\ Size(out) = n
  BY SpreadIs
<1>5. e[1] \in Upto(t.c) /\ e[2] \in Upto(t.h) /\ e[3] \in Upto(t.w)
  BY EachIs
<1>6. e[1] \in Upto(c)
  <2> DEFINE m  == t.c
             b1 == b[1]
             i  == e[1]
  <2>1. m \in Nat /\ b1 \in Nat \ {0} /\ i \in Upto(m) /\ b1 \in Nat
    BY <1>5 DEF Sized
  <2>2. c = ((m + b1 - 1) \div b1) * b1
    BY DEF BlockCount
  <2> HIDE DEF m, b1, i
  <2> DEFINE k == (m + b1 - 1) \div b1
  <2>3. i \div b1 \in Upto(k) /\ k \in Nat
    BY <2>1, BlockOfChannel
  <2>4. i \in Nat
    BY <2>1, UptoNat
  <2>5. i % b1 \in Upto(b1) /\ i = Behind(i \div b1, b1, i % b1)
    BY <2>1, <2>4, Divided
  <2> HIDE DEF k
  <2>6. Behind(i \div b1, b1, i % b1) \in Upto(k * b1)
    BY <2>1, <2>3, <2>5, BehindIn
  <2> QED
    BY <2>2, <2>5, <2>6 DEF k, i
<1>7. PICK q \in Upto(d), a \in Upto(B), g \in Upto(B) :
        /\ Onto(t, c, e) = Nchw(out, q, Behind(e[2], B, a), Behind(e[3], B, g))
        /\ e[1] = Behind(Behind(a, B, g), d, q)
  BY <1>6, OntoIs
<1> DEFINE p0 == << e[2], e[3] >>
           a0 == << a, g >>
           s  == SpaceStore(t, b, q, p0, a0)
<1>8. p0 \in Upto(t.h) \X Upto(t.w) /\ a0 \in Upto(B) \X Upto(B)
  BY <1>5
<1>9. s \in all
  BY <1>1, <1>8
<1>10. s[1] = Onto(t, c, e) /\ s[2] = Nc1hwc2(t, t.w, b[1], e[1], e[2], e[3])
  BY <1>2, <1>7
<1> HIDE DEF B, out, n, d, all, s
<1>11. ASSUME NEW r \in Upto(d), NEW p \in Upto(t.h) \X Upto(t.w), NEW v \in Upto(B) \X Upto(B)
       PROVE  /\ Behind(p[1], B, v[1]) \in Upto(out.h) /\ Behind(p[2], B, v[2]) \in Upto(out.w)
              /\ r \in Upto(out.c) /\ p[1] \in Nat /\ p[2] \in Nat
              /\ v[1] \in Upto(B) /\ v[2] \in Upto(B)
  <2>1. p[1] \in Upto(t.h) /\ p[2] \in Upto(t.w) /\ v[1] \in Upto(B) /\ v[2] \in Upto(B)
    OBVIOUS
  <2>2. t.h \in Nat /\ t.w \in Nat
    BY DEF Sized
  <2> QED
    BY <1>3, <1>4, <2>1, <2>2, BehindIn, UptoNat
<1>12. s[1] \in Upto(n)
  <2>1. Dst(q, p0, a0) \in Upto(n)
    BY <1>4, <1>8, <1>11, NchwPlace
  <2> QED
    BY <1>2, <2>1 DEF s
<1>13. ASSUME NEW r \in Upto(d), NEW p \in Upto(t.h) \X Upto(t.w), NEW v \in Upto(B) \X Upto(B),
              NEW q1 \in Upto(d), NEW p1 \in Upto(t.h) \X Upto(t.w), NEW a1 \in Upto(B) \X Upto(B),
              Dst(r, p, v) = Dst(q1, p1, a1)
       PROVE  Src(r, p, v) = Src(q1, p1, a1)
  <2>1. /\ r = q1 /\ Behind(p[1], B, v[1]) = Behind(p1[1], B, a1[1])
        /\ Behind(p[2], B, v[2]) = Behind(p1[2], B, a1[2])
    BY <1>4, <1>11, <1>13, NchwOneToOne
  <2>2. p[1] = p1[1] /\ v[1] = a1[1]
    BY <1>3, <1>11, <2>1, BehindOneToOne
  <2>3. p[2] = p1[2] /\ v[2] = a1[2]
    BY <1>3, <1>11, <2>1, BehindOneToOne
  <2> QED
    BY <2>1, <2>2, <2>3
<1>14. Functional(all)
  <2> SUFFICES ASSUME NEW u \in all, NEW w \in all, u[1] = w[1]
               PROVE  u[2] = w[2]
    BY DEF Functional
  <2>1. PICK r \in Upto(d), p \in Upto(t.h) \X Upto(t.w), v \in Upto(B) \X Upto(B) :
          u = SpaceStore(t, b, r, p, v)
    BY <1>1
  <2>2. PICK q1 \in Upto(d), p1 \in Upto(t.h) \X Upto(t.w), a1 \in Upto(B) \X Upto(B) :
          w = SpaceStore(t, b, q1, p1, a1)
    BY <1>1
  <2> HIDE DEF Dst, Src
  <2>3. u[1] = Dst(r, p, v) /\ u[2] = Src(r, p, v) /\ w[1] = Dst(q1, p1, a1) /\ w[2] = Src(q1, p1, a1)
    BY <1>2, <2>1, <2>2
  <2>4. Dst(r, p, v) = Dst(q1, p1, a1)
    BY <2>3
  <2>5. \A p2 \in Upto(t.h) \X Upto(t.w), a2 \in Upto(B) \X Upto(B) :
          Dst(r, p, v) = Dst(q1, p2, a2) => Src(r, p, v) = Src(q1, p2, a2)
    BY <1>13, <2>1, <2>2
  <2>6. Src(r, p, v) = Src(q1, p1, a1)
    BY <2>2, <2>4, <2>5
  <2> QED
    BY <2>3, <2>6
<1>15. Moved(all, n, Blank)[s[1]] = buf[s[2]]
  BY <1>9, <1>12, <1>14, MovedAt
<1> QED
  BY <1>10, <1>15 DEF all, n

-----------------------------------------------------------------------------
(* Scales.                                                                 *)

(* The geometries resolve_entropy_geometry accepts.                        *)
Geometry(l, by) ==
  /\ by[1] \in {2, 4} /\ by[2] \in {4, 8}
  /\ CeilDiv(2 * l.y.c, by[1]) <= l.z.c

LEMMA RepeatsAre ==
  ASSUME NEW l, Repeats(l) # << 0, 0 >>
  PROVE  Geometry(l, Repeats(l))
<1> DEFINE fits(r) == l.z.h = CeilDiv(l.y.h, r) /\ l.z.w = CeilDiv(l.y.w, r)
           by == CASE fits(8) -> << 2, 8 >> [] ~fits(8) /\ fits(4) -> << 4, 4 >>
                   [] OTHER -> << 0, 0 >>
<1>1. Repeats(l) = IF by[1] # 0 /\ CeilDiv(2 * l.y.c, by[1]) <= l.z.c THEN by ELSE << 0, 0 >>
  BY DEF Repeats
<1>2. by[1] # 0 /\ CeilDiv(2 * l.y.c, by[1]) <= l.z.c /\ Repeats(l) = by
  BY <1>1
<1>3. by = << 2, 8 >> \/ by = << 4, 4 >> \/ by = << 0, 0 >>
  OBVIOUS
<1> HIDE DEF by
<1>4. by[1] \in {2, 4} /\ by[2] \in {4, 8}
  BY <1>2, <1>3
<1> QED
  BY <1>2, <1>4 DEF Geometry

LEMMA HyperIn ==
  ASSUME NEW l, IsShape(l.y), IsShape(l.z), NEW by, Geometry(l, by), NEW half \in {0, 1},
         NEW e \in Each(l.y)
  PROVE  Hyper(l, by, half, e) \in Upto(Size(l.z))
<1> DEFINE c  == l.y.c
           zc == l.z.c
           r  == by[1]
           i  == e[1]
           ch == (i + half * c) \div r
           y  == IF e[2] \div by[2] >= l.z.h THEN l.z.h - 1 ELSE e[2] \div by[2]
           x  == IF e[3] \div by[2] >= l.z.w THEN l.z.w - 1 ELSE e[3] \div by[2]
<1>1. e[1] \in Upto(l.y.c) /\ e[2] \in Upto(l.y.h) /\ e[3] \in Upto(l.y.w)
  BY EachIs
<1>2. ch \in Upto(zc)
  <2>1. i \in Nat /\ i < c /\ c \in Nat /\ zc \in Nat /\ r \in {2, 4}
    BY <1>1, UptoNat DEF IsShape, IsSide, Geometry
  <2>2. (2 * c + r - 1) \div r <= zc
    BY DEF Geometry, CeilDiv
  <2> HIDE DEF i, c, zc, r
  <2>3. i + half * c \in Nat /\ i + half * c < 2 * c
    BY <2>1
  <2> DEFINE m == i + half * c
  <2>4. m \in Nat /\ m < 2 * c
    BY <2>3
  <2> HIDE DEF m
  <2>5. CASE r = 2
    <3>1. m \div 2 \in Nat /\ m \div 2 < (2 * c + 2 - 1) \div 2
      BY <2>1, <2>4
    <3>2. ch = m \div 2 /\ (2 * c + 2 - 1) \div 2 <= zc
      BY <2>2, <2>5 DEF m
    <3> QED
      BY <2>1, <3>1, <3>2 DEF Upto
  <2>6. CASE r = 4
    <3>1. m \div 4 \in Nat /\ m \div 4 < (2 * c + 4 - 1) \div 4
      BY <2>1, <2>4
    <3>2. ch = m \div 4 /\ (2 * c + 4 - 1) \div 4 <= zc
      BY <2>2, <2>6 DEF m
    <3> QED
      BY <2>1, <3>1, <3>2 DEF Upto
  <2> QED
    BY <2>1, <2>5, <2>6
<1>3. y \in Upto(l.z.h) /\ x \in Upto(l.z.w)
  <2>1. /\ by[2] \in Nat \ {0} /\ l.z.h \in Nat \ {0} /\ l.z.w \in Nat \ {0}
        /\ e[2] \in Nat /\ e[3] \in Nat
    BY <1>1, UptoNat DEF IsShape, IsSide, Geometry
  <2>2. e[2] \div by[2] \in Nat /\ e[3] \div by[2] \in Nat
    BY <2>1, Divided
  <2> DEFINE a == e[2] \div by[2]
             b == e[3] \div by[2]
  <2>3. a \in Nat /\ b \in Nat
    BY <2>2
  <2> HIDE DEF a, b
  <2>4. /\ (IF a >= l.z.h THEN l.z.h - 1 ELSE a) \in Upto(l.z.h)
        /\ (IF b >= l.z.w THEN l.z.w - 1 ELSE b) \in Upto(l.z.w)
    BY <2>1, <2>3 DEF Upto
  <2> QED
    BY <2>4 DEF a, b
<1>4. Sized(l.z)
  BY DEF IsShape, IsSide, Sized
<1>5. Hyper(l, by, half, e) = Nchw(l.z, ch, y, x)
  BY DEF Hyper
<1> HIDE DEF ch, y, x
<1> QED
  BY <1>2, <1>3, <1>4, <1>5, NchwPlace

(* Four by four latents, and eight by eight, share their hyper-latent.     *)
LEMMA HyperShared ==
  ASSUME NEW l, IsShape(l.y), NEW by, Geometry(l, by), NEW half,
         NEW e \in Each(l.y), NEW f \in Each(l.y),
         e[1] = f[1], e[2] \div 4 = f[2] \div 4, e[3] \div 4 = f[3] \div 4
  PROVE  Hyper(l, by, half, e) = Hyper(l, by, half, f)
<1>1. e[2] \in Nat /\ e[3] \in Nat /\ f[2] \in Nat /\ f[3] \in Nat
  BY EachIs, UptoNat DEF IsShape, IsSide
<1>2. \A a, b \in Nat : a \div 4 = b \div 4 => a \div 8 = b \div 8
  OBVIOUS
<1>3. by[2] = 4 \/ by[2] = 8
  BY DEF Geometry
<1>4. e[2] \div by[2] = f[2] \div by[2] /\ e[3] \div by[2] = f[3] \div by[2]
  BY <1>1, <1>2, <1>3
<1> QED
  BY <1>4 DEF Hyper

LEMMA ClampedIn ==
  ASSUME NEW v \in Int
  PROVE  Clamped(v) \in 0 .. MaxScale
BY ShapesAssumption DEF Clamped, Magnitude

(* The half of the hyper-latents a latent takes its scale from.            *)
Turn(pass, e) == IF e[2] % 2 = e[3] % 2 THEN pass ELSE 1 - pass

LEMMA Turns ==
  ASSUME NEW e, NEW f, e[2] \in Nat, e[3] \in Nat, f[2] \in Nat, f[3] \in Nat
  PROVE  IF (e[2] + e[3]) % 2 = (f[2] + f[3]) % 2
         THEN Turn(0, e) = Turn(0, f) /\ Turn(1, e) = Turn(1, f)
         ELSE Turn(0, e) = Turn(1, f) /\ Turn(1, e) = Turn(0, f)
<1>1. \A a, b \in Nat : (a % 2 = b % 2) <=> ((a + b) % 2 = 0)
  OBVIOUS
<1>2. \A a, b \in Nat : (a + b) % 2 = 0 \/ (a + b) % 2 = 1
  OBVIOUS
<1>3. /\ Turn(0, e) = IF (e[2] + e[3]) % 2 = 0 THEN 0 ELSE 1 - 0
      /\ Turn(1, e) = IF (e[2] + e[3]) % 2 = 0 THEN 1 ELSE 1 - 1
      /\ Turn(0, f) = IF (f[2] + f[3]) % 2 = 0 THEN 0 ELSE 1 - 0
      /\ Turn(1, f) = IF (f[2] + f[3]) % 2 = 0 THEN 1 ELSE 1 - 1
  BY <1>1 DEF Turn
<1>4. /\ (e[2] + e[3]) % 2 = 0 \/ (e[2] + e[3]) % 2 = 1
      /\ (f[2] + f[3]) % 2 = 0 \/ (f[2] + f[3]) % 2 = 1
  BY <1>2
<1> QED
  BY <1>3, <1>4

-----------------------------------------------------------------------------
(* What each layout holds.                                                 *)

NchwKept ==
  /\ shape \in Tensors /\ DOMAIN buf = Upto(Size(shape))
  /\ \A e \in Each(shape) : buf[Nchw(shape, e[1], e[2], e[3])] = At(shape, e)
BlocksKept ==
  /\ shape \in Tensors /\ layout.b \in Blocks /\ Stride(shape, layout.b) >= shape.w
  /\ \A e \in Each(shape) : buf[BlockAt(shape, layout.b, e)] = At(shape, e)
  /\ \A i \in DOMAIN buf \ {BlockAt(shape, layout.b, e) : e \in Each(shape)} : buf[i] = 0
NhwcKept ==
  \A e \in Each(shape) : buf[Nhwc(shape, e[1], e[2], e[3])] = Half(At(shape, e))
SpaceKept ==
  \A e \in Each(shape) : buf[Onto(shape, layout.c, e)] = At(shape, e)
HyperKept ==
  /\ shape \in Latents /\ Repeats(shape) # << 0, 0 >>
  /\ \A i \in Upto(Size(shape.z)) : buf[i] \in Int

PxInv ==
  /\ layout.kind = "nchw" => NchwKept
  /\ layout.kind = "blocks" => BlocksKept
  /\ layout.kind = "nhwc" => NhwcKept
  /\ layout.kind = "space" => SpaceKept
  /\ layout.kind = "hyper" => HyperKept
  /\ ScalesShared

LEMMA PxInvKeeps == PxInv => TensorsKeepElements
<1> SUFFICES ASSUME PxInv
             PROVE  ElementsKept /\ ScalesShared
  BY DEF TensorsKeepElements
<1>1. CASE layout.kind = "nhwc"
  BY <1>1 DEF PxInv, ElementsKept, NhwcKept
<1>2. CASE layout.kind = "blocks"
  BY <1>2 DEF PxInv, ElementsKept, BlocksKept, BlockAt
<1>3. CASE layout.kind = "nchw"
  BY <1>3 DEF PxInv, ElementsKept, NchwKept
<1>4. CASE layout.kind = "space"
  BY <1>4 DEF PxInv, ElementsKept, SpaceKept, Onto
<1>5. CASE layout.kind \notin {"nhwc", "blocks", "nchw", "space"}
  BY <1>5 DEF PxInv, ElementsKept
<1> QED
  BY <1>1, <1>2, <1>3, <1>4, <1>5

LEMMA TensorIs ==
  ASSUME NEW t \in Tensors
  PROVE  Sized(t) /\ IsShape(t)
BY ShapesAssumption DEF Sized, IsShape, IsSide

LEMMA GiveTensorKeeps ==
  ASSUME GiveTensor
  PROVE  PxInv'
<1>1. shape' \in Tensors /\ layout'.kind = "nchw"
  BY DEF GiveTensor
<1>2. buf' = [i \in Upto(Size(shape')) |-> Wide(i)]
  BY DEF GiveTensor
<1>3. ASSUME NEW e \in Each(shape')
      PROVE  buf'[Nchw(shape', e[1], e[2], e[3])] = At(shape', e)
  <2>1. Nchw(shape', e[1], e[2], e[3]) \in Upto(Size(shape'))
    BY <1>1, TensorIs, EachIs, NchwPlace
  <2> QED
    BY <1>2, <2>1 DEF At
<1>4. NchwKept'
  BY <1>1, <1>2, <1>3 DEF NchwKept
<1> QED
  BY <1>1, <1>4 DEF PxInv, ScalesShared

LEMMA GiveHyperKeeps ==
  ASSUME GiveHyper
  PROVE  PxInv'
<1>1. shape' \in Latents /\ Repeats(shape') # << 0, 0 >> /\ layout'.kind = "hyper"
  BY DEF GiveHyper
<1>2. buf' = [i \in Upto(Size(shape'.z)) |-> i - Size(shape'.z) \div 2]
  BY DEF GiveHyper
<1>3. Size(shape'.z) \in Nat
  <2>1. IsShape(shape'.z)
    BY <1>1, ShapesAssumption
  <2>2. shape'.z.c \in Nat /\ shape'.z.h \in Nat /\ shape'.z.w \in Nat
    BY <2>1 DEF IsShape, IsSide
  <2>3. shape'.z.c * shape'.z.h \in Nat
    BY <2>2, Products
  <2> QED
    BY <2>2, <2>3, Products DEF Size
<1>4. HyperKept'
  <2> DEFINE n == Size(shape'.z)
  <2>1. n \in Nat /\ n \div 2 \in Int /\ buf' = [i \in Upto(n) |-> i - n \div 2]
    BY <1>2, <1>3
  <2> HIDE DEF n
  <2>2. \A i \in Upto(n) : buf'[i] \in Int
    BY <2>1 DEF Upto
  <2> QED
    BY <1>1, <2>2 DEF HyperKept, n
<1> QED
  BY <1>1, <1>4 DEF PxInv, ScalesShared

LEMMA TensorToNhwcKeeps ==
  ASSUME PxInv, TensorToNhwc
  PROVE  PxInv'
<1>1. NchwKept /\ layout'.kind = "nhwc" /\ shape' = shape
  BY DEF TensorToNhwc, PxInv
<1>2. buf' = [i \in Upto(Size(shape)) |-> Half(Moved(ToNhwc(shape), Size(shape), Blank)[i])]
  BY <1>1 DEF TensorToNhwc, NchwKept
<1>3. Sized(shape)
  BY <1>1, TensorIs DEF NchwKept
<1>4. ASSUME NEW e \in Each(shape)
      PROVE  buf'[Nhwc(shape, e[1], e[2], e[3])] = Half(At(shape, e))
  <2> DEFINE i == Nhwc(shape, e[1], e[2], e[3])
             m == Moved(ToNhwc(shape), Size(shape), Blank)
  <2>1. i \in Upto(Size(shape)) /\ m[i] = buf[Nchw(shape, e[1], e[2], e[3])]
    BY <1>3, NhwcMoved
  <2>2. m[i] = At(shape, e)
    BY <1>1, <2>1 DEF NchwKept
  <2> HIDE DEF i, m
  <2>3. buf'[i] = Half(m[i])
    BY <1>2, <2>1 DEF m
  <2> QED
    BY <2>2, <2>3 DEF i
<1>5. NhwcKept'
  BY <1>1, <1>4 DEF NhwcKept, At
<1> QED
  BY <1>1, <1>5 DEF PxInv, ScalesShared

LEMMA TensorToBlocksKeeps ==
  ASSUME PxInv, NEW b \in Blocks, TensorToBlocks(b)
  PROVE  PxInv'
<1>1. /\ NchwKept /\ layout'.kind = "blocks" /\ layout'.b = b /\ shape' = shape
      /\ Stride(shape, b) >= shape.w
      /\ buf' = Moved(ToBlocks(shape, b), BlockedSize(shape, b), 0)
  BY DEF TensorToBlocks, PxInv
<1>2. Sized(shape) /\ shape \in Tensors
  BY <1>1, TensorIs DEF NchwKept
<1>3. Blockable(shape, b)
  <2>1. b[1] \in Nat \ {0} /\ b[2] \in Int
    BY ShapesAssumption
  <2>2. Stride(shape, b) \in Nat
    BY <1>2, <2>1 DEF Stride, Sized
  <2> QED
    BY <1>1, <1>2, <2>1, <2>2 DEF Blockable, Sized
<1>4. \A e \in Each(shape) : buf'[BlockAt(shape, b, e)] = At(shape, e)
  BY <1>1, <1>3, BlocksMoved DEF NchwKept
<1>5. DOMAIN buf' = Upto(BlockedSize(shape, b))
  BY <1>1 DEF Moved
<1>6. \A i \in DOMAIN buf' \ {BlockAt(shape, b, e) : e \in Each(shape)} : buf'[i] = 0
  BY <1>1, <1>3, <1>5, BlocksMoved
<1>7. BlocksKept'
  BY <1>1, <1>2, <1>4, <1>6 DEF BlocksKept
<1> QED
  BY <1>1, <1>7 DEF PxInv, ScalesShared

LEMMA TensorFromBlocksKeeps ==
  ASSUME PxInv, TensorFromBlocks
  PROVE  PxInv'
<1>1. /\ BlocksKept /\ layout'.kind = "nchw" /\ shape' = shape
      /\ layout.b = << Lanes, 0 >> /\ shape.c % Lanes = 0
      /\ buf' = Moved(FromBlocks(shape), Size(shape), Blank)
  BY DEF TensorFromBlocks, PxInv
<1>2. Sized(shape) /\ shape \in Tensors
  BY <1>1, TensorIs DEF BlocksKept
<1>3. layout.b[1] = Lanes /\ Stride(shape, layout.b) = shape.w
  BY <1>1 DEF Stride
<1>4. ASSUME NEW e \in Each(shape)
      PROVE  buf'[Nchw(shape, e[1], e[2], e[3])] = At(shape, e)
  <2>1. buf'[Nchw(shape, e[1], e[2], e[3])] = buf[Nc1hwc2(shape, shape.w, Lanes, e[1], e[2], e[3])]
    BY <1>1, <1>2, NchwMoved
  <2>2. buf[BlockAt(shape, layout.b, e)] = At(shape, e)
    BY <1>1 DEF BlocksKept
  <2> QED
    BY <1>3, <2>1, <2>2 DEF BlockAt
<1>5. DOMAIN buf' = Upto(Size(shape))
  BY <1>1 DEF Moved
<1>6. NchwKept'
  BY <1>1, <1>2, <1>4, <1>5 DEF NchwKept, At
<1> QED
  BY <1>1, <1>6 DEF PxInv, ScalesShared

LEMMA TensorToSpaceKeeps ==
  ASSUME PxInv, TensorToSpace
  PROVE  PxInv'
<1> DEFINE c == Channels(shape, layout)
           n == c * shape.h * shape.w
<1>1. /\ layout'.kind = "space" /\ layout'.c = c /\ shape' = shape
      /\ c % (BlockSize * BlockSize) = 0
      /\ layout.kind = "nchw" \/ (layout.kind = "blocks" /\ layout.b[2] = 0)
      /\ buf' = Moved(IF layout.kind = "nchw" THEN ToSpace(shape) ELSE BlocksToSpace(shape, layout.b),
                      n, Blank)
  BY DEF TensorToSpace
<1>2. ASSUME NEW e \in Each(shape)
      PROVE  buf'[Onto(shape, c, e)] = At(shape, e)
  <2>1. CASE layout.kind = "nchw"
    <3>1. NchwKept /\ c = shape.c
      BY <2>1 DEF PxInv, Channels
    <3>2. Sized(shape)
      BY <3>1, TensorIs DEF NchwKept
    <3>3. buf' = Moved(ToSpace(shape), shape.c * shape.h * shape.w, Blank)
      BY <1>1, <2>1, <3>1
    <3>4. buf'[Onto(shape, shape.c, e)] = buf[Nchw(shape, e[1], e[2], e[3])]
      BY <1>1, <3>1, <3>2, <3>3, ToSpaceMoved
    <3> QED
      BY <3>1, <3>4 DEF NchwKept
  <2>2. CASE layout.kind = "blocks" /\ layout.b[2] = 0
    <3>1. BlocksKept /\ c = BlockCount(shape, layout.b) * layout.b[1]
      BY <2>2 DEF PxInv, Channels
    <3>2. Sized(shape) /\ layout.b[1] \in Nat \ {0}
      BY <3>1, TensorIs, ShapesAssumption DEF BlocksKept
    <3>3. Stride(shape, layout.b) = shape.w
      BY <2>2 DEF Stride
    <3>4. buf' = Moved(BlocksToSpace(shape, layout.b), n, Blank)
      BY <1>1, <2>2
    <3>5. c \in Nat
      <4> DEFINE m  == shape.c
                 b1 == layout.b[1]
      <4>1. m \in Nat /\ b1 \in Nat \ {0} /\ m + b1 - 1 \in Nat
        BY <3>2 DEF Sized
      <4> HIDE DEF m, b1
      <4>2. (m + b1 - 1) \div b1 \in Nat
        BY <4>1, Divided
      <4>3. BlockCount(shape, layout.b) \in Nat
        BY <4>2 DEF BlockCount, m, b1
      <4> QED
        BY <3>1, <3>2, <4>3, Products
    <3> HIDE DEF c
    <3>6. buf'[Onto(shape, c, e)]
            = buf[Nc1hwc2(shape, shape.w, layout.b[1], e[1], e[2], e[3])]
      BY <1>1, <3>1, <3>2, <3>4, <3>5, BlocksToSpaceMoved
    <3>7. buf[BlockAt(shape, layout.b, e)] = At(shape, e)
      BY <3>1 DEF BlocksKept
    <3> QED
      BY <3>3, <3>6, <3>7 DEF BlockAt
  <2> QED
    BY <1>1, <2>1, <2>2
<1> HIDE DEF c
<1>3. SpaceKept'
  BY <1>1, <1>2 DEF SpaceKept, At, Onto, Spread, Each, Nchw
<1> QED
  BY <1>1, <1>3 DEF PxInv, ScalesShared

LEMMA ExtractScalesKeeps ==
  ASSUME PxInv, ExtractScales
  PROVE  PxInv'
<1> DEFINE l  == shape
           by == Repeats(shape)
<1>1. /\ HyperKept /\ layout'.kind = "scales" /\ shape' = shape
      /\ buf' = [pass \in {0, 1} |-> [e \in Each(l.y) |-> ScaleOf(l, by, pass, e)]]
  BY DEF ExtractScales, PxInv
<1>2. IsShape(l.y) /\ IsShape(l.z) /\ Geometry(l, by)
  BY <1>1, ShapesAssumption, RepeatsAre DEF HyperKept
<1>3. \A i \in Upto(Size(l.z)) : buf[i] \in Int
  BY <1>1 DEF HyperKept
<1>4. \A pass \in {0, 1}, e \in Each(l.y) :
        buf'[pass][e] = Clamped(buf[Hyper(l, by, Turn(pass, e), e)])
  BY <1>1 DEF ScaleOf, Turn
<1> HIDE DEF l, by
<1>5. ASSUME NEW pass \in {0, 1}, NEW e \in Each(l.y)
      PROVE  buf'[pass][e] \in 0 .. MaxScale
  <2>1. Turn(pass, e) \in {0, 1}
    BY DEF Turn
  <2> DEFINE i == Hyper(l, by, Turn(pass, e), e)
  <2>2. i \in Upto(Size(l.z))
    BY <1>2, <2>1, HyperIn
  <2> HIDE DEF i
  <2>3. Clamped(buf[i]) \in 0 .. MaxScale
    BY <1>3, <2>2, ClampedIn
  <2> QED
    BY <1>4, <2>3 DEF i
<1>6. ASSUME NEW e \in Each(l.y), NEW f \in Each(l.y),
             e[1] = f[1], e[2] \div 4 = f[2] \div 4, e[3] \div 4 = f[3] \div 4
      PROVE  IF (e[2] + e[3]) % 2 = (f[2] + f[3]) % 2
             THEN buf'[0][e] = buf'[0][f] /\ buf'[1][e] = buf'[1][f]
             ELSE buf'[0][e] = buf'[1][f] /\ buf'[1][e] = buf'[0][f]
  <2>1. e[2] \in Nat /\ e[3] \in Nat /\ f[2] \in Nat /\ f[3] \in Nat
    BY <1>2, EachIs, UptoNat DEF IsShape, IsSide
  <2>2. IF (e[2] + e[3]) % 2 = (f[2] + f[3]) % 2
        THEN Turn(0, e) = Turn(0, f) /\ Turn(1, e) = Turn(1, f)
        ELSE Turn(0, e) = Turn(1, f) /\ Turn(1, e) = Turn(0, f)
    BY <2>1, Turns
  <2> DEFINE H(half, d) == Clamped(buf[Hyper(l, by, half, d)])
  <2>3. \A half : H(half, e) = H(half, f)
    BY <1>2, <1>6, HyperShared
  <2>4. /\ buf'[0][e] = H(Turn(0, e), e) /\ buf'[1][e] = H(Turn(1, e), e)
        /\ buf'[0][f] = H(Turn(0, f), f) /\ buf'[1][f] = H(Turn(1, f), f)
    BY <1>4
  <2> HIDE DEF H
  <2> QED
    BY <2>2, <2>3, <2>4
<1>7. ScalesShared'
  BY <1>1, <1>5, <1>6 DEF ScalesShared, l
<1> QED
  BY <1>1, <1>7 DEF PxInv

LEMMA OthersKeep ==
  ASSUME PxInv,
         \/ GivePicture \/ GiveResidual \/ PictureToNetwork \/ Network \/ NetworkToPicture
         \/ PackPhases \/ AddResidual
  PROVE  PxInv'
<1>1. layout'.kind \in {"planes", "residual", "input", "output", "nv12", "phases", "added"}
  <2>1. CASE GivePicture
    BY <2>1 DEF GivePicture
  <2>2. CASE GiveResidual
    BY <2>2 DEF GiveResidual
  <2>3. CASE PictureToNetwork
    BY <2>3 DEF PictureToNetwork
  <2>4. CASE Network
    BY <2>4 DEF Network
  <2>5. CASE NetworkToPicture
    BY <2>5 DEF NetworkToPicture
  <2>6. CASE PackPhases
    BY <2>6 DEF PackPhases
  <2>7. CASE AddResidual
    BY <2>7 DEF AddResidual
  <2> QED
    BY <2>1, <2>2, <2>3, <2>4, <2>5, <2>6, <2>7
<1> QED
  BY <1>1 DEF PxInv, ScalesShared

(* Whatever tensor, blocks, row stride and hyper-latents the kernels of    *)
(* pixel.cpp are given, and a block size of up to 16 (choff in             *)
(* nc1hwc2_d2s_dcr_f16), in whatever order they are applied: every element *)
(* ends where its layout has it, padding is zero, and the scales of the    *)
(* two passes are those of their hyper-latents.                            *)
THEOREM TensorsSurviveTheKernels == PxSpec => []TensorsKeepElements
<1>1. PxIdle => PxInv
  BY DEF PxIdle, PxInv, None, ScalesShared
<1>2. PxInv /\ [PxNext]_pxVars => PxInv'
  <2> SUFFICES ASSUME PxInv, [PxNext]_pxVars
               PROVE  PxInv'
    OBVIOUS
  <2>1. CASE GiveTensor
    BY <2>1, GiveTensorKeeps
  <2>2. CASE GiveHyper
    BY <2>2, GiveHyperKeeps
  <2>3. CASE ExtractScales
    BY <2>3, ExtractScalesKeeps
  <2>4. CASE TensorToNhwc
    BY <2>4, TensorToNhwcKeeps
  <2>5. ASSUME NEW b \in Blocks, TensorToBlocks(b)
        PROVE  PxInv'
    BY <2>5, TensorToBlocksKeeps
  <2>6. CASE TensorFromBlocks
    BY <2>6, TensorFromBlocksKeeps
  <2>7. CASE TensorToSpace
    BY <2>7, TensorToSpaceKeeps
  <2>8. CASE \/ GivePicture \/ GiveResidual \/ PictureToNetwork \/ Network \/ NetworkToPicture
             \/ PackPhases \/ AddResidual
    BY <2>8, OthersKeep
  <2>9. CASE UNCHANGED pxVars
    BY <2>9 DEF pxVars, PxInv, NchwKept, BlocksKept, NhwcKept, SpaceKept, HyperKept, ScalesShared,
                At, BlockAt, Onto, Nchw, Nhwc, Nc1hwc2, Stride, Each, Spread
  <2> QED
    BY <2>1, <2>2, <2>3, <2>4, <2>5, <2>6, <2>7, <2>8, <2>9 DEF PxNext
<1>3. PxInv => TensorsKeepElements
  BY PxInvKeeps
<1> QED
  BY <1>1, <1>2, <1>3, PTL DEF PxSpec

-----------------------------------------------------------------------------
(* A byte survives half precision.                                         *)

Power(k, u) == 2 ^ k = u /\ 2 ^ (k + 1) = 2 * u

LEMMA Units ==
  ASSUME NEW k \in 10 .. 19
  PROVE  2 ^ k \in Nat /\ 2 ^ k >= 1024 /\ 2 ^ (k + 1) = 2 * 2 ^ k
<1>1. /\ Power(10, 1024) /\ Power(11, 2048) /\ Power(12, 4096) /\ Power(13, 8192)
      /\ Power(14, 16384) /\ Power(15, 32768) /\ Power(16, 65536) /\ Power(17, 131072)
      /\ Power(18, 262144) /\ Power(19, 524288)
  BY DEF Power
<1>2. \E u \in Nat : u >= 1024 /\ Power(k, u)
  BY <1>1
<1> QED
  BY <1>2 DEF Power

(* The two bounds of a quotient.                                           *)
LEMMA Quotient ==
  ASSUME NEW a \in Nat, NEW n \in Nat \ {0}
  PROVE  a \div n \in Nat /\ n * (a \div n) <= a /\ a < n * (a \div n) + n
OBVIOUS

(* A scale whose next one is too large, or the largest: there is one.      *)
ScaleFits(b, k) ==
  /\ b * 2 ^ k < 2048 * 255
  /\ k = 19 \/ b * 2 ^ (k + 1) >= 2048 * 255

LEMMA ScaleIn ==
  ASSUME NEW b \in 0 .. 255
  PROVE  Scale(b) \in 10 .. 19
<1>1. ASSUME \A k \in 10 .. 19 : ~ScaleFits(b, k)
      PROVE  FALSE
  <2>1. \A k \in 10 .. 18 : b * 2 ^ k < 2048 * 255 => b * 2 ^ (k + 1) < 2048 * 255
    BY <1>1, Units DEF ScaleFits
  <2>2. b * 2 ^ 19 >= 2048 * 255
    BY <1>1, Units DEF ScaleFits
  <2>3. b * 2 ^ 10 < 2048 * 255
    OBVIOUS
  <2>4. b * 2 ^ 11 < 2048 * 255
    BY <2>1, <2>3
  <2>5. b * 2 ^ 12 < 2048 * 255
    BY <2>1, <2>4
  <2>6. b * 2 ^ 13 < 2048 * 255
    BY <2>1, <2>5
  <2>7. b * 2 ^ 14 < 2048 * 255
    BY <2>1, <2>6
  <2>8. b * 2 ^ 15 < 2048 * 255
    BY <2>1, <2>7
  <2>9. b * 2 ^ 16 < 2048 * 255
    BY <2>1, <2>8
  <2>10. b * 2 ^ 17 < 2048 * 255
    BY <2>1, <2>9
  <2>11. b * 2 ^ 18 < 2048 * 255
    BY <2>1, <2>10
  <2>12. b * 2 ^ 19 < 2048 * 255
    BY <2>1, <2>11
  <2> QED
    BY <2>2, <2>12
<1>2. \E k \in 10 .. 19 : ScaleFits(b, k)
  BY <1>1
<1> QED
  BY <1>2 DEF Scale, ScaleFits

LEMMA ByteSurvives ==
  ASSUME NEW b \in 0 .. 255
  PROVE  ByteBack(b) = b
<1> DEFINE u == 2 ^ Scale(b)
           f == Fraction(b)
           back == (2 * 255 * f + u) \div (2 * u)
<1>1. u \in Nat /\ u >= 1024 /\ 2 ^ (Scale(b) + 1) = 2 * u
  BY ScaleIn, Units
<1>2. b \in Nat /\ b * u \in Nat
  BY <1>1, Products
<1>3. f = (2 * b * u + 255) \div 510
  BY DEF Fraction
<1>4. ByteBack(b) = Saturated(back)
  BY <1>1 DEF ByteBack
<1>5. f \in Nat /\ 510 * f <= 2 * (b * u) + 255 /\ 2 * (b * u) + 255 < 510 * f + 510
  <2>1. 2 * b * u + 255 = 2 * (b * u) + 255 /\ 2 * (b * u) + 255 \in Nat
    BY <1>1, <1>2
  <2> HIDE DEF f, u
  <2> QED
    BY <1>3, <2>1, Quotient
<1> HIDE DEF u, f
<1>6. /\ back \in Nat /\ (2 * u) * back <= 510 * f + u
      /\ 510 * f + u < (2 * u) * back + 2 * u
  <2>1. 2 * 255 * f + u \in Nat /\ 2 * u \in Nat \ {0} /\ 2 * 255 * f = 510 * f
    BY <1>1, <1>5
  <2> QED
    BY <2>1, Quotient
<1> HIDE DEF back
<1>7. (2 * u) * back = 2 * (back * u) /\ back * u \in Nat
  BY <1>1, <1>6, Products
<1>8. ~(b + 1 <= back)
  <2>1. b + 1 <= back => (b + 1) * u <= back * u
    BY <1>1, <1>2, <1>6, Grows
  <2>2. (b + 1) * u = b * u + u
    BY <1>1, <1>2
  <2> QED
    BY <1>1, <1>2, <1>5, <1>6, <1>7, <2>1, <2>2
<1>9. ~(back + 1 <= b)
  <2>1. back + 1 <= b => (back + 1) * u <= b * u
    BY <1>1, <1>2, <1>6, Grows
  <2>2. (back + 1) * u = back * u + u
    BY <1>1, <1>6
  <2> QED
    BY <1>1, <1>2, <1>5, <1>6, <1>7, <2>1, <2>2
<1>10. back = b
  BY <1>6, <1>8, <1>9
<1> QED
  BY <1>4, <1>10 DEF Saturated

-----------------------------------------------------------------------------
(* Places in a picture with even sides.                                    *)

EvenPicture(p) ==
  /\ IsSide(p.w) /\ IsSide(p.h) /\ p.pad \in Nat /\ p.nv12 \in BOOLEAN
  /\ p.w % 2 = 0 /\ p.h % 2 = 0

LEMMA EvenSides ==
  ASSUME NEW p, EvenPicture(p)
  PROVE  /\ p.w \div 2 \in Nat \ {0} /\ p.w = 2 * (p.w \div 2)
         /\ p.h \div 2 \in Nat \ {0} /\ p.h = 2 * (p.h \div 2)
         /\ p.w \in Nat \ {0} /\ p.h \in Nat \ {0}
         /\ Pitch(p) \in Nat \ {0} /\ p.w <= Pitch(p)
<1>1. p.w \in Nat \ {0} /\ p.h \in Nat \ {0} /\ p.pad \in Nat /\ p.w % 2 = 0 /\ p.h % 2 = 0
  BY DEF EvenPicture, IsSide
<1>2. \A n \in Nat \ {0} : n % 2 = 0 => n \div 2 \in Nat \ {0} /\ n = 2 * (n \div 2)
  OBVIOUS
<1> QED
  BY <1>1, <1>2 DEF Pitch

(* Channel, row and column: of every pixel, and of what an NV12 picture    *)
(* has room for, where chroma comes once for four pixels.                  *)
Dots(p)  == Upto(3) \X Upto(p.h) \X Upto(p.w)
Shots(p) == {<< 0, e[1], e[2] >> : e \in Pixels(p)} \cup
            {<< ch, d[1], d[2] >> : d \in Halves(p), ch \in {1, 2}}

Line(p, s)   == IF s[1] = 0 THEN s[2] ELSE p.h + s[2]
Column(s)    == IF s[1] = 0 THEN s[3] ELSE Behind(s[3], 2, s[1] - 1)
Spot(p, s)   == Behind(Line(p, s), Pitch(p), Column(s))
SpotCount(p) == (p.h + p.h \div 2) * Pitch(p)

LEMMA ShotIs ==
  ASSUME NEW p, NEW s \in Shots(p)
  PROVE  /\ s = << s[1], s[2], s[3] >> /\ s[1] \in {0, 1, 2}
         /\ s[1] = 0 => s[2] \in Upto(p.h) /\ s[3] \in Upto(p.w)
         /\ s[1] # 0 => s[2] \in Upto(p.h \div 2) /\ s[3] \in Upto(p.w \div 2)
BY DEF Shots, Pixels, Halves

LEMMA IsShot ==
  ASSUME NEW p
  PROVE  /\ \A e \in Pixels(p) : << 0, e[1], e[2] >> \in Shots(p)
         /\ \A d \in Halves(p), ch \in {1, 2} : << ch, d[1], d[2] >> \in Shots(p)
BY DEF Shots

LEMMA SpotDigits ==
  ASSUME NEW p, EvenPicture(p), NEW s \in Shots(p)
  PROVE  /\ Line(p, s) \in Upto(p.h + p.h \div 2)
         /\ Column(s) \in Upto(p.w) /\ Column(s) \in Upto(Pitch(p))
<1>1. CASE s[1] = 0
  BY <1>1, ShotIs, EvenSides DEF Line, Column, Upto
<1>2. CASE s[1] # 0
  <2>1. s[2] \in Upto(p.h \div 2) /\ s[3] \in Upto(p.w \div 2) /\ s[1] - 1 \in Upto(2)
    BY <1>2, ShotIs DEF Upto
  <2>2. Behind(s[3], 2, s[1] - 1) \in Upto((p.w \div 2) * 2)
    BY <2>1, EvenSides, BehindIn
  <2> QED
    BY <1>2, <2>1, <2>2, EvenSides DEF Line, Column, Upto
<1> QED
  BY <1>1, <1>2

LEMMA SpotIn ==
  ASSUME NEW p, EvenPicture(p), NEW s \in Shots(p)
  PROVE  Spot(p, s) \in Upto(SpotCount(p))
<1>1. p.h + p.h \div 2 \in Nat /\ Pitch(p) \in Nat
  BY EvenSides
<1> QED
  BY <1>1, SpotDigits, BehindIn DEF Spot, SpotCount

LEMMA SpotOneToOne ==
  ASSUME NEW p, EvenPicture(p), NEW s \in Shots(p), NEW u \in Shots(p),
         Spot(p, s) = Spot(p, u)
  PROVE  s = u
<1>1. /\ Line(p, s) \in Nat /\ Line(p, u) \in Nat /\ Pitch(p) \in Nat
      /\ Column(s) \in Upto(Pitch(p)) /\ Column(u) \in Upto(Pitch(p))
  BY SpotDigits, EvenSides DEF Upto
<1>2. Line(p, s) = Line(p, u) /\ Column(s) = Column(u)
  BY <1>1, BehindOneToOne DEF Spot
<1>3. s[1] = 0 <=> u[1] = 0
  BY <1>2, ShotIs, EvenSides DEF Line, Upto
<1>4. CASE s[1] = 0
  BY <1>2, <1>3, <1>4, ShotIs DEF Line, Column
<1>5. CASE s[1] # 0
  <2>1. s[2] = u[2]
    BY <1>2, <1>3, <1>5, ShotIs, EvenSides DEF Line, Upto
  <2>2. /\ s[3] \in Nat /\ u[3] \in Nat /\ s[1] - 1 \in Upto(2) /\ u[1] - 1 \in Upto(2)
        /\ s[1] \in Nat /\ u[1] \in Nat
    BY <1>3, <1>5, ShotIs DEF Upto
  <2>3. Behind(s[3], 2, s[1] - 1) = Behind(u[3], 2, u[1] - 1)
    BY <1>2, <1>3, <1>5 DEF Column
  <2>4. s[3] = u[3] /\ s[1] - 1 = u[1] - 1
    BY <2>2, <2>3, BehindOneToOne
  <2> QED
    BY <2>1, <2>2, <2>4, ShotIs
<1> QED
  BY <1>4, <1>5

-----------------------------------------------------------------------------
(* From the planes to the network.                                         *)

ChromaIndex(p, ch, y, x) ==
  (IF ch = 1 THEN UPlane(p) ELSE VPlane(p)) + y * UvPitch(p) + x * Step(p)
Source(p, s) ==
  IF s[1] = 0 THEN s[2] * Pitch(p) + s[3] ELSE ChromaIndex(p, s[1], s[2] \div 2, s[3] \div 2)
Dot(p, s) == Behind(Behind(s[2], p.w, s[3]), 3, s[1])

LEMMA DotIs ==
  ASSUME NEW p, NEW s \in Dots(p)
  PROVE  /\ s = << s[1], s[2], s[3] >> /\ s[1] \in Upto(3)
         /\ s[2] \in Upto(p.h) /\ s[3] \in Upto(p.w)
BY DEF Dots

LEMMA DotIn ==
  ASSUME NEW p, EvenPicture(p), NEW s \in Dots(p)
  PROVE  /\ Dot(p, s) \in Upto(3 * Plane(p))
         /\ Behind(s[2], p.w, s[3]) \in Upto(Plane(p)) /\ Plane(p) \in Nat
<1>1. p.w \in Nat /\ p.h \in Nat /\ p.h * p.w = Plane(p) /\ Plane(p) \in Nat
  BY EvenSides, Products DEF Plane
<1>2. Behind(s[2], p.w, s[3]) \in Upto(Plane(p))
  BY <1>1, DotIs, BehindIn
<1>3. Dot(p, s) \in Upto(Plane(p) * 3)
  BY <1>1, <1>2, DotIs, BehindIn DEF Dot
<1> QED
  BY <1>1, <1>2, <1>3

LEMMA DotOneToOne ==
  ASSUME NEW p, EvenPicture(p), NEW s \in Dots(p), NEW u \in Dots(p), Dot(p, s) = Dot(p, u)
  PROVE  s = u
<1>1. /\ Behind(s[2], p.w, s[3]) \in Nat /\ Behind(u[2], p.w, u[3]) \in Nat
      /\ s[2] \in Nat /\ u[2] \in Nat
  BY DotIs, DotIn, UptoNat, EvenSides
<1>2. Behind(s[2], p.w, s[3]) = Behind(u[2], p.w, u[3]) /\ s[1] = u[1]
  BY <1>1, DotIs, BehindOneToOne DEF Dot
<1>3. s[2] = u[2] /\ s[3] = u[3]
  BY <1>1, <1>2, DotIs, BehindOneToOne, EvenSides
<1> QED
  BY <1>2, <1>3, DotIs

(* Both chroma planes, side by side or one behind the other, are there.    *)
LEMMA ChromaIn ==
  ASSUME NEW p, EvenPicture(p), NEW ch \in {1, 2},
         NEW y \in Upto(p.h \div 2), NEW x \in Upto(p.w \div 2)
  PROVE  ChromaIndex(p, ch, y, x) \in Upto(Bytes(p))
<1> DEFINE rows == p.h \div 2
           luma == Pitch(p) * p.h
<1>1. /\ rows \in Nat /\ Chroma(p.h) = rows /\ p.w % 2 = 0 /\ luma \in Nat
      /\ p.w \in Nat /\ Pitch(p) \in Nat /\ p.w <= Pitch(p) /\ p.w = 2 * (p.w \div 2)
      /\ p.w \div 2 \in Nat /\ x \in Nat /\ y \in Nat /\ x < p.w \div 2
  <2>1. \A n, m \in Nat : n = 2 * m => (n + 1) \div 2 = m
    OBVIOUS
  <2>2. p.h \in Nat /\ rows \in Nat /\ p.h = 2 * rows
    BY EvenSides
  <2>3. Chroma(p.h) = rows
    BY <2>1, <2>2 DEF Chroma
  <2>4. luma \in Nat
    BY <2>2, EvenSides, Products
  <2>5. x \in Nat /\ y \in Nat /\ x < p.w \div 2
    BY EvenSides, UptoNat
  <2>6. p.w % 2 = 0
    BY DEF EvenPicture
  <2> QED
    BY <2>2, <2>3, <2>4, <2>5, <2>6, EvenSides
<1>2. CASE p.nv12
  <2>1. Behind(x, 2, ch - 1) \in Upto((p.w \div 2) * 2)
    <3>1. ch - 1 \in Upto(2) /\ 2 \in Nat
      BY DEF Upto
    <3> QED
      BY <1>1, <3>1, BehindIn
  <2>2. Behind(x, 2, ch - 1) \in Upto(Pitch(p))
    BY <1>1, <2>1 DEF Upto
  <2>3. /\ Behind(y, Pitch(p), Behind(x, 2, ch - 1)) \in Upto(rows * Pitch(p))
        /\ rows * Pitch(p) \in Nat
    BY <1>1, <2>2, BehindIn
  <2>4. /\ UvPitch(p) = Pitch(p) /\ Step(p) = 2 /\ UPlane(p) = luma
        /\ VPlane(p) = luma + 1
    BY <1>2 DEF UvPitch, Step, UPlane, VPlane
  <2>5. ChromaIndex(p, ch, y, x) = luma + Behind(y, Pitch(p), Behind(x, 2, ch - 1))
    <3>1. y * Pitch(p) \in Nat
      BY <1>1, Products
    <3>2. \A l, a, b \in Nat :
            (IF ch = 1 THEN l ELSE l + 1) + a + b * 2 = l + (a + (b * 2 + (ch - 1)))
      OBVIOUS
    <3> HIDE DEF rows, luma
    <3>3. ChromaIndex(p, ch, y, x)
            = (IF ch = 1 THEN luma ELSE luma + 1) + y * Pitch(p) + x * 2
      BY <2>4 DEF ChromaIndex
    <3>4. Behind(y, Pitch(p), Behind(x, 2, ch - 1)) = y * Pitch(p) + (x * 2 + (ch - 1))
      BY DEF Behind
    <3> QED
      BY <1>1, <3>1, <3>2, <3>3, <3>4
  <2>6. Bytes(p) = luma + rows * Pitch(p)
    <3>1. Bytes(p) = luma + 1 * Pitch(p) * rows + 0
      BY <1>1, <1>2, <2>4 DEF Bytes
    <3>2. 1 * Pitch(p) * rows = rows * Pitch(p)
      BY <1>1
    <3> QED
      BY <1>1, <2>3, <3>1, <3>2
  <2> HIDE DEF rows, luma
  <2> QED
    BY <1>1, <2>3, <2>5, <2>6 DEF Upto
<1>3. CASE ~p.nv12
  <2> DEFINE uv == Chroma(Pitch(p))
  <2>1. uv \in Nat /\ x \in Upto(uv)
    BY <1>1 DEF Chroma, Upto
  <2>2. Behind(y, uv, x) \in Upto(rows * uv) /\ rows * uv \in Nat
    BY <1>1, <2>1, BehindIn
  <2>3. /\ UvPitch(p) = uv /\ Step(p) = 1 /\ UPlane(p) = luma
        /\ VPlane(p) = luma + uv * rows
    BY <1>1, <1>3 DEF UvPitch, Step, UPlane, VPlane
  <2>4. uv * rows = rows * uv
    BY <1>1, <2>1
  <2>5. ChromaIndex(p, ch, y, x)
          = luma + (IF ch = 1 THEN 0 ELSE rows * uv) + Behind(y, uv, x)
    <3>1. y * uv \in Nat
      BY <1>1, <2>1, Products
    <3> HIDE DEF uv, rows, luma
    <3> QED
      BY <1>1, <2>1, <2>2, <2>3, <2>4, <3>1 DEF ChromaIndex, Behind
  <2>6. Bytes(p) = luma + 2 * (rows * uv)
    <3>1. Bytes(p) = luma + 2 * uv * rows + 0
      BY <1>1, <1>3, <2>3 DEF Bytes
    <3>2. 2 * uv * rows = 2 * (rows * uv)
      BY <1>1, <2>1
    <3> HIDE DEF uv, rows, luma
    <3> QED
      BY <1>1, <2>2, <3>1, <3>2
  <2> HIDE DEF uv, rows, luma
  <2> QED
    BY <1>1, <2>2, <2>5, <2>6 DEF Upto
<1> QED
  BY <1>2, <1>3

LEMMA HalvesOf ==
  ASSUME NEW p, EvenPicture(p), NEW y \in Upto(p.h), NEW x \in Upto(p.w)
  PROVE  y \div 2 \in Upto(p.h \div 2) /\ x \div 2 \in Upto(p.w \div 2)
BY EvenSides DEF Upto

LEMMA SourceIn ==
  ASSUME NEW p, EvenPicture(p), NEW s \in Dots(p)
  PROVE  Source(p, s) \in Upto(Bytes(p))
<1>1. CASE s[1] = 0
  <2>1. /\ Pitch(p) \in Nat /\ p.h \in Nat /\ s[2] \in Upto(p.h) /\ s[3] \in Upto(Pitch(p))
    BY DotIs, EvenSides DEF Upto
  <2>2. Behind(s[2], Pitch(p), s[3]) \in Upto(p.h * Pitch(p)) /\ p.h * Pitch(p) \in Nat
    BY <2>1, BehindIn
  <2>3. UvPitch(p) \in Nat /\ Chroma(p.h) \in Nat /\ p.w % 2 = 0 /\ p.nv12 \in BOOLEAN
    BY <2>1 DEF UvPitch, Chroma, EvenPicture
  <2>4. UvPitch(p) * Chroma(p.h) \in Nat
    BY <2>3, Products
  <2> DEFINE chroma == UvPitch(p) * Chroma(p.h)
  <2>5. Bytes(p) = p.h * Pitch(p) + (IF p.nv12 THEN chroma ELSE 2 * chroma)
    <3>1. Pitch(p) * p.h = p.h * Pitch(p)
      BY <2>1
    <3>2. 1 * UvPitch(p) * Chroma(p.h) = chroma /\ 2 * UvPitch(p) * Chroma(p.h) = 2 * chroma
      BY <2>3
    <3> HIDE DEF chroma
    <3> QED
      BY <2>2, <2>3, <2>4, <3>1, <3>2 DEF Bytes, chroma
  <2>6. Source(p, s) = Behind(s[2], Pitch(p), s[3])
    BY <1>1 DEF Source, Behind
  <2> HIDE DEF chroma
  <2> QED
    BY <2>2, <2>4, <2>5, <2>6 DEF Upto, chroma
<1>2. CASE s[1] # 0
  <2>1. s[1] \in {1, 2}
    BY <1>2, DotIs DEF Upto
  <2> QED
    BY <1>2, <2>1, DotIs, HalvesOf, ChromaIn DEF Source
<1> QED
  BY <1>1, <1>2

-----------------------------------------------------------------------------
(* Through the network and back.                                           *)

LEMMA YuvStores ==
  ASSUME NEW p, EvenPicture(p)
  PROVE  YuvToNhwc(p) = Stores(Dots(p), [s \in Dots(p) |-> Dot(p, s)],
                                        [s \in Dots(p) |-> Source(p, s)])
<1> DEFINE stores == {<< Dot(p, s), Source(p, s) >> : s \in Dots(p)}
           uv(e) == (e[1] \div 2) * UvPitch(p) + (e[2] \div 2) * Step(p)
           of(e) == {<< (e[1] * p.w + e[2]) * 3, e[1] * Pitch(p) + e[2] >>,
                     << (e[1] * p.w + e[2]) * 3 + 1, UPlane(p) + uv(e) >>,
                     << (e[1] * p.w + e[2]) * 3 + 2, VPlane(p) + uv(e) >>}
<1>1. Stores(Dots(p), [s \in Dots(p) |-> Dot(p, s)], [s \in Dots(p) |-> Source(p, s)]) = stores
  BY DEF Stores
<1>2. YuvToNhwc(p) = UNION {of(e) : e \in Pixels(p)}
  BY DEF YuvToNhwc
<1>3. ASSUME NEW e \in Pixels(p)
      PROVE  /\ \A ch \in Upto(3) : << ch, e[1], e[2] >> \in Dots(p)
             /\ of(e) = {<< Dot(p, << ch, e[1], e[2] >>), Source(p, << ch, e[1], e[2] >>) >> :
                           ch \in Upto(3)}
  <2>1. /\ e[1] \in Upto(p.h) /\ e[2] \in Upto(p.w)
        /\ e[1] \in Nat /\ e[2] \in Nat /\ Upto(3) = {0, 1, 2}
    BY EvenSides DEF Pixels, Upto
  <2>2. e[1] * p.w + e[2] \in Nat
    BY <2>1, EvenSides, Products
  <2>3. \A ch \in Upto(3) : Dot(p, << ch, e[1], e[2] >>) = (e[1] * p.w + e[2]) * 3 + ch
    BY DEF Dot, Behind
  <2>4. Dot(p, << 0, e[1], e[2] >>) = (e[1] * p.w + e[2]) * 3
    BY <2>1, <2>2, <2>3
  <2>5. Source(p, << 0, e[1], e[2] >>) = e[1] * Pitch(p) + e[2]
    BY DEF Source
  <2>6. /\ Source(p, << 1, e[1], e[2] >>) = ChromaIndex(p, 1, e[1] \div 2, e[2] \div 2)
        /\ Source(p, << 2, e[1], e[2] >>) = ChromaIndex(p, 2, e[1] \div 2, e[2] \div 2)
    BY DEF Source
  <2>7. UPlane(p) \in Int /\ VPlane(p) \in Int /\ UvPitch(p) \in Int /\ Step(p) \in Int
    <3>1. /\ Pitch(p) \in Nat /\ p.h \in Nat
      BY EvenSides
    <3>2. Chroma(Pitch(p)) \in Int /\ Chroma(p.h) \in Int
      BY <3>1 DEF Chroma
    <3>3. UvPitch(p) \in Int
      BY <3>1, <3>2 DEF UvPitch
    <3>4. UPlane(p) \in Int /\ UvPitch(p) * Chroma(p.h) \in Int
      BY <3>1, <3>2, <3>3 DEF UPlane
    <3> QED
      BY <3>3, <3>4 DEF VPlane, Step
  <2>8. e[1] \div 2 \in Int /\ e[2] \div 2 \in Int
    BY <2>1
  <2>9. \A l, a, b \in Int : l + a + b = l + (a + b)
    OBVIOUS
  <2>10. /\ (e[1] \div 2) * UvPitch(p) \in Int /\ (e[2] \div 2) * Step(p) \in Int
    BY <2>7, <2>8
  <2>11. /\ Source(p, << 1, e[1], e[2] >>) = UPlane(p) + uv(e)
         /\ Source(p, << 2, e[1], e[2] >>) = VPlane(p) + uv(e)
    BY <2>6, <2>7, <2>9, <2>10 DEF ChromaIndex
  <2>12. \A ch \in Upto(3) : << ch, e[1], e[2] >> \in Dots(p)
    BY <2>1 DEF Dots
  <2> QED
    BY <2>1, <2>3, <2>4, <2>5, <2>11, <2>12
<1>4. \A s \in Dots(p) : << s[2], s[3] >> \in Pixels(p) /\ s[1] \in Upto(3)
                         /\ s = << s[1], s[2], s[3] >>
  BY DotIs DEF Pixels
<1> HIDE DEF of
<1>5. ASSUME NEW e \in Pixels(p), NEW t \in of(e)
      PROVE  t \in stores
  <2>1. PICK ch \in Upto(3) :
          t = << Dot(p, << ch, e[1], e[2] >>), Source(p, << ch, e[1], e[2] >>) >>
    BY <1>3, <1>5
  <2> QED
    BY <1>3, <2>1
<1>6. ASSUME NEW s \in Dots(p)
      PROVE  << Dot(p, s), Source(p, s) >> \in UNION {of(e) : e \in Pixels(p)}
  <2>1. << Dot(p, s), Source(p, s) >> \in of(<< s[2], s[3] >>)
    <3> DEFINE e == << s[2], s[3] >>
    <3>1. e \in Pixels(p) /\ s[1] \in Upto(3) /\ s = << s[1], e[1], e[2] >>
      BY <1>4
    <3>2. of(e) = {<< Dot(p, << ch, e[1], e[2] >>), Source(p, << ch, e[1], e[2] >>) >> :
                     ch \in Upto(3)}
      BY <1>3, <3>1
    <3> HIDE DEF e
    <3>3. << Dot(p, << s[1], e[1], e[2] >>), Source(p, << s[1], e[1], e[2] >>) >> \in of(e)
      BY <3>1, <3>2
    <3> QED
      BY <3>1, <3>3 DEF e
  <2> QED
    BY <1>4, <2>1
<1> QED
  BY <1>1, <1>2, <1>5, <1>6

LEMMA YuvMoved ==
  ASSUME NEW p, EvenPicture(p), NEW s \in Dots(p)
  PROVE  Moved(YuvToNhwc(p), 3 * Plane(p), Blank)[Dot(p, s)] = buf[Source(p, s)]
<1> DEFINE to   == [d \in Dots(p) |-> Dot(p, d)]
           from == [d \in Dots(p) |-> Source(p, d)]
           n    == 3 * Plane(p)
<1>1. \A d \in Dots(p) : to[d] \in Upto(n)
  BY DotIn
<1>2. \A d, f \in Dots(p) : to[d] = to[f] => from[d] = from[f]
  BY DotOneToOne
<1>3. to[s] = Dot(p, s) /\ from[s] = Source(p, s)
  OBVIOUS
<1>4. YuvToNhwc(p) = Stores(Dots(p), to, from)
  BY YuvStores
<1> HIDE DEF to, from, n
<1>5. Moved(Stores(Dots(p), to, from), n, Blank)[to[s]] = buf[from[s]]
  BY <1>1, <1>2, MovedEach
<1> QED
  BY <1>3, <1>4, <1>5 DEF n

(* The pixel a sample of an NV12 picture comes from, the first of four for *)
(* chroma.                                                                 *)
Pixel(s) == IF s[1] = 0 THEN << s[2], s[3] >> ELSE << 2 * s[2], 2 * s[3] >>
Shown(s) == << s[1], Pixel(s)[1], Pixel(s)[2] >>

LEMMA ShownIn ==
  ASSUME NEW p, EvenPicture(p), NEW s \in Shots(p)
  PROVE  Shown(s) \in Dots(p)
<1>1. s[1] \in Upto(3)
  BY ShotIs DEF Upto
<1>2. CASE s[1] = 0
  BY <1>1, <1>2, ShotIs DEF Shown, Pixel, Dots
<1>3. CASE s[1] # 0
  <2>1. s[2] \in Upto(p.h \div 2) /\ s[3] \in Upto(p.w \div 2)
    BY <1>3, ShotIs
  <2>2. 2 * s[2] \in Upto(p.h) /\ 2 * s[3] \in Upto(p.w)
    BY <2>1, EvenSides DEF Upto
  <2> QED
    BY <1>1, <1>3, <2>2 DEF Shown, Pixel, Dots
<1> QED
  BY <1>2, <1>3

LEMMA Nv12Stores ==
  ASSUME NEW p, EvenPicture(p)
  PROVE  /\ ToNv12(p, FromBlock)
              = Stores(Shots(p), [s \in Shots(p) |-> Spot(p, s)],
                                 [s \in Shots(p) |-> FromBlock(p, s[1], Pixel(s))])
         /\ ToNv12(p, FromNchw)
              = Stores(Shots(p), [s \in Shots(p) |-> Spot(p, s)],
                                 [s \in Shots(p) |-> FromNchw(p, s[1], Pixel(s))])
<1>1. ASSUME NEW e \in Pixels(p)
      PROVE  /\ << 0, e[1], e[2] >> \in Shots(p)
             /\ Spot(p, << 0, e[1], e[2] >>) = e[1] * Pitch(p) + e[2]
             /\ Pixel(<< 0, e[1], e[2] >>) = e
  BY IsShot DEF Spot, Line, Column, Behind, Pixel, Pixels
<1>2. ASSUME NEW d \in Halves(p), NEW ch \in {1, 2}
      PROVE  /\ << ch, d[1], d[2] >> \in Shots(p)
             /\ Spot(p, << ch, d[1], d[2] >>)
                  = UPlane(p) + d[1] * Pitch(p) + 2 * d[2] + ch - 1
             /\ Pixel(<< ch, d[1], d[2] >>) = << 2 * d[1], 2 * d[2] >>
  <2>1. Spot(p, << ch, d[1], d[2] >>) = (p.h + d[1]) * Pitch(p) + (d[2] * 2 + (ch - 1))
    BY DEF Spot, Line, Column, Behind
  <2>2. d[1] \in Nat /\ d[2] \in Nat /\ Pitch(p) \in Nat /\ p.h \in Nat
    BY EvenSides DEF Halves, Upto
  <2>3. d[1] * Pitch(p) \in Nat /\ Pitch(p) * p.h \in Nat
        /\ (p.h + d[1]) * Pitch(p) = Pitch(p) * p.h + d[1] * Pitch(p)
    BY <2>2, Products
  <2>4. UPlane(p) = Pitch(p) * p.h
    BY DEF UPlane
  <2>5. Pixel(<< ch, d[1], d[2] >>) = << 2 * d[1], 2 * d[2] >>
    BY DEF Pixel
  <2> QED
    <3>1. \A l, a, b \in Nat : (l + a) + (b * 2 + (ch - 1)) = l + a + 2 * b + ch - 1
      OBVIOUS
    <3>2. Spot(p, << ch, d[1], d[2] >>) = UPlane(p) + d[1] * Pitch(p) + 2 * d[2] + ch - 1
      BY <2>1, <2>2, <2>3, <2>4, <3>1
    <3> QED
      BY <2>5, <3>2, IsShot
<1>3. ASSUME NEW s \in Shots(p)
      PROVE  \/ \E e \in Pixels(p) : s = << 0, e[1], e[2] >>
             \/ \E d \in Halves(p), ch \in {1, 2} : s = << ch, d[1], d[2] >>
  BY DEF Shots
<1>4. ToNv12(p, FromBlock) = {<< Spot(p, s), FromBlock(p, s[1], Pixel(s)) >> : s \in Shots(p)}
  <2> DEFINE Dark(e) == << e[1] * Pitch(p) + e[2], FromBlock(p, 0, e) >>
             Tint(d, ch) == << UPlane(p) + d[1] * Pitch(p) + 2 * d[2] + ch - 1,
                               FromBlock(p, ch, << 2 * d[1], 2 * d[2] >>) >>
             One(s) == << Spot(p, s), FromBlock(p, s[1], Pixel(s)) >>
  <2>1. ToNv12(p, FromBlock)
          = {Dark(e) : e \in Pixels(p)} \cup {Tint(d, ch) : d \in Halves(p), ch \in {1, 2}}
    BY DEF ToNv12
  <2>2. \A e \in Pixels(p) : Dark(e) = One(<< 0, e[1], e[2] >>)
    BY <1>1
  <2>3. \A d \in Halves(p), ch \in {1, 2} : Tint(d, ch) = One(<< ch, d[1], d[2] >>)
    BY <1>2
  <2> HIDE DEF Dark, Tint, One
  <2>4. ASSUME NEW u \in ToNv12(p, FromBlock)
        PROVE  \E s \in Shots(p) : u = One(s)
    <3>1. CASE \E e \in Pixels(p) : u = Dark(e)
      BY <1>1, <2>2, <3>1
    <3>2. CASE \E d \in Halves(p), ch \in {1, 2} : u = Tint(d, ch)
      BY <1>2, <2>3, <3>2
    <3> QED
      BY <2>1, <3>1, <3>2
  <2>5. ASSUME NEW s \in Shots(p), NEW u, u = One(s)
        PROVE  u \in ToNv12(p, FromBlock)
    <3>1. CASE \E e \in Pixels(p) : s = << 0, e[1], e[2] >>
      BY <2>1, <2>2, <2>5, <3>1
    <3>2. CASE \E d \in Halves(p), ch \in {1, 2} : s = << ch, d[1], d[2] >>
      <4>1. PICK d \in Halves(p), ch \in {1, 2} : s = << ch, d[1], d[2] >>
        BY <3>2
      <4>2. u = Tint(d, ch)
        BY <2>3, <2>5, <4>1
      <4> QED
        BY <2>1, <4>2
    <3> QED
      BY <1>3, <3>1, <3>2
  <2>6. ToNv12(p, FromBlock) = {One(s) : s \in Shots(p)}
    BY <2>4, <2>5
  <2> QED
    BY <2>6 DEF One
<1>5. ToNv12(p, FromNchw) = {<< Spot(p, s), FromNchw(p, s[1], Pixel(s)) >> : s \in Shots(p)}
  <2> DEFINE Dark(e) == << e[1] * Pitch(p) + e[2], FromNchw(p, 0, e) >>
             Tint(d, ch) == << UPlane(p) + d[1] * Pitch(p) + 2 * d[2] + ch - 1,
                               FromNchw(p, ch, << 2 * d[1], 2 * d[2] >>) >>
             One(s) == << Spot(p, s), FromNchw(p, s[1], Pixel(s)) >>
  <2>1. ToNv12(p, FromNchw)
          = {Dark(e) : e \in Pixels(p)} \cup {Tint(d, ch) : d \in Halves(p), ch \in {1, 2}}
    BY DEF ToNv12
  <2>2. \A e \in Pixels(p) : Dark(e) = One(<< 0, e[1], e[2] >>)
    BY <1>1
  <2>3. \A d \in Halves(p), ch \in {1, 2} : Tint(d, ch) = One(<< ch, d[1], d[2] >>)
    BY <1>2
  <2> HIDE DEF Dark, Tint, One
  <2>4. ASSUME NEW u \in ToNv12(p, FromNchw)
        PROVE  \E s \in Shots(p) : u = One(s)
    <3>1. CASE \E e \in Pixels(p) : u = Dark(e)
      BY <1>1, <2>2, <3>1
    <3>2. CASE \E d \in Halves(p), ch \in {1, 2} : u = Tint(d, ch)
      BY <1>2, <2>3, <3>2
    <3> QED
      BY <2>1, <3>1, <3>2
  <2>5. ASSUME NEW s \in Shots(p), NEW u, u = One(s)
        PROVE  u \in ToNv12(p, FromNchw)
    <3>1. CASE \E e \in Pixels(p) : s = << 0, e[1], e[2] >>
      BY <2>1, <2>2, <2>5, <3>1
    <3>2. CASE \E d \in Halves(p), ch \in {1, 2} : s = << ch, d[1], d[2] >>
      <4>1. PICK d \in Halves(p), ch \in {1, 2} : s = << ch, d[1], d[2] >>
        BY <3>2
      <4>2. u = Tint(d, ch)
        BY <2>3, <2>5, <4>1
      <4> QED
        BY <2>1, <4>2
    <3> QED
      BY <1>3, <3>1, <3>2
  <2>6. ToNv12(p, FromNchw) = {One(s) : s \in Shots(p)}
    BY <2>4, <2>5
  <2> QED
    BY <2>6 DEF One
<1> QED
  BY <1>4, <1>5 DEF Stores

LEMMA Nv12Moved ==
  ASSUME NEW p, EvenPicture(p), NEW n, n = SpotCount(p), NEW s \in Shots(p)
  PROVE  /\ Moved(ToNv12(p, FromBlock), n, Blank)[Spot(p, s)]
              = buf[FromBlock(p, s[1], Pixel(s))]
         /\ Moved(ToNv12(p, FromNchw), n, Blank)[Spot(p, s)]
              = buf[FromNchw(p, s[1], Pixel(s))]
<1> DEFINE to      == [d \in Shots(p) |-> Spot(p, d)]
           blocked == [d \in Shots(p) |-> FromBlock(p, d[1], Pixel(d))]
           planar  == [d \in Shots(p) |-> FromNchw(p, d[1], Pixel(d))]
<1>1. \A d \in Shots(p) : to[d] \in Upto(n)
  BY SpotIn
<1>2. \A d, f \in Shots(p) :
        to[d] = to[f] => blocked[d] = blocked[f] /\ planar[d] = planar[f]
  BY SpotOneToOne
<1>3. /\ to[s] = Spot(p, s) /\ blocked[s] = FromBlock(p, s[1], Pixel(s))
      /\ planar[s] = FromNchw(p, s[1], Pixel(s))
  OBVIOUS
<1>4. /\ ToNv12(p, FromBlock) = Stores(Shots(p), to, blocked)
      /\ ToNv12(p, FromNchw) = Stores(Shots(p), to, planar)
  BY Nv12Stores
<1> HIDE DEF to, blocked, planar
<1>5. Moved(Stores(Shots(p), to, blocked), n, Blank)[to[s]] = buf[blocked[s]]
  BY <1>1, <1>2, MovedEach
<1>6. Moved(Stores(Shots(p), to, planar), n, Blank)[to[s]] = buf[planar[s]]
  BY <1>1, <1>2, MovedEach
<1> QED
  BY <1>3, <1>4, <1>5, <1>6

-----------------------------------------------------------------------------
(* Sums and means.                                                         *)

LEMMA LeastNumber ==
  ASSUME NEW T, T \subseteq Nat, T # {}
  PROVE  \E x \in T : \A y \in T : x <= y
<1> DEFINE less == {p \in Nat \X Nat : p[1] < p[2]}
<1>1. IsWellFoundedOn(less, Nat)
  BY NatLessThanWellFounded DEF OpToRel
<1> HIDE DEF less
<1>2. PICK x \in T : \A y \in T : ~(<< y, x >> \in less)
  BY <1>1, WFMin
<1>3. ASSUME NEW y \in T PROVE x <= y
  <2>1. ~(<< y, x >> \in less) /\ x \in Nat /\ y \in Nat
    BY <1>2
  <2> QED
    BY <2>1 DEF less
<1> QED
  BY <1>3

AnyOf(S)   == CHOOSE a \in S : TRUE
Without(S) == S \ {AnyOf(S)}
Added(g, S) == IF S = {} THEN 0 ELSE buf[AnyOf(S)] + g[Without(S)]
SumsUp(from, g) == g = [S \in SUBSET from |-> Added(g, S)]

LEMMA WithoutIs ==
  ASSUME NEW from, IsFiniteSet(from), NEW S \in SUBSET from, S # {}
  PROVE  /\ AnyOf(S) \in S /\ Without(S) \in SUBSET from
         /\ Cardinality(S) \in Nat \ {0} /\ Cardinality(Without(S)) = Cardinality(S) - 1
         /\ IsFiniteSet(S)
<1>1. IsFiniteSet(S)
  BY FS_Subset
<1>2. AnyOf(S) \in S
  BY DEF AnyOf
<1>3. Cardinality(S) \in Nat \ {0}
  BY <1>1, FS_CardinalityType, FS_EmptySet
<1>4. Cardinality(Without(S)) = Cardinality(S) - 1
  BY <1>1, <1>2, FS_RemoveElement DEF Without
<1> QED
  BY <1>1, <1>2, <1>3, <1>4 DEF Without

(* The recursion of Sum defines a function: as far as sets of n elements.  *)
SumsTo(from, n, g) == \A S \in SUBSET from : Cardinality(S) <= n => g[S] = Added(g, S)

LEMMA SumsExist ==
  ASSUME NEW from, IsFiniteSet(from), NEW n \in Nat
  PROVE  \E g : SumsTo(from, n, g)
<1> DEFINE bad == {m \in Nat : ~ \E g : SumsTo(from, m, g)}
<1>1. SUFFICES ASSUME bad # {} PROVE FALSE
  OBVIOUS
<1>2. PICK m \in bad : \A i \in bad : m <= i
  BY <1>1, LeastNumber
<1>3. m \in Nat /\ ~ \E g : SumsTo(from, m, g)
  BY <1>2
<1>4. CASE m = 0
  <2> DEFINE g == [S \in SUBSET from |-> 0]
  <2>1. \A S \in SUBSET from : Cardinality(S) <= 0 => S = {}
    BY WithoutIs
  <2>2. SumsTo(from, 0, g)
    BY <2>1 DEF SumsTo, Added
  <2> QED
    BY <1>3, <1>4, <2>2
<1>5. CASE m # 0
  <2>1. m - 1 \in Nat /\ m - 1 \notin bad
    BY <1>2, <1>3, <1>5
  <2>2. PICK g : SumsTo(from, m - 1, g)
    BY <2>1
  <2> DEFINE h == [S \in SUBSET from |-> IF Cardinality(S) <= m - 1 THEN g[S] ELSE Added(g, S)]
  <2>3. ASSUME NEW S \in SUBSET from, Cardinality(S) <= m
        PROVE  h[S] = Added(h, S)
    <3>1. h[S] = Added(g, S)
      BY <2>2 DEF SumsTo
    <3>2. CASE S = {}
      BY <3>1, <3>2 DEF Added
    <3>3. CASE S # {}
      <4>1. Without(S) \in SUBSET from /\ Cardinality(Without(S)) <= m - 1
        BY <1>3, <2>3, <3>3, WithoutIs
      <4>2. h[Without(S)] = g[Without(S)]
        BY <4>1
      <4> QED
        BY <3>1, <4>2 DEF Added
    <3> QED
      BY <3>2, <3>3
  <2> HIDE DEF h
  <2>4. SumsTo(from, m, h)
    BY <2>3 DEF SumsTo
  <2> QED
    BY <1>3, <2>4
<1> QED
  BY <1>4, <1>5

LEMMA SumIs ==
  ASSUME NEW from, IsFiniteSet(from)
  PROVE  \E g : SumsUp(from, g) /\ Sum(from) = g[from]
<1> DEFINE n == Cardinality(from)
<1>1. n \in Nat
  BY FS_CardinalityType
<1>2. PICK g : SumsTo(from, n, g)
  BY <1>1, SumsExist
<1> DEFINE h == [S \in SUBSET from |-> g[S]]
<1>3. ASSUME NEW S \in SUBSET from
      PROVE  h[S] = Added(h, S)
  <2>1. Cardinality(S) <= n
    BY FS_Subset
  <2>2. h[S] = Added(g, S)
    BY <1>2, <2>1 DEF SumsTo
  <2>3. S # {} => h[Without(S)] = g[Without(S)]
    BY WithoutIs
  <2> QED
    BY <2>2, <2>3 DEF Added
<1>4. h = [S \in SUBSET from |-> h[S]]
  OBVIOUS
<1> HIDE DEF h
<1>5. SumsUp(from, h)
  BY <1>3, <1>4 DEF SumsUp
<1> DEFINE sum == CHOOSE f : SumsUp(from, f)
<1>6. SumsUp(from, sum)
  BY <1>5
<1>7. Sum(from) = sum[from]
  BY DEF Sum, SumsUp, Added, AnyOf, Without
<1> HIDE DEF sum
<1> QED
  BY <1>6, <1>7

LEMMA SumAt ==
  ASSUME NEW from, NEW g, SumsUp(from, g), NEW S \in SUBSET from
  PROVE  g[S] = Added(g, S)
<1>1. g = [T \in SUBSET from |-> Added(g, T)]
  BY DEF SumsUp
<1> DEFINE h == [T \in SUBSET from |-> Added(g, T)]
<1>2. h[S] = Added(g, S)
  OBVIOUS
<1>3. g = h
  BY <1>1
<1> HIDE DEF h
<1> QED
  BY <1>2, <1>3

LEMMA SumNatural ==
  ASSUME NEW from, IsFiniteSet(from), \A a \in from : buf[a] \in Nat
  PROVE  Sum(from) \in Nat
<1>1. PICK g : SumsUp(from, g) /\ Sum(from) = g[from]
  BY SumIs
<1> DEFINE bad == {Cardinality(S) : S \in {T \in SUBSET from : g[T] \notin Nat}}
<1>2. SUFFICES ASSUME g[from] \notin Nat PROVE FALSE
  BY <1>1
<1>3. bad \subseteq Nat /\ bad # {}
  BY <1>2, FS_Subset, FS_CardinalityType
<1>4. PICK m \in bad : \A i \in bad : m <= i
  BY <1>3, LeastNumber
<1>5. PICK S \in SUBSET from : g[S] \notin Nat /\ m = Cardinality(S)
  BY <1>4
<1>6. g[S] = Added(g, S)
  BY <1>1, SumAt
<1>7. CASE S = {}
  BY <1>5, <1>6, <1>7 DEF Added
<1>8. CASE S # {}
  <2>1. /\ AnyOf(S) \in S /\ Without(S) \in SUBSET from
        /\ m \in Nat /\ Cardinality(Without(S)) = m - 1
    BY <1>5, <1>8, WithoutIs
  <2>2. g[Without(S)] \in Nat
    BY <1>4, <2>1
  <2>3. buf[AnyOf(S)] \in Nat
    BY <2>1
  <2>4. g[S] = buf[AnyOf(S)] + g[Without(S)]
    BY <1>6, <1>8 DEF Added
  <2> QED
    BY <1>5, <2>2, <2>3, <2>4
<1> QED
  BY <1>7, <1>8

LEMMA MeanNatural ==
  ASSUME NEW from, IsFiniteSet(from), from # {}, \A a \in from : buf[a] \in Nat
  PROVE  Mean(from) \in Nat
<1>1. Cardinality(from) \in Nat \ {0}
  BY FS_CardinalityType, FS_EmptySet
<1>2. Sum(from) \in Nat
  BY SumNatural
<1> QED
  BY <1>1, <1>2 DEF Mean

(* The mean of one, and of four.                                           *)
LEMMA MeanOfOne ==
  ASSUME NEW a, buf[a] \in Nat
  PROVE  Mean({a}) = buf[a]
<1>1. IsFiniteSet({a}) /\ Cardinality({a}) = 1
  BY FS_Singleton
<1>2. PICK g : SumsUp({a}, g) /\ Sum({a}) = g[{a}]
  BY <1>1, SumIs
<1>3. AnyOf({a}) = a /\ Without({a}) = {}
  BY DEF AnyOf, Without
<1>4. g[{a}] = buf[a] + g[{}] /\ g[{}] = 0
  <2>1. g[{a}] = Added(g, {a}) /\ g[{}] = Added(g, {})
    BY <1>2, SumAt
  <2> QED
    BY <1>3, <2>1 DEF Added
<1> QED
  BY <1>1, <1>2, <1>4 DEF Mean

Grown(S, x, n) == IsFiniteSet(S \cup {x}) /\ Cardinality(S \cup {x}) = n + 1

LEMMA OneMore ==
  ASSUME NEW S, IsFiniteSet(S), NEW x, x \notin S, NEW n, Cardinality(S) = n
  PROVE  Grown(S, x, n)
BY FS_AddElement DEF Grown

MeanIsOfFour(a, b, c, d) ==
  Mean({a, b, c, d}) = (buf[a] + buf[b] + buf[c] + buf[d] + 2) \div 4

LEMMA MeanOfFour ==
  ASSUME NEW a, NEW b, NEW c, NEW d, a # b, a # c, a # d, b # c, b # d, c # d,
         buf[a] \in Int, buf[b] \in Int, buf[c] \in Int, buf[d] \in Int
  PROVE  MeanIsOfFour(a, b, c, d)
<1> DEFINE from == {a, b, c, d}
<1>1. IsFiniteSet(from) /\ Cardinality(from) = 4
  <2>1. IsFiniteSet({a}) /\ Cardinality({a}) = 1
    BY FS_Singleton
  <2> DEFINE S1 == {a}
             S2 == S1 \cup {b}
             S3 == S2 \cup {c}
             S4 == S3 \cup {d}
  <2>2. b \notin S1 /\ c \notin S2 /\ d \notin S3
    OBVIOUS
  <2>3. S4 = from
    OBVIOUS
  <2>4. IsFiniteSet(S1) /\ Cardinality(S1) = 1
    BY <2>1
  <2> HIDE DEF S1
  <2>5. IsFiniteSet(S2) /\ Cardinality(S2) = 2
    <3>1. Grown(S1, b, 1)
      <4> HIDE DEF S2
      <4> QED
        BY <2>2, <2>4, OneMore
    <3> QED
      BY <3>1 DEF Grown
  <2> HIDE DEF S2
  <2>6. IsFiniteSet(S3) /\ Cardinality(S3) = 3
    <3>1. Grown(S2, c, 2)
      <4> HIDE DEF S3
      <4> QED
        BY <2>2, <2>5, OneMore
    <3> QED
      BY <3>1 DEF Grown
  <2> HIDE DEF S3
  <2>7. IsFiniteSet(S4) /\ Cardinality(S4) = 4
    <3>1. Grown(S3, d, 3)
      <4> HIDE DEF S4
      <4> QED
        BY <2>2, <2>6, OneMore
    <3> QED
      BY <3>1 DEF Grown
  <2> HIDE DEF S4
  <2> QED
    BY <2>3, <2>7
<1>2. PICK g : SumsUp(from, g) /\ Sum(from) = g[from]
  BY <1>1, SumIs
<1>3. ASSUME NEW S \in SUBSET from, S # {}
      PROVE  \E x \in S : g[S] = buf[x] + g[S \ {x}]
  <2>1. g[S] = Added(g, S)
    BY <1>2, SumAt
  <2>2. g[S] = buf[AnyOf(S)] + g[S \ {AnyOf(S)}]
    BY <1>3, <2>1 DEF Added, Without
  <2>3. AnyOf(S) \in S
    BY <1>3 DEF AnyOf
  <2> QED
    BY <2>2, <2>3
<1>4. g[{}] = 0
  BY <1>2, SumAt DEF Added
<1>5. ASSUME NEW x \in from
      PROVE  g[{x}] = buf[x] /\ buf[x] \in Int
  <2>1. g[{x}] = buf[x] + g[{x} \ {x}]
    BY <1>3
  <2>2. {x} \ {x} = {}
    OBVIOUS
  <2>3. buf[x] \in Int
    OBVIOUS
  <2>4. g[{x} \ {x}] = 0
    BY <1>4, <2>2
  <2> QED
    BY <2>1, <2>3, <2>4
<1>6. ASSUME NEW x \in from, NEW y \in from, x # y
      PROVE  g[{x, y}] = buf[x] + buf[y]
  <2>1. PICK z \in {x, y} : g[{x, y}] = buf[z] + g[{x, y} \ {z}]
    BY <1>3
  <2>2. {x, y} \ {x} = {y} /\ {x, y} \ {y} = {x}
    BY <1>6
  <2>3. g[{x}] = buf[x] /\ g[{y}] = buf[y] /\ buf[x] \in Int /\ buf[y] \in Int
    BY <1>5
  <2>4. z = x => g[{x, y} \ {z}] = buf[y]
    BY <2>2, <2>3
  <2>5. z = y => g[{x, y} \ {z}] = buf[x]
    BY <2>2, <2>3
  <2> QED
    BY <2>1, <2>3, <2>4, <2>5
<1>7. ASSUME NEW x \in from, NEW y \in from, NEW z \in from, x # y, x # z, y # z
      PROVE  g[{x, y, z}] = buf[x] + buf[y] + buf[z]
  <2>1. PICK w \in {x, y, z} : g[{x, y, z}] = buf[w] + g[{x, y, z} \ {w}]
    BY <1>3, ZenonT(60)
  <2>2. /\ {x, y, z} \ {x} = {y, z} /\ {x, y, z} \ {y} = {x, z}
        /\ {x, y, z} \ {z} = {x, y}
    BY <1>7
  <2>3. /\ g[{y, z}] = buf[y] + buf[z] /\ g[{x, z}] = buf[x] + buf[z]
        /\ g[{x, y}] = buf[x] + buf[y]
    BY <1>6, <1>7
  <2>4. buf[x] \in Int /\ buf[y] \in Int /\ buf[z] \in Int
    BY <1>5
  <2>5. w = x => g[{x, y, z} \ {w}] = buf[y] + buf[z]
    BY <2>2, <2>3
  <2>6. w = y => g[{x, y, z} \ {w}] = buf[x] + buf[z]
    BY <2>2, <2>3
  <2>7. w = z => g[{x, y, z} \ {w}] = buf[x] + buf[y]
    BY <2>2, <2>3
  <2> QED
    BY <2>1, <2>4, <2>5, <2>6, <2>7
<1>8. g[from] = buf[a] + buf[b] + buf[c] + buf[d]
  <2>1. PICK w \in from : g[from] = buf[w] + g[from \ {w}]
    BY <1>3
  <2>2. /\ from \ {a} = {b, c, d} /\ from \ {b} = {a, c, d}
        /\ from \ {c} = {a, b, d} /\ from \ {d} = {a, b, c}
    OBVIOUS
  <2>3. /\ g[{b, c, d}] = buf[b] + buf[c] + buf[d]
        /\ g[{a, c, d}] = buf[a] + buf[c] + buf[d]
        /\ g[{a, b, d}] = buf[a] + buf[b] + buf[d]
        /\ g[{a, b, c}] = buf[a] + buf[b] + buf[c]
    BY <1>7
  <2>4. w = a => g[from \ {w}] = buf[b] + buf[c] + buf[d]
    BY <2>2, <2>3
  <2>5. w = b => g[from \ {w}] = buf[a] + buf[c] + buf[d]
    BY <2>2, <2>3
  <2>6. w = c => g[from \ {w}] = buf[a] + buf[b] + buf[d]
    BY <2>2, <2>3
  <2>7. w = d => g[from \ {w}] = buf[a] + buf[b] + buf[c]
    BY <2>2, <2>3
  <2>8. w = a \/ w = b \/ w = c \/ w = d
    BY <2>1
  <2> HIDE DEF from
  <2> QED
    BY <2>1, <2>4, <2>5, <2>6, <2>7, <2>8
<1> HIDE DEF from
<1> QED
  BY <1>1, <1>2, <1>8 DEF Mean, MeanIsOfFour, from

-----------------------------------------------------------------------------
(* Phases.                                                                 *)

SourcesOf(stores, i) == {s[2] : s \in {t \in stores : t[1] = i}}

LEMMA MeansAt ==
  ASSUME NEW stores, NEW n, NEW i \in Upto(n)
  PROVE  Means(stores, n)[i] =
           IF SourcesOf(stores, i) = {} THEN Blank ELSE Mean(SourcesOf(stores, i))
BY DEF Means, SourcesOf

(* A cell of two by two pixels, and the phase within it.                   *)
Square(p, e)    == Behind(e[1] \div 2, p.w \div 2, e[2] \div 2)
Within(ch, e)   == Behind(ch, 4, Behind(e[1] % 2, 2, e[2] % 2))

LEMMA PhaseIs ==
  ASSUME NEW p, EvenPicture(p), NEW ch \in Upto(3), NEW e \in Pixels(p)
  PROVE  /\ Phase(p, ch, e) = Behind(Square(p, e), 12, Within(ch, e))
         /\ Square(p, e) \in Upto((p.h \div 2) * (p.w \div 2)) /\ Square(p, e) \in Nat
         /\ Within(ch, e) \in Upto(12)
         /\ Behind(e[1] % 2, 2, e[2] % 2) \in Upto(4)
         /\ e[1] % 2 \in Upto(2) /\ e[2] % 2 \in Upto(2)
<1>1. e[1] \in Upto(p.h) /\ e[2] \in Upto(p.w) /\ e[1] \in Nat /\ e[2] \in Nat
  BY DEF Pixels, Upto
<1>2. /\ e[1] \div 2 \in Upto(p.h \div 2) /\ e[2] \div 2 \in Upto(p.w \div 2)
      /\ p.h \div 2 \in Nat /\ p.w \div 2 \in Nat
  BY <1>1, HalvesOf, EvenSides
<1>3. e[1] % 2 \in Upto(2) /\ e[2] % 2 \in Upto(2)
  <2>1. \A n \in Nat : n % 2 \in Upto(2)
    BY DEF Upto
  <2> QED
    BY <1>1, <2>1
<1>4. Square(p, e) \in Upto((p.h \div 2) * (p.w \div 2)) /\ Square(p, e) \in Nat
  <2>1. /\ Square(p, e) \in Upto((p.h \div 2) * (p.w \div 2))
        /\ (p.h \div 2) * (p.w \div 2) \in Nat
    BY <1>2, BehindIn DEF Square
  <2> QED
    BY <2>1, UptoNat
<1>5. Behind(e[1] % 2, 2, e[2] % 2) \in Upto(2 * 2)
  BY <1>3, BehindIn
<1>6. Behind(e[1] % 2, 2, e[2] % 2) \in Upto(4)
  BY <1>5
<1>7. Within(ch, e) \in Upto(3 * 4)
  BY <1>6, BehindIn DEF Within
<1>8. Within(ch, e) \in Upto(12)
  BY <1>7
<1>9. Phase(p, ch, e) = Behind(Square(p, e), 12, Within(ch, e))
  <2> DEFINE c == (e[1] \div 2) * (p.w \div 2) + e[2] \div 2
  <2>1. Square(p, e) = c
    BY DEF Square, Behind
  <2>2. Within(ch, e) = ch * 4 + ((e[1] % 2) * 2 + (e[2] % 2))
    BY DEF Within, Behind
  <2>3. Phase(p, ch, e) = c * 12 + ch * 4 + (e[1] % 2) * 2 + (e[2] % 2)
    BY DEF Phase
  <2>4. \A a, b, u, v \in Nat : a * 12 + b * 4 + u * 2 + v = a * 12 + (b * 4 + (u * 2 + v))
    OBVIOUS
  <2>5. c \in Nat /\ ch \in Nat /\ e[1] % 2 \in Nat /\ e[2] % 2 \in Nat
    BY <1>3, <1>4, <2>1 DEF Upto
  <2> HIDE DEF c
  <2>6. Behind(Square(p, e), 12, Within(ch, e))
          = c * 12 + (ch * 4 + ((e[1] % 2) * 2 + (e[2] % 2)))
    BY <2>1, <2>2 DEF Behind
  <2> QED
    BY <2>3, <2>4, <2>5, <2>6
<1> QED
  BY <1>3, <1>4, <1>6, <1>8, <1>9

LEMMA PhaseOneToOne ==
  ASSUME NEW p, EvenPicture(p), NEW ch \in Upto(3), NEW e \in Pixels(p),
         NEW k \in Upto(3), NEW f \in Pixels(p), Phase(p, ch, e) = Phase(p, k, f)
  PROVE  ch = k /\ e = f
<1>1. Square(p, e) = Square(p, f) /\ Within(ch, e) = Within(k, f)
  BY PhaseIs, BehindOneToOne
<1>2. ch = k /\ Behind(e[1] % 2, 2, e[2] % 2) = Behind(f[1] % 2, 2, f[2] % 2)
  <2>1. ch \in Nat /\ k \in Nat
    BY DEF Upto
  <2>2. /\ Behind(e[1] % 2, 2, e[2] % 2) \in Upto(4)
        /\ Behind(f[1] % 2, 2, f[2] % 2) \in Upto(4)
    BY PhaseIs
  <2> DEFINE u == Behind(e[1] % 2, 2, e[2] % 2)
             v == Behind(f[1] % 2, 2, f[2] % 2)
  <2>3. Behind(ch, 4, u) = Behind(k, 4, v) /\ u \in Upto(4) /\ v \in Upto(4)
    BY <1>1, <2>2 DEF Within
  <2> HIDE DEF u, v
  <2>4. ch = k /\ u = v
    BY <2>1, <2>3, BehindOneToOne
  <2> QED
    BY <2>4 DEF u, v
<1>3. e[1] % 2 = f[1] % 2 /\ e[2] % 2 = f[2] % 2
  <2>1. /\ e[1] % 2 \in Upto(2) /\ e[2] % 2 \in Upto(2)
        /\ f[1] % 2 \in Upto(2) /\ f[2] % 2 \in Upto(2)
    BY PhaseIs
  <2>2. e[1] % 2 \in Nat /\ f[1] % 2 \in Nat
    BY <2>1, UptoNat
  <2> QED
    BY <1>2, <2>1, <2>2, BehindOneToOne
<1>4. e[1] \div 2 = f[1] \div 2 /\ e[2] \div 2 = f[2] \div 2
  <2>1. /\ e[1] \in Upto(p.h) /\ e[2] \in Upto(p.w) /\ f[1] \in Upto(p.h) /\ f[2] \in Upto(p.w)
    BY DEF Pixels
  <2>2. /\ e[1] \div 2 \in Upto(p.h \div 2) /\ e[2] \div 2 \in Upto(p.w \div 2)
        /\ f[1] \div 2 \in Upto(p.h \div 2) /\ f[2] \div 2 \in Upto(p.w \div 2)
        /\ p.h \div 2 \in Nat /\ p.w \div 2 \in Nat
    BY <2>1, HalvesOf, EvenSides
  <2>3. e[1] \div 2 \in Nat /\ f[1] \div 2 \in Nat
    BY <2>2, UptoNat
  <2> QED
    BY <1>1, <2>2, <2>3, BehindOneToOne DEF Square
<1>5. /\ e[1] \in Nat /\ e[2] \in Nat /\ f[1] \in Nat /\ f[2] \in Nat
      /\ e = << e[1], e[2] >> /\ f = << f[1], f[2] >>
  BY DEF Pixels, Upto
<1>6. \A a, b \in Nat : a \div 2 = b \div 2 /\ a % 2 = b % 2 => a = b
  OBVIOUS
<1>7. e[1] = f[1] /\ e[2] = f[2]
  BY <1>3, <1>4, <1>5, <1>6
<1> QED
  BY <1>2, <1>5, <1>7

(* Every place of the input is one of a pixel's.                           *)
LEMMA PhaseCovers ==
  ASSUME NEW p, EvenPicture(p), NEW i \in Upto(3 * Plane(p))
  PROVE  \E ch \in Upto(3), e \in Pixels(p) : i = Phase(p, ch, e)
<1> DEFINE rows == p.h \div 2
           cols == p.w \div 2
           c == i \div 12
           r == i % 12
           y == c \div cols
           x == c % cols
           ch == r \div 4
           d == r % 4
           e == << 2 * y + d \div 2, 2 * x + (d % 2) >>
<1>1. rows \in Nat \ {0} /\ cols \in Nat \ {0} /\ p.h = 2 * rows /\ p.w = 2 * cols
  BY EvenSides
<1>2. 3 * Plane(p) = (rows * cols) * 12 /\ rows * cols \in Nat
  <2> HIDE DEF rows, cols
  <2>1. Plane(p) = (2 * cols) * (2 * rows)
    BY <1>1 DEF Plane
  <2> QED
    BY <1>1, <2>1
<1>3. i \in Nat /\ i \in Upto((rows * cols) * 12)
  BY <1>2, UptoNat
<1>4. c \in Upto(rows * cols) /\ c \in Nat /\ r \in Upto(12) /\ i = Behind(c, 12, r)
  <2> HIDE DEF rows, cols
  <2> QED
    BY <1>2, <1>3, Divided, DividedIn
<1> HIDE DEF c, r
<1>5. y \in Upto(rows) /\ y \in Nat /\ x \in Upto(cols) /\ c = Behind(y, cols, x)
  <2> HIDE DEF rows, cols
  <2> QED
    BY <1>1, <1>4, Divided, DividedIn
<1>6. ch \in Upto(3) /\ d \in Upto(4) /\ r = Behind(ch, 4, d)
  <2>1. r \in Nat /\ r \in Upto(3 * 4)
    BY <1>4 DEF Upto
  <2> QED
    BY <2>1, Divided, DividedIn
<1> HIDE DEF ch, d, x, y
<1>7. d \div 2 \in Upto(2) /\ d % 2 \in Upto(2) /\ d = Behind(d \div 2, 2, d % 2)
  <2>1. \A n \in Upto(4) : n \div 2 \in Upto(2) /\ n % 2 \in Upto(2) /\ n = (n \div 2) * 2 + (n % 2)
    BY DEF Upto
  <2> QED
    BY <1>6, <2>1 DEF Behind
<1>8. /\ \A a \in Nat, b \in Upto(2) : (2 * a + b) \div 2 = a /\ (2 * a + b) % 2 = b
      /\ \A a, n \in Nat, b \in Upto(2) : a \in Upto(n) => 2 * a + b \in Upto(2 * n)
  BY DEF Upto
<1>9. x \in Nat
  BY <1>5 DEF Upto
<1>10. e \in Pixels(p)
  <2>1. 2 * y + d \div 2 \in Upto(2 * rows) /\ 2 * x + (d % 2) \in Upto(2 * cols)
    <3> HIDE DEF rows, cols
    <3> QED
      BY <1>1, <1>5, <1>7, <1>8, <1>9
  <2> QED
    BY <1>1, <2>1 DEF Pixels
<1>11. /\ e[1] \div 2 = y /\ e[1] % 2 = d \div 2
       /\ e[2] \div 2 = x /\ e[2] % 2 = d % 2
  <2>1. e[1] = 2 * y + d \div 2 /\ e[2] = 2 * x + (d % 2)
    OBVIOUS
  <2> DEFINE dy == d \div 2
             dx == d % 2
  <2>2. e[1] = 2 * y + dy /\ e[2] = 2 * x + dx /\ dy \in Upto(2) /\ dx \in Upto(2)
    BY <1>7, <2>1
  <2> HIDE DEF e, dy, dx
  <2>3. e[1] \div 2 = y /\ e[1] % 2 = dy
    BY <1>5, <1>8, <2>2
  <2>4. e[2] \div 2 = x /\ e[2] % 2 = dx
    BY <1>8, <1>9, <2>2
  <2> QED
    BY <2>3, <2>4 DEF dy, dx
<1> HIDE DEF e
<1>12. Square(p, e) = c /\ Within(ch, e) = r
  BY <1>5, <1>6, <1>7, <1>11 DEF Square, Within
<1>13. i = Phase(p, ch, e)
  BY <1>4, <1>6, <1>10, <1>12, PhaseIs
<1> QED
  BY <1>6, <1>10, <1>13

LEMMA PhaseIn ==
  ASSUME NEW p, EvenPicture(p), NEW ch \in Upto(3), NEW e \in Pixels(p)
  PROVE  Phase(p, ch, e) \in Upto(3 * Plane(p))
<1> DEFINE rows == p.h \div 2
           cols == p.w \div 2
<1>1. rows \in Nat /\ cols \in Nat /\ p.h = 2 * rows /\ p.w = 2 * cols
  BY EvenSides
<1>2. /\ Phase(p, ch, e) = Behind(Square(p, e), 12, Within(ch, e))
      /\ Square(p, e) \in Upto(rows * cols) /\ Within(ch, e) \in Upto(12)
  BY PhaseIs
<1> HIDE DEF rows, cols
<1>3. Plane(p) = (2 * cols) * (2 * rows)
  BY <1>1 DEF Plane
<1>4. 3 * Plane(p) = (rows * cols) * 12 /\ rows * cols \in Nat
  BY <1>1, <1>3, Products
<1> QED
  BY <1>2, <1>4, BehindIn

LEMMA PhaseSources ==
  ASSUME NEW p, EvenPicture(p), NEW ch \in Upto(3), NEW e \in Pixels(p)
  PROVE  SourcesOf(PhaseStores(p), Phase(p, ch, e)) = Neighbours(p, ch, e)
<1> DEFINE of(f, k) == {<< Phase(p, k, f), from >> : from \in Neighbours(p, k, f)}
<1>1. PhaseStores(p) = UNION {of(f, k) : f \in Pixels(p), k \in Upto(3)}
  BY DEF PhaseStores
<1>2. ASSUME NEW f \in Pixels(p), NEW k \in Upto(3), NEW s \in of(f, k)
      PROVE  s[1] = Phase(p, k, f) /\ s[2] \in Neighbours(p, k, f)
  OBVIOUS
<1>3. ASSUME NEW from \in Neighbours(p, ch, e)
      PROVE  << Phase(p, ch, e), from >> \in of(e, ch)
  OBVIOUS
<1> HIDE DEF of
<1>4. ASSUME NEW s \in PhaseStores(p), s[1] = Phase(p, ch, e)
      PROVE  s[2] \in Neighbours(p, ch, e)
  <2>1. PICK f \in Pixels(p), k \in Upto(3) : s \in of(f, k)
    BY <1>1
  <2>2. Phase(p, k, f) = Phase(p, ch, e) /\ s[2] \in Neighbours(p, k, f)
    BY <1>2, <1>4, <2>1
  <2>3. k = ch /\ f = e
    BY <2>2, PhaseOneToOne
  <2> QED
    BY <2>2, <2>3
<1>5. ASSUME NEW from \in Neighbours(p, ch, e)
      PROVE  << Phase(p, ch, e), from >> \in PhaseStores(p)
  <2>1. \A u : u = of(e, ch) => u \in {of(f, k) : f \in Pixels(p), k \in Upto(3)}
    OBVIOUS
  <2> QED
    BY <1>1, <1>3, <2>1
<1>6. \A from \in Neighbours(p, ch, e) : from \in SourcesOf(PhaseStores(p), Phase(p, ch, e))
  <2> SUFFICES ASSUME NEW from \in Neighbours(p, ch, e)
               PROVE  from \in SourcesOf(PhaseStores(p), Phase(p, ch, e))
    OBVIOUS
  <2> DEFINE s == << Phase(p, ch, e), from >>
  <2>1. s \in PhaseStores(p) /\ s[1] = Phase(p, ch, e) /\ s[2] = from
    BY <1>5
  <2> HIDE DEF s
  <2> QED
    BY <2>1 DEF SourcesOf
<1>7. \A from \in SourcesOf(PhaseStores(p), Phase(p, ch, e)) : from \in Neighbours(p, ch, e)
  BY <1>4 DEF SourcesOf
<1> QED
  BY <1>6, <1>7

LEMMA ChromaNv12 ==
  ASSUME NEW p, EvenPicture(p), p.nv12, NEW ch \in {1, 2},
         NEW y \in Upto(p.h \div 2), NEW x \in Upto(p.w \div 2)
  PROVE  UPlane(p) + y * Pitch(p) + 2 * x + ch - 1 = ChromaIndex(p, ch, y, x)
<1>1. y \in Nat /\ x \in Nat /\ Pitch(p) \in Nat /\ p.h \in Nat
  BY EvenSides, UptoNat
<1>2. y * Pitch(p) \in Nat /\ Pitch(p) * p.h \in Nat
  BY <1>1, Products
<1>3. UvPitch(p) = Pitch(p) /\ Step(p) = 2 /\ VPlane(p) = UPlane(p) + 1
  BY DEF UvPitch, Step, VPlane
<1>4. UPlane(p) \in Nat
  BY <1>2 DEF UPlane
<1>5. \A l, a, b \in Nat : l + a + 2 * b + ch - 1 = (IF ch = 1 THEN l ELSE l + 1) + a + b * 2
  OBVIOUS
<1>6. ChromaIndex(p, ch, y, x)
        = (IF ch = 1 THEN UPlane(p) ELSE UPlane(p) + 1) + y * Pitch(p) + x * 2
  BY <1>3 DEF ChromaIndex
<1> QED
  BY <1>1, <1>2, <1>4, <1>5, <1>6

LEMMA NeighboursAre ==
  ASSUME NEW p, EvenPicture(p), p.nv12, NEW ch \in Upto(3), NEW e \in Pixels(p)
  PROVE  /\ Neighbours(p, ch, e) # {} /\ IsFiniteSet(Neighbours(p, ch, e))
         /\ Neighbours(p, ch, e) \subseteq Upto(Bytes(p))
         /\ ch = 0 \/ (e[1] % 2 = 0 /\ e[2] % 2 = 0) =>
              Neighbours(p, ch, e) = {Source(p, << ch, e[1], e[2] >>)}
<1> DEFINE s == << ch, e[1], e[2] >>
<1>1. s \in Dots(p) /\ e[1] \in Upto(p.h) /\ e[2] \in Upto(p.w)
  BY DEF Dots, Pixels
<1>2. Source(p, s) \in Upto(Bytes(p))
  BY <1>1, SourceIn
<1>3. CASE ch = 0
  <2>1. Neighbours(p, ch, e) = {Source(p, s)}
    BY <1>3 DEF Neighbours, Source
  <2>2. IsFiniteSet({Source(p, s)})
    BY FS_Singleton
  <2> HIDE DEF s
  <2> QED
    BY <1>2, <2>1, <2>2 DEF s
<1>4. CASE ch # 0
  <2> DEFINE y0 == e[1] \div 2
             x0 == e[2] \div 2
             ys == IF e[1] % 2 = 0 THEN {y0} ELSE {y0, Least(y0 + 1, p.h \div 2 - 1)}
             xs == IF e[2] % 2 = 0 THEN {x0} ELSE {x0, Least(x0 + 1, p.w \div 2 - 1)}
             at(y, x) == UPlane(p) + y * Pitch(p) + 2 * x + ch - 1
  <2>1. Neighbours(p, ch, e) = {at(k[1], k[2]) : k \in ys \X xs}
    BY <1>4 DEF Neighbours
  <2>2. ch \in {1, 2}
    BY <1>4 DEF Upto
  <2>3. y0 \in Upto(p.h \div 2) /\ x0 \in Upto(p.w \div 2)
    BY <1>1, HalvesOf
  <2>4. ys \subseteq Upto(p.h \div 2) /\ y0 \in ys /\ xs \subseteq Upto(p.w \div 2) /\ x0 \in xs
    <3>1. \A n \in Nat \ {0}, a \in Nat : a < n => Least(a + 1, n - 1) \in Upto(n)
      BY DEF Least, Upto
    <3>2. Least(y0 + 1, p.h \div 2 - 1) \in Upto(p.h \div 2)
      BY <2>3, <3>1, EvenSides, UptoNat
    <3>3. Least(x0 + 1, p.w \div 2 - 1) \in Upto(p.w \div 2)
      BY <2>3, <3>1, EvenSides, UptoNat
    <3> HIDE DEF y0, x0
    <3> QED
      BY <2>3, <3>2, <3>3
  <2>5. e[1] % 2 = 0 /\ e[2] % 2 = 0 => ys = {y0} /\ xs = {x0}
    OBVIOUS
  <2> HIDE DEF ys, xs
  <2>6. \A y \in ys, x \in xs : at(y, x) = ChromaIndex(p, ch, y, x)
    BY <2>2, <2>4, ChromaNv12
  <2>7. \A y \in ys, x \in xs : at(y, x) \in Upto(Bytes(p))
    BY <2>2, <2>4, <2>6, ChromaIn
  <2>8. Source(p, s) = ChromaIndex(p, ch, y0, x0)
    BY <1>4 DEF Source
  <2>9. at(y0, x0) = Source(p, s)
    BY <2>4, <2>6, <2>8
  <2> HIDE DEF at, y0, x0
  <2>10. at(y0, x0) \in Neighbours(p, ch, e)
    <3> DEFINE k == << y0, x0 >>
    <3>1. k \in ys \X xs /\ k[1] = y0 /\ k[2] = x0
      BY <2>4
    <3> HIDE DEF k
    <3> QED
      BY <2>1, <3>1
  <2>11. Neighbours(p, ch, e) \subseteq Upto(Bytes(p))
    BY <2>1, <2>7
  <2>12. ys = {y0} /\ xs = {x0} => Neighbours(p, ch, e) = {at(y0, x0)}
    <3> SUFFICES ASSUME ys = {y0}, xs = {x0}
                 PROVE  \A k \in ys \X xs : k[1] = y0 /\ k[2] = x0
      BY <2>1, <2>10
    <3> QED
      OBVIOUS
  <2>13. IsFiniteSet(Neighbours(p, ch, e))
    <3>1. Source(p, s) \in 0 .. Bytes(p) - 1 /\ Neighbours(p, ch, e) \subseteq 0 .. Bytes(p) - 1
      BY <1>2, <2>11 DEF Upto
    <3>2. Neighbours(p, ch, e) \subseteq Nat /\ \A n \in Neighbours(p, ch, e) : n <= Bytes(p) - 1
      BY <3>1
    <3>3. Bytes(p) \in Nat
      <4>1. Pitch(p) \in Nat /\ p.h \in Nat /\ p.w % 2 = 0
        BY EvenSides DEF EvenPicture
      <4>2. \A n \in Nat : (n + 1) \div 2 \in Nat
        OBVIOUS
      <4>3. Chroma(p.h) \in Nat /\ UvPitch(p) = Pitch(p)
        BY <4>1, <4>2 DEF Chroma, UvPitch
      <4>4. Pitch(p) * p.h \in Nat /\ 1 * UvPitch(p) * Chroma(p.h) \in Nat
        BY <4>1, <4>3, Products
      <4> QED
        BY <4>1, <4>4 DEF Bytes
    <3>4. IsFiniteSet(0 .. Bytes(p) - 1)
      BY <3>3, FS_Interval
    <3> QED
      BY <3>1, <3>4, FS_Subset
  <2> QED
    BY <1>4, <2>5, <2>9, <2>10, <2>11, <2>12, <2>13
<1> QED
  BY <1>3, <1>4

Seen(p, s) == Sample(Source(p, s))
Given(p)   == buf = [i \in Upto(Bytes(p)) |-> Sample(i)]

LEMMA PhaseMeans ==
  ASSUME NEW p, EvenPicture(p), p.nv12, Given(p), NEW ch \in Upto(3), NEW e \in Pixels(p)
  PROVE  LET mean == Means(PhaseStores(p), 3 * Plane(p))[Phase(p, ch, e)]
         IN /\ mean \in Nat
            /\ ch = 0 \/ (e[1] % 2 = 0 /\ e[2] % 2 = 0) => mean = Seen(p, << ch, e[1], e[2] >>)
<1> DEFINE mean == Means(PhaseStores(p), 3 * Plane(p))[Phase(p, ch, e)]
           from == Neighbours(p, ch, e)
           s    == << ch, e[1], e[2] >>
<1>1. from # {} /\ IsFiniteSet(from) /\ from \subseteq Upto(Bytes(p))
  BY NeighboursAre
<1>2. mean = Mean(from)
  BY <1>1, PhaseIn, PhaseSources, MeansAt
<1>3. \A i \in Upto(Bytes(p)) : buf[i] = Sample(i) /\ Sample(i) \in Nat
  <2>1. \A i \in Upto(Bytes(p)) : buf[i] = Sample(i)
    BY DEF Given
  <2>2. \A i \in Upto(Bytes(p)) : Sample(i) \in Nat
    BY DEF Sample, Upto
  <2> QED
    BY <2>1, <2>2
<1>4. mean \in Nat
  BY <1>1, <1>2, <1>3, MeanNatural
<1>5. ASSUME ch = 0 \/ (e[1] % 2 = 0 /\ e[2] % 2 = 0)
      PROVE  mean = Seen(p, s)
  <2>1. from = {Source(p, s)}
    BY <1>5, NeighboursAre
  <2>2. Source(p, s) \in Upto(Bytes(p))
    BY <1>1, <2>1
  <2>3. Mean({Source(p, s)}) = buf[Source(p, s)]
    BY <1>3, <2>2, MeanOfOne
  <2> QED
    BY <1>2, <1>3, <2>1, <2>2, <2>3 DEF Seen
<1> QED
  BY <1>4, <1>5

-----------------------------------------------------------------------------
(* Residuals.                                                              *)

IsCore(c) == IsSide(c.w) /\ IsSide(c.h)

LEMMA ScaledIs ==
  ASSUME NEW c, IsCore(c)
  PROVE  LET p == Scaled(c)
         IN /\ EvenPicture(p) /\ p.w = 6 * c.w /\ p.h = 6 * c.h
            /\ p.w \div 2 = 3 * c.w /\ p.h \div 2 = 3 * c.h
            /\ Pitch(p) = p.w /\ UPlane(p) = Plane(p) /\ SpotCount(p) = (Plane(p) * 3) \div 2
            /\ c.w \in Nat \ {0} /\ c.h \in Nat \ {0}
<1> DEFINE p == Scaled(c)
<1>1. p.w = 6 * c.w /\ p.h = 6 * c.h /\ p.pad = 0 /\ p.nv12 = TRUE
  BY DEF Scaled
<1>2. c.w \in Nat \ {0} /\ c.h \in Nat \ {0}
  BY DEF IsCore, IsSide
<1>3. \A n \in Nat \ {0} : (6 * n) % 2 = 0 /\ (6 * n) \div 2 = 3 * n /\ 6 * n \in Nat \ {0}
  OBVIOUS
<1>4. EvenPicture(p) /\ p.w \div 2 = 3 * c.w /\ p.h \div 2 = 3 * c.h
  <2> HIDE DEF p
  <2>1. p.w % 2 = 0 /\ p.w \div 2 = 3 * c.w /\ p.w \in Nat \ {0}
    BY <1>1, <1>2, <1>3
  <2>2. p.h % 2 = 0 /\ p.h \div 2 = 3 * c.h /\ p.h \in Nat \ {0}
    BY <1>1, <1>2, <1>3
  <2>3. IsSide(p.w) /\ IsSide(p.h)
    BY <2>1, <2>2 DEF IsSide
  <2>4. p.pad \in Nat
    BY <1>1
  <2>6. p.nv12 \in BOOLEAN
    BY <1>1, Zenon
  <2>5. EvenPicture(p)
    BY <2>1, <2>2, <2>3, <2>4, <2>6 DEF EvenPicture
  <2> QED
    BY <2>1, <2>2, <2>5
<1>5. Pitch(p) = p.w
  <2> HIDE DEF p
  <2> QED
    BY <1>1, <1>2 DEF Pitch
<1>6. UPlane(p) = Plane(p)
  BY <1>5 DEF UPlane, Plane
<1>7. SpotCount(p) = (Plane(p) * 3) \div 2
  <2> DEFINE m == c.h * c.w
  <2> HIDE DEF p
  <2>1. m \in Nat
    BY <1>2, Products
  <2>2. Plane(p) = 36 * m
    BY <1>1, <1>2 DEF Plane
  <2>3. SpotCount(p) = 54 * m
    BY <1>1, <1>2, <1>4, <1>5 DEF SpotCount
  <2> HIDE DEF m
  <2>4. (36 * m * 3) \div 2 = 54 * m
    BY <2>1
  <2> QED
    BY <2>2, <2>3, <2>4
<1> QED
  BY <1>1, <1>2, <1>4, <1>5, <1>6, <1>7

(* The residual of a pixel, and of those a sample of the picture covers.   *)
UnderAt(c, ch, y, x) == Residual(c, ch, y % 6, x % 6, y \div 6, x \div 6)
Under(c, s) ==
  IF s[1] = 0 THEN {UnderAt(c, 0, s[2], s[3])}
  ELSE {UnderAt(c, s[1], 2 * s[2], 2 * s[3]), UnderAt(c, s[1], 2 * s[2], 2 * s[3] + 1),
        UnderAt(c, s[1], 2 * s[2] + 1, 2 * s[3]), UnderAt(c, s[1], 2 * s[2] + 1, 2 * s[3] + 1)}

LEMMA Sixths ==
  ASSUME NEW k \in Nat, NEW f \in Upto(3), NEW i \in {0, 1}
  PROVE  LET n == 2 * (k * 3 + f) + i
         IN n \div 6 = k /\ n % 6 = 2 * f + i /\ n \in Nat
<1>1. f \in {0, 1, 2}
  BY DEF Upto
<1> QED
  BY <1>1

LEMMA ResidualNat ==
  ASSUME NEW c, IsCore(c), NEW ch \in Nat, NEW dy \in Nat, NEW dx \in Nat, NEW cy \in Nat,
         NEW cx \in Nat
  PROVE  Residual(c, ch, dy, dx, cy, cx) \in Nat
<1>1. c.w \in Nat /\ c.h \in Nat
  BY ScaledIs
<1>2. ch * 36 + dy * 6 + dx \in Nat
  OBVIOUS
<1>3. (ch * 36 + dy * 6 + dx) * c.w \in Nat
  BY <1>1, <1>2, Products
<1>4. (ch * 36 + dy * 6 + dx) * c.w * c.h \in Nat
  BY <1>1, <1>3, Products
<1>5. cy * c.w \in Nat
  BY <1>1, Products
<1> QED
  BY <1>4, <1>5 DEF Residual

ResidualAfter(c, ch, dy, dx, cy, cx, i, j) ==
  Residual(c, ch, dy + i, dx + j, cy, cx)
    = Residual(c, ch, dy, dx, cy, cx) + (6 * i + j) * c.w * c.h

LEMMA ResidualMoved ==
  ASSUME NEW c, IsCore(c), NEW ch \in Nat, NEW dy \in Nat, NEW dx \in Nat, NEW cy \in Nat,
         NEW cx \in Nat, NEW i \in Nat, NEW j \in Nat
  PROVE  ResidualAfter(c, ch, dy, dx, cy, cx, i, j)
<1> DEFINE a == ch * 36 + dy * 6 + dx
           m == 6 * i + j
           u == c.w
           v == c.h
           b == cy * c.w
<1>1. u \in Nat /\ v \in Nat /\ a \in Nat /\ m \in Nat /\ b \in Nat
  BY ScaledIs, Products
<1>2. ch * 36 + (dy + i) * 6 + (dx + j) = a + m
  OBVIOUS
<1>3. Residual(c, ch, dy + i, dx + j, cy, cx) = (a + m) * u * v + b + cx
  BY <1>2 DEF Residual
<1>4. Residual(c, ch, dy, dx, cy, cx) = a * u * v + b + cx
  BY DEF Residual
<1> HIDE DEF a, m, u, v, b
<1>5. (a + m) * u * v = a * u * v + m * u * v
  BY <1>1
<1>6. a * u \in Nat /\ m * u \in Nat
  BY <1>1, Products
<1>7. a * u * v \in Nat /\ m * u * v \in Nat
  BY <1>1, <1>6, Products
<1>8. Residual(c, ch, dy + i, dx + j, cy, cx) = a * u * v + b + cx + m * u * v
  BY <1>1, <1>3, <1>5, <1>7
<1> QED
  BY <1>4, <1>8 DEF ResidualAfter, m, u, v

(* The four sources of a chroma sample.                                    *)
LEMMA FourUnder ==
  ASSUME NEW c, IsCore(c), NEW ch \in {1, 2}, NEW k \in Upto(c.h) \X Upto(c.w),
         NEW f \in Upto(3) \X Upto(3)
  PROVE  LET s0 == Residual(c, ch, 2 * f[1], 2 * f[2], k[1], k[2])
         IN /\ s0 \in Nat
            /\ \A i, j \in {0, 1} :
                 UnderAt(c, ch, 2 * (k[1] * 3 + f[1]) + i, 2 * (k[2] * 3 + f[2]) + j)
                   = s0 + (6 * i + j) * c.w * c.h
<1>1. k[1] \in Nat /\ k[2] \in Nat /\ f[1] \in Upto(3) /\ f[2] \in Upto(3)
      /\ f[1] \in Nat /\ f[2] \in Nat /\ 2 * f[1] \in Nat /\ 2 * f[2] \in Nat /\ ch \in Nat
  BY DEF Upto
<1>2. Residual(c, ch, 2 * f[1], 2 * f[2], k[1], k[2]) \in Nat
  BY <1>1, ResidualNat
<1>3. ASSUME NEW i \in {0, 1}, NEW j \in {0, 1}
      PROVE  UnderAt(c, ch, 2 * (k[1] * 3 + f[1]) + i, 2 * (k[2] * 3 + f[2]) + j)
               = Residual(c, ch, 2 * f[1], 2 * f[2], k[1], k[2]) + (6 * i + j) * c.w * c.h
  <2> DEFINE y == 2 * (k[1] * 3 + f[1]) + i
             x == 2 * (k[2] * 3 + f[2]) + j
  <2>1. y \div 6 = k[1] /\ y % 6 = 2 * f[1] + i
    BY <1>1, Sixths, ZenonT(60)
  <2>2. x \div 6 = k[2] /\ x % 6 = 2 * f[2] + j
    BY <1>1, Sixths, ZenonT(60)
  <2> HIDE DEF y, x
  <2>3. UnderAt(c, ch, y, x) = Residual(c, ch, 2 * f[1] + i, 2 * f[2] + j, k[1], k[2])
    BY <2>1, <2>2 DEF UnderAt
  <2>4. Residual(c, ch, 2 * f[1] + i, 2 * f[2] + j, k[1], k[2])
          = Residual(c, ch, 2 * f[1], 2 * f[2], k[1], k[2]) + (6 * i + j) * c.w * c.h
    <3> DEFINE dy == 2 * f[1]
               dx == 2 * f[2]
               cy == k[1]
               cx == k[2]
    <3>1. dy \in Nat /\ dx \in Nat /\ cy \in Nat /\ cx \in Nat /\ ch \in Nat
          /\ i \in Nat /\ j \in Nat
      BY <1>1
    <3> HIDE DEF dy, dx, cy, cx
    <3>2. ResidualAfter(c, ch, dy, dx, cy, cx, i, j)
      BY <3>1, ResidualMoved
    <3>3. Residual(c, ch, dy + i, dx + j, cy, cx)
            = Residual(c, ch, dy, dx, cy, cx) + (6 * i + j) * c.w * c.h
      BY <3>2 DEF ResidualAfter
    <3> QED
      BY <3>3 DEF dy, dx, cy, cx
  <2> QED
    BY <2>3, <2>4 DEF y, x
<1> QED
  BY <1>2, <1>3

-----------------------------------------------------------------------------
(* The stores of residuals.                                                *)

Shade(c, s) == {<< Spot(Scaled(c), s), r >> : r \in Under(c, s)}
TintStores(c, k, f, ch) ==
  {<< Plane(Scaled(c)) + (k[1] * 3 + f[1]) * Scaled(c).w + k[2] * 6 + f[2] * 2 + ch - 1,
      Residual(c, ch, 2 * f[1], 2 * f[2], k[1], k[2]) + m * c.w * c.h >> : m \in {0, 1, 6, 7}}
Third(k, f, ch) == << ch, k[1] * 3 + f[1], k[2] * 3 + f[2] >>

LEMMA ThirdIs ==
  ASSUME NEW c, IsCore(c), NEW ch \in {1, 2}, NEW k \in Upto(c.h) \X Upto(c.w),
         NEW f \in Upto(3) \X Upto(3)
  PROVE  Third(k, f, ch) \in Shots(Scaled(c)) /\ TintStores(c, k, f, ch) = Shade(c, Third(k, f, ch))
<1> DEFINE p  == Scaled(c)
           d  == << k[1] * 3 + f[1], k[2] * 3 + f[2] >>
           s  == << ch, d[1], d[2] >>
           s0 == Residual(c, ch, 2 * f[1], 2 * f[2], k[1], k[2])
           at == Plane(p) + d[1] * p.w + k[2] * 6 + f[2] * 2 + ch - 1
<1>1. /\ p.w \div 2 = c.w * 3 /\ p.h \div 2 = c.h * 3 /\ Pitch(p) = p.w /\ UPlane(p) = Plane(p)
      /\ EvenPicture(p) /\ p.w \in Nat /\ p.h \in Nat /\ c.w \in Nat /\ c.h \in Nat
  <2>1. /\ p.w \div 2 = 3 * c.w /\ p.h \div 2 = 3 * c.h /\ Pitch(p) = p.w /\ UPlane(p) = Plane(p)
        /\ EvenPicture(p) /\ c.w \in Nat /\ c.h \in Nat
    BY ScaledIs
  <2>2. p.w \in Nat /\ p.h \in Nat
    BY <2>1, EvenSides
  <2> HIDE DEF p
  <2> QED
    BY <2>1, <2>2
<1>2. k[1] \in Upto(c.h) /\ k[2] \in Upto(c.w) /\ f[1] \in Upto(3) /\ f[2] \in Upto(3)
      /\ k[1] \in Nat /\ k[2] \in Nat /\ f[1] \in Nat /\ f[2] \in Nat
  BY DEF Upto
<1>3. d[1] \in Upto(p.h \div 2) /\ d[2] \in Upto(p.w \div 2) /\ d[1] \in Nat /\ d[2] \in Nat
  <2>1. Behind(k[1], 3, f[1]) \in Upto(c.h * 3) /\ Behind(k[2], 3, f[2]) \in Upto(c.w * 3)
    BY <1>1, <1>2, BehindIn
  <2>2. d[1] = Behind(k[1], 3, f[1]) /\ d[2] = Behind(k[2], 3, f[2])
    BY DEF Behind
  <2>3. k[1] * 3 + f[1] \in Nat /\ k[2] * 3 + f[2] \in Nat
    BY <1>2
  <2> HIDE DEF p
  <2> QED
    BY <1>1, <2>1, <2>2, <2>3
<1>4. s \in Shots(p) /\ s[1] = ch /\ s[2] = d[1] /\ s[3] = d[2] /\ Third(k, f, ch) = s
  <2>1. d \in Halves(p)
    BY <1>3 DEF Halves
  <2> HIDE DEF d, p
  <2>2. s \in Shots(p)
    BY <2>1, IsShot
  <2>3. Third(k, f, ch) = s
    BY DEF Third, d
  <2> QED
    BY <2>2, <2>3
<1>5. Spot(p, s) = at
  <2>1. Spot(p, s) = (p.h + d[1]) * p.w + (d[2] * 2 + (ch - 1))
    BY <1>1, <1>4 DEF Spot, Line, Column, Behind
  <2> DEFINE a == d[1]
             w == p.w
  <2>2. d[2] * 2 = k[2] * 6 + f[2] * 2
    BY <1>2
  <2>3. Plane(p) = w * p.h
    BY DEF Plane
  <2>4. a \in Nat /\ w \in Nat /\ p.h \in Nat
    BY <1>1, <1>3
  <2>5. at = Plane(p) + a * w + k[2] * 6 + f[2] * 2 + ch - 1
    OBVIOUS
  <2> DEFINE h == p.h
  <2>9. h \in Nat /\ Plane(p) = w * h /\ Spot(p, s) = (h + a) * w + (k[2] * 6 + f[2] * 2 + (ch - 1))
    BY <2>1, <2>2, <2>3, <2>4
  <2> HIDE DEF a, w, at, p, s, h
  <2>6. (h + a) * w = w * h + a * w /\ w * h \in Nat /\ a * w \in Nat
    BY <2>4, <2>9, Products
  <2>7. \A l, b, u, v \in Nat : l + b + u * 6 + v * 2 + ch - 1 = (l + b) + (u * 6 + v * 2 + (ch - 1))
    OBVIOUS
  <2>8. Plane(p) + a * w + k[2] * 6 + f[2] * 2 + ch - 1
          = (Plane(p) + a * w) + (k[2] * 6 + f[2] * 2 + (ch - 1))
    BY <1>2, <2>9, <2>6, <2>7
  <2> QED
    BY <2>5, <2>6, <2>8, <2>9
<1>6. /\ UnderAt(c, ch, 2 * d[1], 2 * d[2]) = s0 + 0 * c.w * c.h
      /\ UnderAt(c, ch, 2 * d[1], 2 * d[2] + 1) = s0 + 1 * c.w * c.h
      /\ UnderAt(c, ch, 2 * d[1] + 1, 2 * d[2]) = s0 + 6 * c.w * c.h
      /\ UnderAt(c, ch, 2 * d[1] + 1, 2 * d[2] + 1) = s0 + 7 * c.w * c.h
  <2>1. \A i, j \in {0, 1} :
          UnderAt(c, ch, 2 * (k[1] * 3 + f[1]) + i, 2 * (k[2] * 3 + f[2]) + j)
            = s0 + (6 * i + j) * c.w * c.h
    BY FourUnder
  <2>2. /\ UnderAt(c, ch, 2 * d[1] + 0, 2 * d[2] + 0) = s0 + (6 * 0 + 0) * c.w * c.h
        /\ UnderAt(c, ch, 2 * d[1] + 0, 2 * d[2] + 1) = s0 + (6 * 0 + 1) * c.w * c.h
        /\ UnderAt(c, ch, 2 * d[1] + 1, 2 * d[2] + 0) = s0 + (6 * 1 + 0) * c.w * c.h
        /\ UnderAt(c, ch, 2 * d[1] + 1, 2 * d[2] + 1) = s0 + (6 * 1 + 1) * c.w * c.h
    BY <2>1
  <2>3. 2 * d[1] + 0 = 2 * d[1] /\ 2 * d[2] + 0 = 2 * d[2]
    BY <1>3
  <2>4. 6 * 0 + 0 = 0 /\ 6 * 0 + 1 = 1 /\ 6 * 1 + 0 = 6 /\ 6 * 1 + 1 = 7
    OBVIOUS
  <2> HIDE DEF d, s0
  <2> QED
    BY <2>2, <2>3, <2>4
<1>7. Under(c, s) = {s0 + m * c.w * c.h : m \in {0, 1, 6, 7}}
  <2>1. Under(c, s) = {UnderAt(c, ch, 2 * d[1], 2 * d[2]), UnderAt(c, ch, 2 * d[1], 2 * d[2] + 1),
                       UnderAt(c, ch, 2 * d[1] + 1, 2 * d[2]),
                       UnderAt(c, ch, 2 * d[1] + 1, 2 * d[2] + 1)}
    <3> HIDE DEF d
    <3> QED
      BY DEF Under
  <2> HIDE DEF s0, d, s
  <2> QED
    BY <1>6, <2>1
<1>8. TintStores(c, k, f, ch) = {<< at, s0 + m * c.w * c.h >> : m \in {0, 1, 6, 7}}
  BY DEF TintStores
<1>9. Shade(c, s) = {<< at, r >> : r \in Under(c, s)}
  BY <1>5 DEF Shade
<1> HIDE DEF at, s0, s, p
<1>10. TintStores(c, k, f, ch) = Shade(c, s)
  BY <1>7, <1>8, <1>9
<1> QED
  BY <1>4, <1>10 DEF p

LEMMA IsThird ==
  ASSUME NEW c, IsCore(c), NEW s \in Shots(Scaled(c)), s[1] # 0
  PROVE  \E k \in Upto(c.h) \X Upto(c.w), f \in Upto(3) \X Upto(3) :
           s = Third(k, f, s[1])
<1>1. s[2] \in Upto(c.h * 3) /\ s[3] \in Upto(c.w * 3) /\ c.h \in Nat /\ c.w \in Nat
  <2>1. s[2] \in Upto(Scaled(c).h \div 2) /\ s[3] \in Upto(Scaled(c).w \div 2)
    BY ShotIs
  <2>2. /\ Scaled(c).h \div 2 = 3 * c.h /\ Scaled(c).w \div 2 = 3 * c.w
        /\ c.h \in Nat /\ c.w \in Nat
    BY ScaledIs
  <2>3. 3 * c.h = c.h * 3 /\ 3 * c.w = c.w * 3
    BY <2>2
  <2> QED
    BY <2>1, <2>2, <2>3
<1> DEFINE k == << s[2] \div 3, s[3] \div 3 >>
           f == << s[2] % 3, s[3] % 3 >>
<1>2. s[2] \in Nat /\ s[3] \in Nat
  BY <1>1, UptoNat, Products
<1>3. /\ s[2] \div 3 \in Upto(c.h) /\ s[3] \div 3 \in Upto(c.w)
  BY <1>1, DividedIn
<1>4. /\ s[2] % 3 \in Upto(3) /\ s[3] % 3 \in Upto(3)
      /\ s[2] = Behind(s[2] \div 3, 3, s[2] % 3) /\ s[3] = Behind(s[3] \div 3, 3, s[3] % 3)
  <2>1. ASSUME NEW n \in Nat
        PROVE  n % 3 \in Upto(3) /\ n = Behind(n \div 3, 3, n % 3)
    <3>1. 3 \in Nat \ {0}
      OBVIOUS
    <3> QED
      BY <3>1, Divided
  <2> QED
    BY <1>2, <2>1
<1>5. k \in Upto(c.h) \X Upto(c.w) /\ f \in Upto(3) \X Upto(3)
  BY <1>3, <1>4
<1>6. s[2] = k[1] * 3 + f[1] /\ s[3] = k[2] * 3 + f[2]
  BY <1>4 DEF Behind
<1> HIDE DEF k, f
<1>7. s = Third(k, f, s[1])
  BY <1>6, ShotIs DEF Third
<1> QED
  BY <1>5, <1>7

LEMMA ResidualShades ==
  ASSUME NEW c, IsCore(c)
  PROVE  /\ \A t \in ResidualStores(c) : \E s \in Shots(Scaled(c)) : t \in Shade(c, s)
         /\ \A s \in Shots(Scaled(c)) : Shade(c, s) \subseteq ResidualStores(c)
<1> DEFINE p == Scaled(c)
           Dark(e) == << e[1] * p.w + e[2],
                         Residual(c, 0, e[1] % 6, e[2] % 6, e[1] \div 6, e[2] \div 6) >>
           ks == Upto(c.h) \X Upto(c.w)
           fs == Upto(3) \X Upto(3)
<1>1. ResidualStores(c) = {Dark(e) : e \in Pixels(p)} \cup
                          UNION {TintStores(c, k, f, ch) : k \in ks, f \in fs, ch \in {1, 2}}
  BY DEF ResidualStores, TintStores
<1>2. ASSUME NEW e \in Pixels(p)
      PROVE  << 0, e[1], e[2] >> \in Shots(p) /\ Shade(c, << 0, e[1], e[2] >>) = {Dark(e)}
  <2> DEFINE s == << 0, e[1], e[2] >>
  <2>1. s \in Shots(p)
    BY IsShot
  <2>2. Spot(p, s) = e[1] * p.w + e[2]
    BY ScaledIs DEF Spot, Line, Column, Behind
  <2>3. Under(c, s) = {UnderAt(c, 0, e[1], e[2])}
    BY DEF Under
  <2>4. Dark(e) = << Spot(p, s), UnderAt(c, 0, e[1], e[2]) >>
    BY <2>2 DEF UnderAt
  <2> HIDE DEF s, Dark
  <2>5. Shade(c, s) = {Dark(e)}
    BY <2>3, <2>4 DEF Shade
  <2> QED
    BY <2>1, <2>5 DEF s
<1> HIDE DEF Dark, ks, fs
<1>3. ASSUME NEW t \in ResidualStores(c)
      PROVE  \E s \in Shots(p) : t \in Shade(c, s)
  <2>1. CASE t \in {Dark(e) : e \in Pixels(p)}
    BY <1>2, <2>1
  <2>2. CASE \E k \in ks, f \in fs, ch \in {1, 2} : t \in TintStores(c, k, f, ch)
    <3>1. PICK k \in ks, f \in fs, ch \in {1, 2} : t \in TintStores(c, k, f, ch)
      BY <2>2
    <3>2. Third(k, f, ch) \in Shots(p) /\ TintStores(c, k, f, ch) = Shade(c, Third(k, f, ch))
      BY <3>1, ThirdIs DEF ks, fs
    <3> QED
      BY <3>1, <3>2
  <2> QED
    BY <1>1, <2>1, <2>2
<1>4. ASSUME NEW s \in Shots(p)
      PROVE  Shade(c, s) \subseteq ResidualStores(c)
  <2>1. CASE s[1] = 0
    <3> DEFINE e == << s[2], s[3] >>
    <3>1. s = << 0, e[1], e[2] >> /\ e \in Pixels(p)
      BY <2>1, ShotIs DEF Pixels
    <3> HIDE DEF e
    <3>2. Shade(c, s) = {Dark(e)}
      BY <1>2, <3>1
    <3> QED
      BY <1>1, <3>1, <3>2
  <2>2. CASE s[1] # 0
    <3>1. s[1] \in {1, 2}
      BY <2>2, ShotIs
    <3>2. PICK k \in ks, f \in fs : s = Third(k, f, s[1])
      BY <2>2, IsThird DEF ks, fs
    <3>3. TintStores(c, k, f, s[1]) = Shade(c, s)
      BY <3>1, <3>2, ThirdIs DEF ks, fs
    <3>4. \A u : u = TintStores(c, k, f, s[1]) =>
            u \in {TintStores(c, i, j, ch) : i \in ks, j \in fs, ch \in {1, 2}}
      BY <3>1
    <3> QED
      BY <1>1, <3>3, <3>4
  <2> QED
    BY <2>1, <2>2
<1> QED
  BY <1>3, <1>4

-----------------------------------------------------------------------------
(* What the mean of its sources makes of each sample.                      *)

LEMMA ResidualSources ==
  ASSUME NEW c, IsCore(c), NEW s \in Shots(Scaled(c))
  PROVE  SourcesOf(ResidualStores(c), Spot(Scaled(c), s)) = Under(c, s)
<1> DEFINE p == Scaled(c)
<1>1. ASSUME NEW t \in ResidualStores(c), t[1] = Spot(p, s)
      PROVE  t[2] \in Under(c, s)
  <2>1. PICK u \in Shots(p) : t \in Shade(c, u)
    BY ResidualShades
  <2>2. t[1] = Spot(p, u) /\ t[2] \in Under(c, u)
    BY <2>1 DEF Shade
  <2>3. EvenPicture(p)
    BY ScaledIs
  <2>4. u = s
    <3> HIDE DEF p
    <3> QED
      BY <1>1, <2>2, <2>3, SpotOneToOne DEF p
  <2> QED
    BY <2>2, <2>4
<1>2. ASSUME NEW r \in Under(c, s)
      PROVE  r \in SourcesOf(ResidualStores(c), Spot(p, s))
  <2> DEFINE t == << Spot(p, s), r >>
  <2>1. t \in Shade(c, s)
    BY DEF Shade
  <2>2. t \in ResidualStores(c) /\ t[1] = Spot(p, s) /\ t[2] = r
    BY <2>1, ResidualShades
  <2> HIDE DEF t
  <2> QED
    BY <2>2 DEF SourcesOf
<1>3. \A r \in SourcesOf(ResidualStores(c), Spot(p, s)) : r \in Under(c, s)
  BY <1>1 DEF SourcesOf
<1> QED
  BY <1>2, <1>3

LEMMA UnderAtIn ==
  ASSUME NEW c, IsCore(c), NEW ch \in Upto(3), NEW y \in Upto(6 * c.h), NEW x \in Upto(6 * c.w)
  PROVE  UnderAt(c, ch, y, x) \in Upto(108 * c.w * c.h)
<1> DEFINE w == c.w
           h == c.h
           a == Behind(ch, 36, Behind(y % 6, 6, x % 6))
           b == Behind(y \div 6, w, x \div 6)
<1>1. w \in Nat \ {0} /\ h \in Nat \ {0} /\ w \in Nat /\ h \in Nat
  BY ScaledIs
<1>2. y \in Upto(h * 6) /\ x \in Upto(w * 6) /\ y \in Nat /\ x \in Nat
  <2>1. 6 * h = h * 6 /\ 6 * w = w * 6 /\ h * 6 \in Nat /\ w * 6 \in Nat
    BY <1>1
  <2>2. y \in Upto(h * 6) /\ x \in Upto(w * 6)
    BY <2>1
  <2> HIDE DEF h, w
  <2> QED
    BY <2>1, <2>2, UptoNat
<1>3. y \div 6 \in Upto(h) /\ x \div 6 \in Upto(w)
  <2> HIDE DEF h, w
  <2>1. 6 \in Nat \ {0}
    OBVIOUS
  <2> QED
    BY <1>1, <1>2, <2>1, DividedIn
<1>4. y % 6 \in Upto(6) /\ x % 6 \in Upto(6)
  <2>1. \A n \in Nat : n % 6 \in Upto(6)
    BY DEF Upto
  <2> QED
    BY <1>2, <2>1
<1>5. b \in Upto(h * w) /\ h * w \in Nat
  BY <1>1, <1>3, BehindIn
<1>6. a \in Upto(108)
  <2>1. Behind(y % 6, 6, x % 6) \in Upto(6 * 6)
    BY <1>4, BehindIn
  <2>2. Behind(y % 6, 6, x % 6) \in Upto(36)
    BY <2>1
  <2>3. a \in Upto(3 * 36)
    BY <2>2, BehindIn
  <2> QED
    BY <2>3
<1>7. Behind(a, h * w, b) \in Upto(108 * (h * w))
  <2> HIDE DEF a, b, h, w
  <2> QED
    BY <1>5, <1>6, BehindIn
<1>8. 108 * c.w * c.h = 108 * (h * w)
  BY <1>1
<1>9. UnderAt(c, ch, y, x) = Behind(a, h * w, b)
  <2> DEFINE n == ch * 36 + (y % 6) * 6 + (x % 6)
             cy == y \div 6
             cx == x \div 6
             dy == y % 6
             dx == x % 6
  <2>1. UnderAt(c, ch, y, x) = n * w * h + cy * w + cx
    BY DEF UnderAt, Residual
  <2>2. ch \in Nat /\ dy \in Nat /\ dx \in Nat /\ cy \in Nat /\ cx \in Nat
    BY <1>1, <1>3, <1>4 DEF Upto
  <2>3. a = n
    <3>1. a = ch * 36 + (dy * 6 + dx)
      BY DEF Behind
    <3>2. \A i, j, k \in Nat : i * 36 + (j * 6 + k) = i * 36 + j * 6 + k
      OBVIOUS
    <3>3. n = ch * 36 + dy * 6 + dx
      OBVIOUS
    <3> HIDE DEF a, n, dy, dx
    <3> QED
      BY <2>2, <3>1, <3>2, <3>3
  <2>4. b = cy * w + cx
    BY DEF Behind
  <2>5. n \in Nat /\ cy * w \in Nat
    BY <1>1, <2>2, Products
  <2>6. Behind(a, h * w, b) = a * (h * w) + b
    BY DEF Behind
  <2> HIDE DEF a, b, n, cy, cx, w, h
  <2>7. n * w * h = n * (h * w) /\ n * (h * w) \in Nat
    BY <1>1, <1>5, <2>5, Products
  <2> QED
    BY <2>1, <2>2, <2>3, <2>4, <2>5, <2>6, <2>7
<1> QED
  BY <1>7, <1>8, <1>9

LEMMA FourDiffer ==
  ASSUME NEW c, IsCore(c), NEW s0 \in Nat, NEW m \in {0, 1, 6, 7}, NEW n \in {0, 1, 6, 7}, m # n
  PROVE  s0 + m * c.w * c.h # s0 + n * c.w * c.h
<1> DEFINE q == c.w * c.h
<1>1. c.w \in Nat \ {0} /\ c.h \in Nat \ {0}
  BY ScaledIs
<1>2. q \in Nat \ {0}
  <2>1. \A a, b \in Nat \ {0} : a * b \in Nat \ {0}
    OBVIOUS
  <2> QED
    BY <1>1, <2>1
<1>3. m * c.w * c.h = m * q /\ n * c.w * c.h = n * q
  BY <1>1
<1> HIDE DEF q
<1>4. m * q # n * q /\ m * q \in Nat /\ n * q \in Nat
  BY <1>2
<1> QED
  BY <1>3, <1>4

ResidualGiven(c) == buf = [i \in Upto(108 * c.w * c.h) |-> Wide(i)]
Shadow(c, ch, y, x) == Wide(UnderAt(c, ch, y, x))

LEMMA ShadowIs ==
  ASSUME NEW c, IsCore(c), ResidualGiven(c), NEW ch \in Upto(3),
         NEW y \in Upto(6 * c.h), NEW x \in Upto(6 * c.w)
  PROVE  buf[UnderAt(c, ch, y, x)] = Shadow(c, ch, y, x) /\ Shadow(c, ch, y, x) \in Nat
<1>1. UnderAt(c, ch, y, x) \in Upto(108 * c.w * c.h)
  BY UnderAtIn
<1>2. UnderAt(c, ch, y, x) \in Nat
  BY <1>1 DEF Upto
<1>3. Wide(UnderAt(c, ch, y, x)) \in Nat
  BY <1>2 DEF Wide
<1> QED
  BY <1>1, <1>3 DEF ResidualGiven, Shadow

LEMMA ResidualMeans ==
  ASSUME NEW c, IsCore(c), ResidualGiven(c), NEW s \in Shots(Scaled(c))
  PROVE  LET p == Scaled(c)
             mean == Means(ResidualStores(c), (Plane(p) * 3) \div 2)[Spot(p, s)]
         IN /\ s[1] = 0 => mean = Shadow(c, 0, s[2], s[3])
            /\ s[1] # 0 => mean = (Shadow(c, s[1], 2 * s[2], 2 * s[3])
                                     + Shadow(c, s[1], 2 * s[2], 2 * s[3] + 1)
                                     + Shadow(c, s[1], 2 * s[2] + 1, 2 * s[3])
                                     + Shadow(c, s[1], 2 * s[2] + 1, 2 * s[3] + 1) + 2) \div 4
<1> DEFINE p == Scaled(c)
           mean == Means(ResidualStores(c), (Plane(p) * 3) \div 2)[Spot(p, s)]
<1>1. /\ EvenPicture(p) /\ p.w = 6 * c.w /\ p.h = 6 * c.h
      /\ SpotCount(p) = (Plane(p) * 3) \div 2
  BY ScaledIs
<1>2. Spot(p, s) \in Upto((Plane(p) * 3) \div 2)
  BY <1>1, SpotIn
<1>3. SourcesOf(ResidualStores(c), Spot(p, s)) = Under(c, s)
  BY ResidualSources
<1>4. Under(c, s) # {} => mean = Mean(Under(c, s))
  BY <1>2, <1>3, MeansAt
<1> HIDE DEF mean
<1>5. ASSUME s[1] = 0
      PROVE  mean = Shadow(c, 0, s[2], s[3])
  <2> DEFINE a == UnderAt(c, 0, s[2], s[3])
  <2>1. s[2] \in Upto(6 * c.h) /\ s[3] \in Upto(6 * c.w) /\ 0 \in Upto(3)
    BY <1>1, <1>5, ShotIs DEF Upto
  <2>2. Under(c, s) = {a}
    BY <1>5 DEF Under
  <2>3. buf[a] = Shadow(c, 0, s[2], s[3]) /\ Shadow(c, 0, s[2], s[3]) \in Nat
    BY <2>1, ShadowIs
  <2> HIDE DEF a
  <2> QED
    BY <1>4, <2>2, <2>3, MeanOfOne
<1>6. ASSUME s[1] # 0
      PROVE  mean = (Shadow(c, s[1], 2 * s[2], 2 * s[3])
                       + Shadow(c, s[1], 2 * s[2], 2 * s[3] + 1)
                       + Shadow(c, s[1], 2 * s[2] + 1, 2 * s[3])
                       + Shadow(c, s[1], 2 * s[2] + 1, 2 * s[3] + 1) + 2) \div 4
  <2> DEFINE ch == s[1]
             y  == s[2]
             x  == s[3]
             a0 == UnderAt(c, ch, 2 * y, 2 * x)
             a1 == UnderAt(c, ch, 2 * y, 2 * x + 1)
             a2 == UnderAt(c, ch, 2 * y + 1, 2 * x)
             a3 == UnderAt(c, ch, 2 * y + 1, 2 * x + 1)
  <2>1. ch \in {1, 2} /\ ch \in Upto(3) /\ y \in Upto(p.h \div 2) /\ x \in Upto(p.w \div 2)
    BY <1>6, ShotIs DEF Upto
  <2>2. /\ 2 * y \in Upto(6 * c.h) /\ 2 * y + 1 \in Upto(6 * c.h)
        /\ 2 * x \in Upto(6 * c.w) /\ 2 * x + 1 \in Upto(6 * c.w) /\ y \in Nat /\ x \in Nat
    <3>1. \A n \in Nat : \A i \in Upto(n) : 2 * i \in Upto(2 * n) /\ 2 * i + 1 \in Upto(2 * n) /\ i \in Nat
      BY DEF Upto
    <3>2. /\ p.h \div 2 \in Nat /\ p.w \div 2 \in Nat /\ 2 * (p.h \div 2) = 6 * c.h
          /\ 2 * (p.w \div 2) = 6 * c.w
      BY <1>1, EvenSides
    <3> HIDE DEF y, x, p
    <3>3. 2 * y \in Upto(2 * (p.h \div 2)) /\ 2 * y + 1 \in Upto(2 * (p.h \div 2)) /\ y \in Nat
      BY <2>1, <3>1, <3>2
    <3>4. 2 * x \in Upto(2 * (p.w \div 2)) /\ 2 * x + 1 \in Upto(2 * (p.w \div 2)) /\ x \in Nat
      BY <2>1, <3>1, <3>2
    <3> QED
      BY <3>2, <3>3, <3>4
  <2>3. Under(c, s) = {a0, a1, a2, a3}
    BY <1>6 DEF Under
  <2>4. /\ buf[a0] = Shadow(c, ch, 2 * y, 2 * x) /\ buf[a0] \in Nat
        /\ buf[a1] = Shadow(c, ch, 2 * y, 2 * x + 1) /\ buf[a1] \in Nat
        /\ buf[a2] = Shadow(c, ch, 2 * y + 1, 2 * x) /\ buf[a2] \in Nat
        /\ buf[a3] = Shadow(c, ch, 2 * y + 1, 2 * x + 1) /\ buf[a3] \in Nat
    <3> HIDE DEF ch, y, x
    <3> QED
      BY <2>1, <2>2, ShadowIs
  <2>5. a0 # a1 /\ a0 # a2 /\ a0 # a3 /\ a1 # a2 /\ a1 # a3 /\ a2 # a3
    <3>1. PICK k \in Upto(c.h) \X Upto(c.w), f \in Upto(3) \X Upto(3) : s = Third(k, f, s[1])
      BY <1>6, IsThird
    <3> DEFINE s0 == Residual(c, ch, 2 * f[1], 2 * f[2], k[1], k[2])
               At4(m) == s0 + m * c.w * c.h
    <3>2. y = k[1] * 3 + f[1] /\ x = k[2] * 3 + f[2]
      BY <3>1 DEF Third
    <3>3. s0 \in Nat /\ \A i, j \in {0, 1} : UnderAt(c, ch, 2 * y + i, 2 * x + j) = At4(6 * i + j)
      <4> HIDE DEF ch
      <4> QED
        BY <2>1, <3>2, FourUnder
    <3>4. \A m, n \in {0, 1, 6, 7} : m # n => At4(m) # At4(n)
      <4> HIDE DEF s0
      <4> QED
        BY <3>3, FourDiffer
    <3> HIDE DEF At4, s0, ch, y, x
    <3>5. /\ UnderAt(c, ch, 2 * y + 0, 2 * x + 0) = At4(6 * 0 + 0)
          /\ UnderAt(c, ch, 2 * y + 0, 2 * x + 1) = At4(6 * 0 + 1)
          /\ UnderAt(c, ch, 2 * y + 1, 2 * x + 0) = At4(6 * 1 + 0)
          /\ UnderAt(c, ch, 2 * y + 1, 2 * x + 1) = At4(6 * 1 + 1)
      BY <3>3
    <3>6. 2 * y + 0 = 2 * y /\ 2 * x + 0 = 2 * x /\ 6 * 0 + 0 = 0 /\ 6 * 0 + 1 = 1
          /\ 6 * 1 + 0 = 6 /\ 6 * 1 + 1 = 7
      BY <2>2
    <3>7. a0 = At4(0) /\ a1 = At4(1) /\ a2 = At4(6) /\ a3 = At4(7)
      BY <3>5, <3>6
    <3> QED
      BY <3>4, <3>7
  <2> HIDE DEF a0, a1, a2, a3
  <2>6. Mean({a0, a1, a2, a3}) = (buf[a0] + buf[a1] + buf[a2] + buf[a3] + 2) \div 4
    <3>1. buf[a0] \in Int /\ buf[a1] \in Int /\ buf[a2] \in Int /\ buf[a3] \in Int
      BY <2>4
    <3>2. MeanIsOfFour(a0, a1, a2, a3)
      BY <2>5, <3>1, MeanOfFour
    <3> QED
      BY <3>2 DEF MeanIsOfFour
  <2> QED
    BY <1>4, <2>3, <2>4, <2>6
<1> QED
  BY <1>5, <1>6 DEF mean

-----------------------------------------------------------------------------
(* What the buffer holds in each layout of a picture.                      *)

From(p, s)  == IF layout.blocked THEN FromBlock(p, s[1], << s[2], s[3] >>)
                                 ELSE FromNchw(p, s[1], << s[2], s[3] >>)
Direct(s)   == s[1] = 0 \/ (s[2] % 2 = 0 /\ s[3] % 2 = 0)
Place(p, s) == Phase(p, s[1], << s[2], s[3] >>)
MeanOf(c, ch, y, x) ==
  (Shadow(c, ch, 2 * y, 2 * x) + Shadow(c, ch, 2 * y, 2 * x + 1)
     + Shadow(c, ch, 2 * y + 1, 2 * x) + Shadow(c, ch, 2 * y + 1, 2 * x + 1) + 2) \div 4

PlanesGiven   == shape \in Pictures /\ Given(shape)
CoreGiven     == shape \in Cores /\ ResidualGiven(shape)
InputKept     ==
  /\ shape \in Pictures
  /\ EvenPicture(shape) => \A s \in Dots(shape) : buf[Dot(shape, s)] = Seen(shape, s)
OutputKept    ==
  /\ shape \in Pictures
  /\ EvenPicture(shape) => \A s \in Dots(shape) : buf[From(shape, s)] = Seen(shape, s)
PictureKept   ==
  /\ shape \in Pictures
  /\ EvenPicture(shape) => \A s \in Shots(shape) : buf[Spot(shape, s)] = Seen(shape, Shown(s))
PhasesKept    ==
  /\ EvenPicture(shape) /\ shape.nv12
  /\ \A i \in DOMAIN buf : buf[i] # Blank
  /\ \A s \in Dots(shape) : Direct(s) => buf[Place(shape, s)] = Seen(shape, s)
ResidualsKept ==
  /\ IsCore(shape)
  /\ \A s \in Shots(Scaled(shape)) :
       buf[Spot(Scaled(shape), s)] = IF s[1] = 0 THEN Shadow(shape, 0, s[2], s[3])
                                     ELSE MeanOf(shape, s[1], s[2], s[3])

PicInv ==
  /\ layout.kind = "planes" => PlanesGiven
  /\ layout.kind = "residual" => CoreGiven
  /\ layout.kind = "input" => InputKept
  /\ layout.kind = "output" => OutputKept
  /\ layout.kind = "nv12" => PictureKept
  /\ layout.kind = "phases" => PhasesKept
  /\ layout.kind = "added" => ResidualsKept

LEMMA SeenChroma ==
  ASSUME NEW p, EvenPicture(p), NEW d \in Halves(p), NEW ch \in {1, 2}
  PROVE  LET s == << ch, d[1], d[2] >>
         IN /\ s \in Shots(p) /\ Shown(s) = << ch, 2 * d[1], 2 * d[2] >> /\ Shown(s) \in Dots(p)
            /\ Seen(p, Shown(s)) = ChromaAt(p, ch, d[1], d[2])
            /\ << 2 * d[1], 2 * d[2] >> \in Pixels(p)
            /\ (2 * d[1]) % 2 = 0 /\ (2 * d[2]) % 2 = 0
<1> DEFINE s == << ch, d[1], d[2] >>
<1>1. s \in Shots(p) /\ Shown(s) = << ch, 2 * d[1], 2 * d[2] >>
  <2>1. s \in Shots(p)
    BY IsShot
  <2>2. s[1] = ch /\ s[2] = d[1] /\ s[3] = d[2] /\ ch # 0
    OBVIOUS
  <2> HIDE DEF s
  <2>3. Pixel(s) = << 2 * d[1], 2 * d[2] >>
    BY <2>2 DEF Pixel
  <2> QED
    BY <2>1, <2>2, <2>3 DEF Shown
<1>2. Shown(s) \in Dots(p)
  <2> HIDE DEF s
  <2> QED
    BY <1>1, ShownIn
<1>3. d[1] \in Nat /\ d[2] \in Nat
  BY EvenSides DEF Halves, Upto
<1>4. /\ (2 * d[1]) % 2 = 0 /\ (2 * d[2]) % 2 = 0
      /\ (2 * d[1]) \div 2 = d[1] /\ (2 * d[2]) \div 2 = d[2]
  <2>1. \A n \in Nat : (2 * n) % 2 = 0 /\ (2 * n) \div 2 = n
    OBVIOUS
  <2> QED
    BY <1>3, <2>1
<1>5. Source(p, << ch, 2 * d[1], 2 * d[2] >>) = ChromaIndex(p, ch, d[1], d[2])
  BY <1>4 DEF Source
<1>6. Seen(p, Shown(s)) = ChromaAt(p, ch, d[1], d[2])
  BY <1>1, <1>5 DEF Seen, ChromaAt, ChromaIndex
<1>7. << 2 * d[1], 2 * d[2] >> \in Pixels(p)
  BY <1>1, <1>2 DEF Dots, Pixels
<1> QED
  BY <1>1, <1>2, <1>4, <1>6, <1>7

LEMMA SeenLuma ==
  ASSUME NEW p, NEW e \in Pixels(p)
  PROVE  LET s == << 0, e[1], e[2] >>
         IN /\ s \in Shots(p) /\ s \in Dots(p) /\ Shown(s) = s
            /\ Seen(p, s) = Luma(p, e[1], e[2])
<1> DEFINE s == << 0, e[1], e[2] >>
<1>1. s \in Shots(p)
  BY IsShot
<1>2. s \in Dots(p)
  BY DEF Dots, Pixels, Upto
<1>3. Shown(s) = s
  BY DEF Shown, Pixel
<1>4. Seen(p, s) = Luma(p, e[1], e[2])
  BY DEF Seen, Source, Luma
<1> QED
  BY <1>1, <1>2, <1>3, <1>4

LEMMA SpotIs ==
  ASSUME NEW p, EvenPicture(p)
  PROVE  /\ \A e \in Pixels(p) : Spot(p, << 0, e[1], e[2] >>) = e[1] * Pitch(p) + e[2]
         /\ \A d \in Halves(p), ch \in {1, 2} :
              Spot(p, << ch, d[1], d[2] >>)
                = UPlane(p) + d[1] * Pitch(p) + 2 * d[2] + ch - 1
<1>1. \A e \in Pixels(p) : Spot(p, << 0, e[1], e[2] >>) = e[1] * Pitch(p) + e[2]
  BY DEF Spot, Line, Column, Behind
<1>2. ASSUME NEW d \in Halves(p), NEW ch \in {1, 2}
      PROVE  Spot(p, << ch, d[1], d[2] >>) = UPlane(p) + d[1] * Pitch(p) + 2 * d[2] + ch - 1
  <2>1. Spot(p, << ch, d[1], d[2] >>) = (p.h + d[1]) * Pitch(p) + (d[2] * 2 + (ch - 1))
    BY DEF Spot, Line, Column, Behind
  <2>2. d[1] \in Nat /\ d[2] \in Nat /\ Pitch(p) \in Nat /\ p.h \in Nat
    BY EvenSides DEF Halves, Upto
  <2>3. d[1] * Pitch(p) \in Nat /\ Pitch(p) * p.h \in Nat
        /\ (p.h + d[1]) * Pitch(p) = Pitch(p) * p.h + d[1] * Pitch(p)
    BY <2>2, Products
  <2>4. UPlane(p) = Pitch(p) * p.h
    BY DEF UPlane
  <2>5. \A l, a, b \in Nat : (l + a) + (b * 2 + (ch - 1)) = l + a + 2 * b + ch - 1
    OBVIOUS
  <2> QED
    BY <2>1, <2>2, <2>3, <2>4, <2>5
<1> QED
  BY <1>1, <1>2

LEMMA PictureIs ==
  ASSUME shape \in Pictures, shape.w % 2 = 0, shape.h % 2 = 0
  PROVE  EvenPicture(shape)
BY ShapesAssumption DEF EvenPicture

LEMMA Nv12Keeps ==
  ASSUME PictureKept, shape.w % 2 = 0, shape.h % 2 = 0
  PROVE  /\ \A e \in Pixels(shape) : buf[e[1] * Pitch(shape) + e[2]] = Luma(shape, e[1], e[2])
         /\ \A d \in Halves(shape), ch \in {1, 2} :
              buf[UPlane(shape) + d[1] * Pitch(shape) + 2 * d[2] + ch - 1]
                = ChromaAt(shape, ch, d[1], d[2])
<1>1. EvenPicture(shape) /\ \A s \in Shots(shape) : buf[Spot(shape, s)] = Seen(shape, Shown(s))
  BY PictureIs DEF PictureKept
<1>2. ASSUME NEW e \in Pixels(shape)
      PROVE  buf[e[1] * Pitch(shape) + e[2]] = Luma(shape, e[1], e[2])
  <2> DEFINE s == << 0, e[1], e[2] >>
  <2>1. s \in Shots(shape) /\ Shown(s) = s /\ Seen(shape, s) = Luma(shape, e[1], e[2])
    BY SeenLuma
  <2>2. Spot(shape, s) = e[1] * Pitch(shape) + e[2]
    BY <1>1, SpotIs
  <2> HIDE DEF s
  <2>3. buf[Spot(shape, s)] = Seen(shape, Shown(s))
    BY <1>1, <2>1
  <2> QED
    BY <2>1, <2>2, <2>3
<1>3. ASSUME NEW d \in Halves(shape), NEW ch \in {1, 2}
      PROVE  buf[UPlane(shape) + d[1] * Pitch(shape) + 2 * d[2] + ch - 1]
               = ChromaAt(shape, ch, d[1], d[2])
  <2> DEFINE s == << ch, d[1], d[2] >>
  <2>1. s \in Shots(shape) /\ Seen(shape, Shown(s)) = ChromaAt(shape, ch, d[1], d[2])
    BY <1>1, SeenChroma
  <2>2. Spot(shape, s) = UPlane(shape) + d[1] * Pitch(shape) + 2 * d[2] + ch - 1
    BY <1>1, SpotIs
  <2> HIDE DEF s
  <2>3. buf[Spot(shape, s)] = Seen(shape, Shown(s))
    BY <1>1, <2>1
  <2> QED
    BY <2>1, <2>2, <2>3
<1> QED
  BY <1>2, <1>3

LEMMA PhasesKeep ==
  ASSUME PhasesKept
  PROVE  /\ \A i \in DOMAIN buf : buf[i] # Blank
         /\ \A e \in Pixels(shape) : buf[Phase(shape, 0, e)] = Luma(shape, e[1], e[2])
         /\ \A d \in Halves(shape), ch \in {1, 2} :
              buf[Phase(shape, ch, << 2 * d[1], 2 * d[2] >>)] = ChromaAt(shape, ch, d[1], d[2])
<1>1. /\ EvenPicture(shape) /\ \A i \in DOMAIN buf : buf[i] # Blank
      /\ \A s \in Dots(shape) : Direct(s) => buf[Place(shape, s)] = Seen(shape, s)
  BY DEF PhasesKept
<1>2. ASSUME NEW e \in Pixels(shape)
      PROVE  buf[Phase(shape, 0, e)] = Luma(shape, e[1], e[2])
  <2> DEFINE s == << 0, e[1], e[2] >>
  <2>1. s \in Dots(shape) /\ Seen(shape, s) = Luma(shape, e[1], e[2])
    BY SeenLuma
  <2>2. Direct(s)
    <3>1. s[1] = 0
      OBVIOUS
    <3> HIDE DEF s
    <3> QED
      BY <3>1 DEF Direct
  <2>3. e = << e[1], e[2] >>
    BY DEF Pixels
  <2>4. Place(shape, s) = Phase(shape, 0, e)
    BY <2>3 DEF Place
  <2> HIDE DEF s
  <2> QED
    BY <1>1, <2>1, <2>2, <2>4
<1>3. ASSUME NEW d \in Halves(shape), NEW ch \in {1, 2}
      PROVE  buf[Phase(shape, ch, << 2 * d[1], 2 * d[2] >>)] = ChromaAt(shape, ch, d[1], d[2])
  <2> DEFINE t == << ch, d[1], d[2] >>
             s == << ch, 2 * d[1], 2 * d[2] >>
  <2>1. /\ Shown(t) = s /\ Shown(t) \in Dots(shape)
        /\ Seen(shape, Shown(t)) = ChromaAt(shape, ch, d[1], d[2])
        /\ (2 * d[1]) % 2 = 0 /\ (2 * d[2]) % 2 = 0
    BY <1>1, SeenChroma
  <2>2. Direct(s)
    BY <2>1 DEF Direct
  <2>3. Place(shape, s) = Phase(shape, ch, << 2 * d[1], 2 * d[2] >>)
    BY DEF Place
  <2> HIDE DEF s, t
  <2> QED
    BY <1>1, <2>1, <2>2, <2>3
<1> QED
  BY <1>1, <1>2, <1>3

LEMMA ResidualsKeep ==
  ASSUME ResidualsKept, NEW e \in Halves(Scaled(shape)), NEW ch \in Upto(3)
  PROVE  /\ ch = 0 =>
              \A y \in {2 * e[1], 2 * e[1] + 1}, x \in {2 * e[2], 2 * e[2] + 1} :
                buf[y * (6 * shape.w) + x] = Shadow(shape, ch, y, x)
         /\ ch # 0 =>
              buf[(6 * shape.w) * 6 * shape.h + e[1] * (6 * shape.w) + 2 * e[2] + ch - 1]
                = MeanOf(shape, ch, e[1], e[2])
<1> DEFINE p == Scaled(shape)
<1>1. /\ EvenPicture(p) /\ Pitch(p) = 6 * shape.w /\ p.w = 6 * shape.w /\ p.h = 6 * shape.h
      /\ shape.w \in Nat /\ shape.h \in Nat
  BY ScaledIs DEF ResidualsKept
<1>2. \A s \in Shots(p) :
        buf[Spot(p, s)] = IF s[1] = 0 THEN Shadow(shape, 0, s[2], s[3])
                          ELSE MeanOf(shape, s[1], s[2], s[3])
  BY DEF ResidualsKept
<1> HIDE DEF p
<1>3. ASSUME NEW y \in {2 * e[1], 2 * e[1] + 1}, NEW x \in {2 * e[2], 2 * e[2] + 1}
      PROVE  buf[y * (6 * shape.w) + x] = Shadow(shape, 0, y, x)
  <2>1. << y, x >> \in Pixels(p)
    <3>1. e[1] \in Upto(p.h \div 2) /\ e[2] \in Upto(p.w \div 2)
      BY DEF Halves, p
    <3>2. \A n \in Nat : \A i \in Upto(n) : 2 * i \in Upto(2 * n) /\ 2 * i + 1 \in Upto(2 * n)
      BY DEF Upto
    <3>3. /\ p.h \div 2 \in Nat /\ p.w \div 2 \in Nat /\ p.h = 2 * (p.h \div 2)
          /\ p.w = 2 * (p.w \div 2)
      BY <1>1, EvenSides
    <3>4. y \in Upto(2 * (p.h \div 2)) /\ x \in Upto(2 * (p.w \div 2))
      BY <3>1, <3>2, <3>3
    <3>5. y \in Upto(p.h) /\ x \in Upto(p.w)
      BY <3>3, <3>4
    <3> QED
      BY <3>5 DEF Pixels
  <2> DEFINE f == << y, x >>
             s == << 0, f[1], f[2] >>
  <2>2. s \in Shots(p) /\ s[1] = 0 /\ s[2] = y /\ s[3] = x
    BY <2>1, IsShot
  <2>3. Spot(p, s) = y * (6 * shape.w) + x
    <3>1. Spot(p, s) = f[1] * Pitch(p) + f[2]
      BY <1>1, <2>1, SpotIs
    <3> QED
      BY <1>1, <3>1
  <2> HIDE DEF s
  <2> QED
    BY <1>2, <2>2, <2>3
<1>4. ASSUME ch # 0
      PROVE  buf[(6 * shape.w) * 6 * shape.h + e[1] * (6 * shape.w) + 2 * e[2] + ch - 1]
               = MeanOf(shape, ch, e[1], e[2])
  <2> DEFINE s == << ch, e[1], e[2] >>
  <2>1. ch \in {1, 2} /\ e \in Halves(p)
    BY <1>4 DEF Upto, p
  <2>2. s \in Shots(p) /\ s[1] = ch /\ s[2] = e[1] /\ s[3] = e[2]
    BY <2>1, IsShot
  <2>3. Spot(p, s) = UPlane(p) + e[1] * Pitch(p) + 2 * e[2] + ch - 1
    BY <1>1, <2>1, SpotIs
  <2>4. UPlane(p) = (6 * shape.w) * 6 * shape.h
    <3>1. \A a, b \in Nat : (6 * a) * (6 * b) = (6 * a) * 6 * b
      OBVIOUS
    <3> QED
      BY <1>1, <3>1 DEF UPlane
  <2> HIDE DEF s
  <2> QED
    BY <1>1, <1>2, <1>4, <2>2, <2>3, <2>4
<1> QED
  BY <1>3, <1>4

-----------------------------------------------------------------------------
(* Each step keeps the invariant of pictures.                              *)

LEMMA PicInvKeeps == PicInv => PicturesKeepSamples
<1> SUFFICES ASSUME PicInv
             PROVE  PicturesKeepSamples
  OBVIOUS
<1>1. CASE layout.kind = "nv12" /\ shape.w % 2 = 0 /\ shape.h % 2 = 0
  <2>1. PictureKept
    BY <1>1 DEF PicInv
  <2> QED
    BY <1>1, <2>1, Nv12Keeps DEF PicturesKeepSamples
<1>2. CASE layout.kind = "phases"
  <2>1. PhasesKept
    BY <1>2 DEF PicInv
  <2> QED
    BY <1>2, <2>1, PhasesKeep DEF PicturesKeepSamples
<1>3. CASE layout.kind = "added"
  <2>1. ResidualsKept
    BY <1>3 DEF PicInv
  <2> DEFINE w == 6 * shape.w
             under(ch, y, x) == Wide(Residual(shape, ch, y % 6, x % 6, y \div 6, x \div 6))
             mean(e, ch) == under(ch, 2 * e[1], 2 * e[2]) + under(ch, 2 * e[1], 2 * e[2] + 1)
                              + under(ch, 2 * e[1] + 1, 2 * e[2])
                              + under(ch, 2 * e[1] + 1, 2 * e[2] + 1)
  <2>2. SUFFICES ASSUME NEW e \in Halves(Scaled(shape)), NEW ch \in Upto(3)
                 PROVE  IF ch = 0
                        THEN \A y \in {2 * e[1], 2 * e[1] + 1}, x \in {2 * e[2], 2 * e[2] + 1} :
                               buf[y * w + x] = under(ch, y, x)
                        ELSE buf[w * 6 * shape.h + e[1] * w + 2 * e[2] + ch - 1]
                               = (mean(e, ch) + 2) \div 4
    BY <1>3 DEF PicturesKeepSamples
  <2>3. \A y, x : under(ch, y, x) = Shadow(shape, ch, y, x)
    BY DEF Shadow, UnderAt
  <2>4. (mean(e, ch) + 2) \div 4 = MeanOf(shape, ch, e[1], e[2])
    <3> HIDE DEF under
    <3> QED
      BY <2>3 DEF MeanOf
  <2>5. /\ ch = 0 =>
             \A y \in {2 * e[1], 2 * e[1] + 1}, x \in {2 * e[2], 2 * e[2] + 1} :
               buf[y * w + x] = Shadow(shape, ch, y, x)
        /\ ch # 0 =>
             buf[w * 6 * shape.h + e[1] * w + 2 * e[2] + ch - 1] = MeanOf(shape, ch, e[1], e[2])
    BY <2>1, ResidualsKeep
  <2> HIDE DEF under, mean
  <2> QED
    BY <2>3, <2>4, <2>5
<1>4. CASE /\ ~(layout.kind = "nv12" /\ shape.w % 2 = 0 /\ shape.h % 2 = 0)
           /\ layout.kind # "phases" /\ layout.kind # "added"
  BY <1>4 DEF PicturesKeepSamples
<1> QED
  BY <1>1, <1>2, <1>3, <1>4

LEMMA PicGiveKeeps ==
  ASSUME GivePicture \/ GiveResidual
  PROVE  PicInv'
<1>1. CASE GivePicture
  <2>1. layout'.kind = "planes" /\ PlanesGiven'
    BY <1>1 DEF GivePicture, PlanesGiven, Given
  <2> QED
    BY <2>1 DEF PicInv
<1>2. CASE GiveResidual
  <2>1. layout'.kind = "residual" /\ CoreGiven'
    BY <1>2 DEF GiveResidual, CoreGiven, ResidualGiven
  <2> QED
    BY <2>1 DEF PicInv
<1> QED
  BY <1>1, <1>2

LEMMA SeenByte ==
  ASSUME NEW p, EvenPicture(p), Given(p), NEW s \in Dots(p)
  PROVE  buf[Source(p, s)] = Seen(p, s) /\ Seen(p, s) \in 0 .. 255
<1>1. Source(p, s) \in Upto(Bytes(p))
  BY SourceIn
<1>2. Source(p, s) \in Nat
  BY <1>1 DEF Upto
<1>3. Sample(Source(p, s)) \in 0 .. 255
  BY <1>2 DEF Sample
<1> QED
  BY <1>1, <1>3 DEF Given, Seen

LEMMA PicToNetworkKeeps ==
  ASSUME PicInv, PictureToNetwork
  PROVE  PicInv'
<1> DEFINE p == shape
           n == 3 * Plane(p)
<1>1. /\ PlanesGiven /\ layout'.kind = "input" /\ shape' = shape
      /\ buf' = [i \in Upto(n) |-> ByteBack(Moved(YuvToNhwc(p), n, Blank)[i])]
  BY DEF PictureToNetwork, PicInv
<1>2. ASSUME EvenPicture(p), NEW s \in Dots(p)
      PROVE  buf'[Dot(p, s)] = Seen(p, s)
  <2>1. Dot(p, s) \in Upto(n)
    BY <1>2, DotIn
  <2>2. Moved(YuvToNhwc(p), n, Blank)[Dot(p, s)] = buf[Source(p, s)]
    BY <1>2, YuvMoved
  <2>3. buf[Source(p, s)] = Seen(p, s) /\ Seen(p, s) \in 0 .. 255
    BY <1>1, <1>2, SeenByte DEF PlanesGiven
  <2>4. buf'[Dot(p, s)] = ByteBack(Seen(p, s))
    BY <1>1, <2>1, <2>2, <2>3
  <2> QED
    BY <2>3, <2>4, ByteSurvives
<1>3. InputKept'
  <2>1. shape' \in Pictures
    BY <1>1 DEF PlanesGiven
  <2>2. EvenPicture(p) => \A s \in Dots(p) : buf'[Dot(p, s)] = Seen(p, s)
    BY <1>2
  <2> QED
    BY <1>1, <2>1, <2>2 DEF InputKept
<1> QED
  BY <1>1, <1>3 DEF PicInv

(* What the network is given at a place, in either of its layouts.         *)
LEMMA NetworkPlaces ==
  ASSUME NEW p, EvenPicture(p), NEW s \in Dots(p)
  PROVE  LET b == FromBlock(p, s[1], << s[2], s[3] >>)
             m == FromNchw(p, s[1], << s[2], s[3] >>)
         IN /\ b \in Upto(Lanes * Plane(p)) /\ b % Lanes < 3
            /\ (b \div Lanes) * 3 + (b % Lanes) = Dot(p, s)
            /\ m \in Upto(3 * Plane(p))
            /\ (m % Plane(p)) * 3 + m \div Plane(p) = Dot(p, s)
<1> DEFINE a == Behind(s[2], p.w, s[3])
           c == s[1]
           q == Plane(p)
           b == FromBlock(p, s[1], << s[2], s[3] >>)
           m == FromNchw(p, s[1], << s[2], s[3] >>)
<1>1. /\ a \in Upto(q) /\ q \in Nat /\ c \in Upto(3) /\ Dot(p, s) = a * 3 + c
      /\ a \in Nat /\ c \in Nat /\ q \in Nat \ {0}
  <2>1. a \in Upto(q) /\ q \in Nat
    BY DotIn
  <2>2. c \in Upto(3)
    BY DotIs
  <2>3. Dot(p, s) = a * 3 + c
    BY DEF Dot, Behind
  <2> HIDE DEF a, c, q
  <2> QED
    BY <2>1, <2>2, <2>3 DEF Upto
<1>2. b = Behind(a, 8, c)
  BY DEF FromBlock, Behind, Lanes
<1>3. m = Behind(c, q, a)
  <2>1. m = c * q + s[2] * p.w + s[3]
    BY DEF FromNchw
  <2>2. Behind(c, q, a) = c * q + (s[2] * p.w + s[3])
    BY DEF Behind
  <2>3. s[2] \in Nat /\ s[3] \in Nat /\ p.w \in Nat
    BY DotIs, EvenSides, UptoNat
  <2>4. s[2] * p.w \in Nat /\ c * q \in Nat
    BY <1>1, <2>3, Products
  <2>5. \A i, j, k \in Nat : i + j + k = i + (j + k)
    OBVIOUS
  <2> HIDE DEF m, a, c, q
  <2> QED
    BY <2>1, <2>2, <2>3, <2>4, <2>5
<1> HIDE DEF a, b, c, m, q
<1>4. c \in Upto(8) /\ 8 \in Nat \ {0} /\ 8 \in Nat
  BY <1>1 DEF Upto
<1>5. b \in Upto(q * 8) /\ b \div 8 = a /\ b % 8 = c
  BY <1>1, <1>2, <1>4, BehindIn, Composed
<1>6. m \in Upto(3 * q) /\ m \div q = c /\ m % q = a
  BY <1>1, <1>3, BehindIn, Composed
<1>7. q * 8 = 8 * q
  BY <1>1
<1>8. c < 3
  BY <1>1 DEF Upto
<1>9. b \in Upto(Lanes * q) /\ b % Lanes < 3 /\ (b \div Lanes) * 3 + (b % Lanes) = Dot(p, s)
  BY <1>1, <1>5, <1>7, <1>8 DEF Lanes
<1>10. (m % q) * 3 + m \div q = Dot(p, s)
  BY <1>1, <1>6
<1> QED
  BY <1>6, <1>9, <1>10 DEF b, m, q

LEMMA NetworkKeeps ==
  ASSUME PicInv, Network
  PROVE  PicInv'
<1> DEFINE p == shape
<1>1. InputKept /\ layout'.kind = "output" /\ shape' = shape /\ shape' \in Pictures
  BY DEF Network, PicInv, InputKept
<1>2. PICK blocked \in BOOLEAN :
        /\ layout' = [kind |-> "output", blocked |-> blocked]
        /\ buf' = [i \in Upto((IF blocked THEN Lanes ELSE 3) * Plane(p)) |->
                     IF blocked
                     THEN IF i % Lanes < 3 THEN buf[(i \div Lanes) * 3 + (i % Lanes)] ELSE 0
                     ELSE buf[(i % Plane(p)) * 3 + i \div Plane(p)]]
  BY DEF Network
<1>3. ASSUME EvenPicture(p), NEW s \in Dots(p)
      PROVE  buf'[From(p, s)'] = Seen(p, s)
  <2> DEFINE b == FromBlock(p, s[1], << s[2], s[3] >>)
             m == FromNchw(p, s[1], << s[2], s[3] >>)
  <2>1. /\ b \in Upto(Lanes * Plane(p)) /\ b % Lanes < 3
        /\ (b \div Lanes) * 3 + (b % Lanes) = Dot(p, s)
        /\ m \in Upto(3 * Plane(p))
        /\ (m % Plane(p)) * 3 + m \div Plane(p) = Dot(p, s)
    BY <1>3, NetworkPlaces
  <2>2. buf[Dot(p, s)] = Seen(p, s)
    BY <1>1, <1>3 DEF InputKept
  <2> HIDE DEF b, m
  <2>3. CASE blocked
    <3>1. buf'[b] = buf[(b \div Lanes) * 3 + (b % Lanes)]
      BY <1>2, <2>1, <2>3
    <3>2. From(p, s)' = b
      BY <1>1, <1>2, <2>3 DEF From, b, FromBlock, Lanes
    <3> QED
      BY <2>1, <2>2, <3>1, <3>2
  <2>4. CASE ~blocked
    <3>1. buf'[m] = buf[(m % Plane(p)) * 3 + m \div Plane(p)]
      BY <1>2, <2>1, <2>4
    <3>2. From(p, s)' = m
      BY <1>1, <1>2, <2>4 DEF From, m, FromNchw, Plane
    <3> QED
      BY <2>1, <2>2, <3>1, <3>2
  <2> QED
    BY <2>3, <2>4
<1>4. OutputKept'
  BY <1>1, <1>3 DEF OutputKept, From, FromBlock, FromNchw, Plane
<1> QED
  BY <1>1, <1>4 DEF PicInv


LEMMA NetworkToPictureKeeps ==
  ASSUME PicInv, NetworkToPicture
  PROVE  PicInv'
<1> DEFINE p == shape
           n == Pitch(p) * (p.h + p.h \div 2)
<1>1. OutputKept /\ layout'.kind = "nv12" /\ shape' = shape /\ shape' \in Pictures
  BY DEF NetworkToPicture, PicInv, OutputKept
<1>2. buf' = [i \in Upto(n) |->
                Moved(IF layout.blocked THEN ToNv12(p, FromBlock) ELSE ToNv12(p, FromNchw),
                      n, Blank)[i]]
  BY DEF NetworkToPicture
<1>3. ASSUME EvenPicture(p), NEW s \in Shots(p)
      PROVE  buf'[Spot(p, s)] = Seen(p, Shown(s))
  <2>1. n = SpotCount(p)
    <3>1. Pitch(p) \in Nat /\ p.h + p.h \div 2 \in Nat
      BY <1>3, EvenSides
    <3>2. \A i, j \in Nat : i * j = j * i
      OBVIOUS
    <3> QED
      BY <3>1, <3>2 DEF SpotCount
  <2>2. Spot(p, s) \in Upto(n)
    BY <1>3, <2>1, SpotIn
  <2>3. /\ Moved(ToNv12(p, FromBlock), n, Blank)[Spot(p, s)] = buf[FromBlock(p, s[1], Pixel(s))]
        /\ Moved(ToNv12(p, FromNchw), n, Blank)[Spot(p, s)] = buf[FromNchw(p, s[1], Pixel(s))]
    BY <1>3, <2>1, Nv12Moved
  <2>4. /\ Shown(s) \in Dots(p) /\ Shown(s)[1] = s[1]
        /\ << Shown(s)[2], Shown(s)[3] >> = Pixel(s)
    <3>1. Shown(s) \in Dots(p)
      BY <1>3, ShownIn
    <3>2. Pixel(s) = << Pixel(s)[1], Pixel(s)[2] >>
      BY DEF Pixel
    <3> QED
      BY <3>1, <3>2 DEF Shown
  <2>5. buf[From(p, Shown(s))] = Seen(p, Shown(s))
    BY <1>1, <1>3, <2>4 DEF OutputKept
  <2>6. From(p, Shown(s)) = IF layout.blocked THEN FromBlock(p, s[1], Pixel(s))
                                              ELSE FromNchw(p, s[1], Pixel(s))
    BY <2>4 DEF From
  <2> HIDE DEF n
  <2>7. CASE layout.blocked
    <3>1. buf'[Spot(p, s)] = Moved(ToNv12(p, FromBlock), n, Blank)[Spot(p, s)]
      BY <1>2, <2>2, <2>7
    <3> QED
      BY <2>3, <2>5, <2>6, <2>7, <3>1
  <2>8. CASE ~layout.blocked
    <3>1. buf'[Spot(p, s)] = Moved(ToNv12(p, FromNchw), n, Blank)[Spot(p, s)]
      BY <1>2, <2>2, <2>8
    <3> QED
      BY <2>3, <2>5, <2>6, <2>8, <3>1
  <2> QED
    BY <2>7, <2>8
<1>4. PictureKept'
  <2>1. EvenPicture(p) => \A s \in Shots(p) : buf'[Spot(p, s)] = Seen(p, Shown(s))
    BY <1>3
  <2> QED
    BY <1>1, <2>1 DEF PictureKept
<1> QED
  BY <1>1, <1>4 DEF PicInv

LEMMA PackPhasesKeeps ==
  ASSUME PicInv, PackPhases
  PROVE  PicInv'
<1> DEFINE p == shape
           n == 3 * Plane(p)
<1>1. /\ PlanesGiven /\ layout'.kind = "phases" /\ shape' = shape /\ p.nv12
      /\ p.w % 2 = 0 /\ p.h % 2 = 0 /\ buf' = Means(PhaseStores(p), n)
  BY DEF PackPhases, PicInv
<1>2. EvenPicture(p) /\ Given(p)
  BY <1>1, PictureIs DEF PlanesGiven
<1>3. ASSUME NEW ch \in Upto(3), NEW e \in Pixels(p)
      PROVE  /\ buf'[Phase(p, ch, e)] \in Nat
             /\ ch = 0 \/ (e[1] % 2 = 0 /\ e[2] % 2 = 0) =>
                  buf'[Phase(p, ch, e)] = Seen(p, << ch, e[1], e[2] >>)
  BY <1>1, <1>2, PhaseMeans
<1>4. DOMAIN buf' = Upto(n)
  BY <1>1 DEF Means
<1> HIDE DEF p
<1>5. ASSUME NEW i \in DOMAIN buf'
      PROVE  buf'[i] # Blank
  <2>1. PICK ch \in Upto(3), e \in Pixels(p) : i = Phase(p, ch, e)
    BY <1>2, <1>4, PhaseCovers
  <2>2. buf'[i] \in Nat
    BY <1>3, <2>1
  <2> QED
    BY <2>2 DEF Blank
<1>6. ASSUME NEW s \in Dots(p), Direct(s)
      PROVE  buf'[Place(p, s)] = Seen(p, s)
  <2> DEFINE e  == << s[2], s[3] >>
             ch == s[1]
  <2>1. s = << ch, e[1], e[2] >> /\ ch \in Upto(3) /\ e \in Pixels(p)
    BY DotIs DEF Pixels
  <2>2. ch = 0 \/ (e[1] % 2 = 0 /\ e[2] % 2 = 0)
    BY <1>6 DEF Direct
  <2>3. Place(p, s) = Phase(p, ch, e)
    BY DEF Place
  <2> HIDE DEF e, ch
  <2> QED
    BY <1>3, <2>1, <2>2, <2>3
<1>7. PhasesKept'
  BY <1>1, <1>2, <1>5, <1>6 DEF PhasesKept, p
<1> QED
  BY <1>1, <1>7 DEF PicInv

LEMMA AddResidualKeeps ==
  ASSUME PicInv, AddResidual
  PROVE  PicInv'
<1> DEFINE c == shape
           p == Scaled(c)
<1>1. /\ CoreGiven /\ layout'.kind = "added" /\ shape' = shape
      /\ buf' = Means(ResidualStores(c), (Plane(p) * 3) \div 2)
  BY DEF AddResidual, PicInv
<1>2. IsCore(c) /\ ResidualGiven(c)
  BY <1>1, ShapesAssumption DEF CoreGiven, IsCore
<1>3. ASSUME NEW s \in Shots(p)
      PROVE  buf'[Spot(p, s)] = IF s[1] = 0 THEN Shadow(c, 0, s[2], s[3])
                                ELSE MeanOf(c, s[1], s[2], s[3])
  <2> DEFINE mean == Means(ResidualStores(c), (Plane(p) * 3) \div 2)[Spot(p, s)]
  <2>1. /\ s[1] = 0 => mean = Shadow(c, 0, s[2], s[3])
        /\ s[1] # 0 => mean = (Shadow(c, s[1], 2 * s[2], 2 * s[3])
                                 + Shadow(c, s[1], 2 * s[2], 2 * s[3] + 1)
                                 + Shadow(c, s[1], 2 * s[2] + 1, 2 * s[3])
                                 + Shadow(c, s[1], 2 * s[2] + 1, 2 * s[3] + 1) + 2) \div 4
    BY <1>2, ResidualMeans
  <2>2. buf'[Spot(p, s)] = mean
    BY <1>1
  <2> HIDE DEF mean, p, c
  <2> QED
    BY <2>1, <2>2 DEF MeanOf
<1>4. ResidualsKept'
  <2> HIDE DEF c
  <2> QED
    BY <1>1, <1>2, <1>3 DEF ResidualsKept, c
<1> QED
  BY <1>1, <1>4 DEF PicInv

LEMMA TensorStepsKeep ==
  ASSUME \/ GiveTensor \/ GiveHyper \/ ExtractScales \/ TensorToNhwc
         \/ (\E b \in Blocks : TensorToBlocks(b)) \/ TensorFromBlocks \/ TensorToSpace
  PROVE  PicInv'
<1>1. layout'.kind \in {"nchw", "hyper", "scales", "nhwc", "blocks", "space"}
  <2>1. CASE GiveTensor
    BY <2>1 DEF GiveTensor
  <2>2. CASE GiveHyper
    BY <2>2 DEF GiveHyper
  <2>3. CASE ExtractScales
    BY <2>3 DEF ExtractScales
  <2>4. CASE TensorToNhwc
    BY <2>4 DEF TensorToNhwc
  <2>5. CASE \E b \in Blocks : TensorToBlocks(b)
    BY <2>5 DEF TensorToBlocks
  <2>6. CASE TensorFromBlocks
    BY <2>6 DEF TensorFromBlocks
  <2>7. CASE TensorToSpace
    BY <2>7 DEF TensorToSpace
  <2> QED
    BY <2>1, <2>2, <2>3, <2>4, <2>5, <2>6, <2>7
<1> QED
  BY <1>1 DEF PicInv

(* Whatever picture with even sides, stride and layout of planes, and      *)
(* whatever super-resolution core, the kernels of pixel.cpp and post.cpp   *)
(* are given: what the network gives back is the picture, its input has    *)
(* every sample at its phase and no hole, and the residual that is added   *)
(* to a sample is that of the pixels it covers.                            *)
THEOREM PicturesSurviveTheKernels == PxSpec => []PicturesKeepSamples
<1>1. PxIdle => PicInv
  BY DEF PxIdle, PicInv, None
<1>2. PicInv /\ [PxNext]_pxVars => PicInv'
  <2> SUFFICES ASSUME PicInv, [PxNext]_pxVars
               PROVE  PicInv'
    OBVIOUS
  <2>1. CASE GivePicture \/ GiveResidual
    BY <2>1, PicGiveKeeps
  <2>2. CASE PictureToNetwork
    BY <2>2, PicToNetworkKeeps
  <2>3. CASE Network
    BY <2>3, NetworkKeeps
  <2>4. CASE NetworkToPicture
    BY <2>4, NetworkToPictureKeeps
  <2>5. CASE PackPhases
    BY <2>5, PackPhasesKeeps
  <2>6. CASE AddResidual
    BY <2>6, AddResidualKeeps
  <2>7. CASE \/ GiveTensor \/ GiveHyper \/ ExtractScales \/ TensorToNhwc
             \/ (\E b \in Blocks : TensorToBlocks(b)) \/ TensorFromBlocks \/ TensorToSpace
    BY <2>7, TensorStepsKeep
  <2>8. CASE UNCHANGED pxVars
    BY <2>8 DEF pxVars, PicInv, PlanesGiven, CoreGiven, InputKept, OutputKept, PictureKept,
                PhasesKept, ResidualsKept, Given, ResidualGiven, From
  <2> QED
    BY <2>1, <2>2, <2>3, <2>4, <2>5, <2>6, <2>7, <2>8 DEF PxNext
<1>3. PicInv => PicturesKeepSamples
  BY PicInvKeeps
<1> QED
  BY <1>1, <1>2, <1>3, PTL DEF PxSpec
=============================================================================
