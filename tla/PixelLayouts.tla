---------------------------- MODULE PixelLayouts ----------------------------
(***************************************************************************)
(* The kernels of codecs/mlvc/src/pixel.cpp and of codecs/sr/src/post.cpp  *)
(* that move pictures and tensors between memory layouts: planes (NV12 or  *)
(* I420, with strides), NCHW, NHWC, and the NPU's NC1HWC2 blocks.          *)
(*                                                                         *)
(* A kernel is the set of its stores, pairs << to, from >> of flat         *)
(* indices; a destination with several sources gets their mean.  A buffer  *)
(* is a function on its indices, and Blank what nobody wrote.  Half-       *)
(* precision numbers are modelled by their eleven significant bits.        *)
(***************************************************************************)
EXTENDS Integers, Sequences, FiniteSets

CONSTANTS Tensors,   \* shapes [c, h, w] of a tensor
          Blocks,    \* pairs << channels of a block, row stride >>, stride 0
                     \* for the width
          BlockSize, \* of depth to space
          Pictures,  \* shapes [w, h, pad, nv12]: pad is what a row's stride
                     \* has more than its width
          Cores,     \* shapes [w, h] of a super-resolution core
          Latents,   \* pairs [y, z] of tensor shapes, of latents and their
                     \* hyper-latents
          MaxScale   \* the largest scale index

VARIABLES shape,   \* what is being converted
          layout,  \* how the buffer is laid out, and with which parameter
          buf      \* the buffer

pxVars == << shape, layout, buf >>

IsSide(n)  == n \in Nat \ {0}
IsShape(t) == IsSide(t.c) /\ IsSide(t.h) /\ IsSide(t.w)

ASSUME ShapesAssumption ==
  /\ \A t \in Tensors : IsShape(t)
  /\ \A l \in Latents : IsShape(l.y) /\ IsShape(l.z)
  /\ \A b \in Blocks : b[1] \in Nat \ {0} /\ b[2] \in Int
  /\ BlockSize \in 1 .. 16 /\ MaxScale \in Nat   \* choff[16], pixel.cpp:299
  /\ \A p \in Pictures : IsSide(p.w) /\ IsSide(p.h) /\ p.pad \in Nat /\ p.nv12 \in BOOLEAN
  /\ \A c \in Cores : IsSide(c.w) /\ IsSide(c.h)

Lanes == 8   \* of a vector of 16-bit numbers
Blank == -1
None  == [kind |-> "none"]

Upto(n) == 0 .. n - 1
(* What a kernel's stores make of a buffer, in one of n elements.          *)
Moved(stores, n, fill) ==
  [i \in Upto(n) |->
     IF \E s \in stores : s[1] = i THEN buf[(CHOOSE s \in stores : s[1] = i)[2]] ELSE fill]

Nchw(t, c, y, x)        == (c * t.h + y) * t.w + x
Nhwc(t, c, y, x)        == (y * t.w + x) * t.c + c
Nc1hwc2(t, stride, c2, c, y, x) ==
  (((c \div c2) * t.h + y) * stride + x) * c2 + (c % c2)
Size(t)                 == t.c * t.h * t.w
Each(t)                 == Upto(t.c) \X Upto(t.h) \X Upto(t.w)

-----------------------------------------------------------------------------
(* Numbers.                                                                *)

(* A half-precision number has eleven significant bits: f32_to_f16() of an *)
(* integer below 2 ^ 16 rounds to the nearest multiple of its unit, ties   *)
(* to the even one, and lrintf(f16_to_f32()) is exact on what it gives.    *)
Half(n) ==
  LET unit == 2 ^ (CHOOSE k \in 0 .. 5 :
                     n < 2048 * 2 ^ k /\ (k = 0 \/ n >= 1024 * 2 ^ k))
      rest == n % unit
      q    == n \div unit
  IN IF 2 * rest > unit \/ (2 * rest = unit /\ q % 2 = 1) THEN (q + 1) * unit ELSE q * unit

(* A byte as a fraction of 255, in units of 2^-k with eleven bits, and     *)
(* back: times 255, rounded and saturated.                                 *)
Scale(b)     == CHOOSE k \in 10 .. 19 :
                  /\ b * 2 ^ k < 2048 * 255
                  /\ k = 19 \/ b * 2 ^ (k + 1) >= 2048 * 255
Fraction(b)  == (2 * b * 2 ^ Scale(b) + 255) \div 510
Saturated(v) == IF v < 0 THEN 0 ELSE IF v > 255 THEN 255 ELSE v
ByteBack(b)  ==
  Saturated((2 * 255 * Fraction(b) + 2 ^ Scale(b)) \div 2 ^ (Scale(b) + 1))

-----------------------------------------------------------------------------
(* transpose_8x8_u16: three rounds of pairwise exchanges, of single lanes, *)
(* of pairs and of halves.                                                 *)

Trn(a, b, g, odd) ==
  [i \in Upto(Lanes) |->
     LET block == i \div g
     IN IF block % 2 = 0 THEN a[(block + odd) * g + (i % g)]
                         ELSE b[(block - 1 + odd) * g + (i % g)]]

InOrder(n) == n   \* a fault: the last round takes its rows in order
Last(n)    == << 0, 2, 1, 3 >>[n + 1]

Exchanged ==
  LET r == [k \in Upto(Lanes) |-> [j \in Upto(Lanes) |-> << k, j >>]]
      t == [k \in Upto(Lanes) |-> Trn(r[2 * (k \div 2)], r[2 * (k \div 2) + 1], 1, k % 2)]
      v == [k \in Upto(Lanes) |->
              LET a == 4 * (k \div 4) + ((k % 4) \div 2) IN Trn(t[a], t[a + 2], 2, k % 2)]
  IN [k \in Upto(Lanes) |-> Trn(v[Last(k % 4)], v[Last(k % 4) + 4], 4, k \div 4)]

(* The columns that go through a vector, and those of the tail.            *)
Vectored(w) == w - (w % Lanes)

-----------------------------------------------------------------------------
(* The tensor kernels.                                                     *)

ToNhwc(t) == {<< Nhwc(t, e[1], e[2], e[3]), Nchw(t, e[1], e[2], e[3]) >> : e \in Each(t)}

(* nchw_f16_to_nc1hwc2: eight channels at a time when blocks are of eight, *)
(* one by one otherwise.                                                   *)
Stride(t, b)   == IF b[2] <= 0 THEN t.w ELSE b[2]
ByVector(t, b) == b[1] = Lanes /\ t.c % Lanes = 0
BlockCount(t, b) == (t.c + b[1] - 1) \div b[1]
BlockedSize(t, b) == BlockCount(t, b) * t.h * Stride(t, b) * b[1]

Scattered(t, b) ==
  {<< Nc1hwc2(t, Stride(t, b), b[1], e[1], e[2], e[3]), Nchw(t, e[1], e[2], e[3]) >> :
     e \in Each(t)}
VectorScattered(t, b) ==
  LET row(c1, y) == (c1 * t.h + y) * Stride(t, b) * Lanes
      rows   == Upto(t.c \div Lanes) \X Upto(t.h)
      starts == {x \in Upto(Vectored(t.w)) : x % Lanes = 0}
  IN {<< row(p[1], p[2]) + (x + k) * Lanes + j,
         Nchw(t, p[1] * Lanes + Exchanged[k][j][1], p[2], x + Exchanged[k][j][2]) >> :
        p \in rows, x \in starts, k \in Upto(Lanes), j \in Upto(Lanes)}
     \cup
     {<< row(p[1], p[2]) + x * Lanes + k, Nchw(t, p[1] * Lanes + k, p[2], x) >> :
        p \in rows, x \in Vectored(t.w) .. t.w - 1, k \in Upto(Lanes)}
ToBlocks(t, b) == IF ByVector(t, b) THEN VectorScattered(t, b) ELSE Scattered(t, b)

(* nc1hwc2_to_nchw: blocks of eight, vectors first and the tail after the  *)
(* pointer has moved on.                                                   *)
FromBlocks(t) ==
  LET row(c1, y) == (c1 * t.h + y) * t.w * Lanes
      rows   == Upto(t.c \div Lanes) \X Upto(t.h)
      starts == {x \in Upto(Vectored(t.w)) : x % Lanes = 0}
  IN {<< Nchw(t, p[1] * Lanes + k, p[2], x + j),
         row(p[1], p[2]) + x * Lanes + Exchanged[k][j][1] * Lanes + Exchanged[k][j][2] >> :
        p \in rows, x \in starts, k \in Upto(Lanes), j \in Upto(Lanes)}
     \cup
     {<< Nchw(t, p[1] * Lanes + k, p[2], x),
         row(p[1], p[2]) + Vectored(t.w) * Lanes + (x - Vectored(t.w)) * Lanes + k >> :
        p \in rows, x \in Vectored(t.w) .. t.w - 1, k \in Upto(Lanes)}

(* resolve_entropy_geometry (codec.cpp): how many channels and rows of the *)
(* latents share a hyper-latent, or << 0, 0 >>.                            *)
CeilDiv(a, b) == (a + b - 1) \div b
Repeats(l) ==
  LET fits(r) == l.z.h = CeilDiv(l.y.h, r) /\ l.z.w = CeilDiv(l.y.w, r)
      by == CASE fits(8) -> << 2, 8 >> [] ~fits(8) /\ fits(4) -> << 4, 4 >> [] OTHER -> << 0, 0 >>
  IN IF by[1] # 0 /\ CeilDiv(2 * l.y.c, by[1]) <= l.z.c THEN by ELSE << 0, 0 >>

(* extract_scales: the scale of each latent in each of the two passes; on  *)
(* a checkerboard, the passes take the two halves of the hyper-latents in  *)
(* turns.                                                                  *)
Magnitude(v) == IF v < 0 THEN -v ELSE v
Clamped(v)   == IF Magnitude(v) > MaxScale THEN MaxScale ELSE Magnitude(v)
Hyper(l, by, half, e) ==
  Nchw(l.z, (e[1] + half * l.y.c) \div by[1],
       IF e[2] \div by[2] >= l.z.h THEN l.z.h - 1 ELSE e[2] \div by[2],
       IF e[3] \div by[2] >= l.z.w THEN l.z.w - 1 ELSE e[3] \div by[2])
ScaleOf(l, by, pass, e) ==
  Clamped(buf[Hyper(l, by, IF e[2] % 2 = e[3] % 2 THEN pass ELSE 1 - pass, e)])

(* Depth to space of c channels: those of the tensor, or all that its      *)
(* blocks have room for.                                                   *)
Channels(t, l) == IF l.kind = "nchw" THEN t.c ELSE BlockCount(t, l.b) * l.b[1]
Spread(t, c) == [c |-> c \div (BlockSize * BlockSize), h |-> t.h * BlockSize,
                 w |-> t.w * BlockSize]
ToSpace(t) ==
  LET out == Spread(t, t.c)
  IN {<< Nchw(out, e[1], e[2], e[3]),
         Nchw(t, ((e[2] % BlockSize) * BlockSize + (e[3] % BlockSize)) * out.c + e[1],
              e[2] \div BlockSize, e[3] \div BlockSize) >> : e \in Each(out)}
BlocksToSpace(t, b) ==
  LET out == Spread(t, BlockCount(t, b) * b[1])
      channel(c, dy, dx) == dy * (BlockSize * out.c) + dx * out.c + c
      offset(ic) == (ic \div b[1]) * t.h * t.w * b[1] + (ic % b[1])
  IN {<< (c * out.h + p[1] * BlockSize + d[1]) * out.w + p[2] * BlockSize + d[2],
         p[1] * t.w * b[1] + p[2] * b[1] + offset(channel(c, d[1], d[2])) >> :
        c \in Upto(out.c), p \in Upto(t.h) \X Upto(t.w),
        d \in Upto(BlockSize) \X Upto(BlockSize)}

-----------------------------------------------------------------------------
(* The picture kernels.                                                    *)

Pitch(p)  == p.w + p.pad
Chroma(n) == (n + 1) \div 2
(* Where the chroma planes begin, the stride of their rows, and the        *)
(* distance between two samples.                                           *)
UvPitch(p) == IF p.nv12 THEN Pitch(p) ELSE Chroma(Pitch(p))
UPlane(p)  == Pitch(p) * p.h
VPlane(p)  == IF p.nv12 THEN UPlane(p) + 1 ELSE UPlane(p) + UvPitch(p) * Chroma(p.h)
Step(p)    == IF p.nv12 THEN 2 ELSE 1
Bytes(p)   == Pitch(p) * p.h + (IF p.nv12 THEN 1 ELSE 2) * UvPitch(p) * Chroma(p.h) + (p.w % 2)
Pixels(p)  == Upto(p.h) \X Upto(p.w)
Plane(p)   == p.w * p.h

(* yuv_to_nhwc_fp16: two rows share a chroma row, and an odd last row has  *)
(* its own.                                                                *)
YuvToNhwc(p) ==
  LET uv(e) == (e[1] \div 2) * UvPitch(p) + (e[2] \div 2) * Step(p)
      to(e) == (e[1] * p.w + e[2]) * 3
  IN UNION {{<< to(e), e[1] * Pitch(p) + e[2] >>, << to(e) + 1, UPlane(p) + uv(e) >>,
             << to(e) + 2, VPlane(p) + uv(e) >>} : e \in Pixels(p)}

(* A sample of channel ch at << y, x >> of what the network gave.          *)
FromNchw(p, ch, e)  == ch * Plane(p) + e[1] * p.w + e[2]
Packed(p, ch, e)    == (e[1] * p.w + e[2]) * 3 + ch   \* a fault: blocks of three
FromBlock(p, ch, e) == (e[1] * p.w + e[2]) * Lanes + ch

(* nchw_yuv_fp16_to_nv12_planes and nc1hwc2_fp16_to_nv12_planes: every     *)
(* luma sample, and of each chroma block the first.                        *)
Halves(p) == Upto(p.h \div 2) \X Upto(p.w \div 2)
ToNv12(p, From(_, _, _)) ==
  {<< e[1] * Pitch(p) + e[2], From(p, 0, e) >> : e \in Pixels(p)} \cup
  {<< UPlane(p) + d[1] * Pitch(p) + 2 * d[2] + ch - 1, From(p, ch, << 2 * d[1], 2 * d[2] >>) >> :
     d \in Halves(p), ch \in {1, 2}}

(* channel_at() of the super-resolution input: chroma is interpolated, and *)
(* the border repeated.                                                    *)
Least(a, b) == IF a < b THEN a ELSE b
Neighbours(p, ch, e) ==
  LET y0 == e[1] \div 2
      x0 == e[2] \div 2
      ys == IF e[1] % 2 = 0 THEN {y0} ELSE {y0, Least(y0 + 1, p.h \div 2 - 1)}
      xs == IF e[2] % 2 = 0 THEN {x0} ELSE {x0, Least(x0 + 1, p.w \div 2 - 1)}
  IN IF ch = 0 THEN {e[1] * Pitch(p) + e[2]}
     ELSE {UPlane(p) + s[1] * Pitch(p) + 2 * s[2] + ch - 1 : s \in ys \X xs}

(* phase_pack_nv12: a pixel's place in its 2 x 2 cell is its phase.        *)
Phase(p, ch, e) ==
  ((e[1] \div 2) * (p.w \div 2) + e[2] \div 2) * 12 + ch * 4 + (e[1] % 2) * 2 + (e[2] % 2)
PhaseStores(p) ==
  UNION {{<< Phase(p, ch, e), from >> : from \in Neighbours(p, ch, e)} :
           e \in Pixels(p), ch \in Upto(3)}

(* add_phase_residual onto the scaled picture: a luma sample has a phase   *)
(* of its own, a chroma sample the mean of four.                           *)
Scaled(c) == [w |-> 6 * c.w, h |-> 6 * c.h, pad |-> 0, nv12 |-> TRUE]
Residual(c, ch, dy, dx, cy, cx) ==
  (ch * 36 + dy * 6 + dx) * c.w * c.h + cy * c.w + cx
ResidualStores(c) ==
  LET p == Scaled(c)
      s0(ch, cy, cx, ey, ex) == Residual(c, ch, 2 * ey, 2 * ex, cy, cx)
  IN {<< e[1] * p.w + e[2],
         Residual(c, 0, e[1] % 6, e[2] % 6, e[1] \div 6, e[2] \div 6) >> : e \in Pixels(p)}
     \cup
     UNION {{<< Plane(p) + (k[1] * 3 + f[1]) * p.w + k[2] * 6 + f[2] * 2 + ch - 1,
                s0(ch, k[1], k[2], f[1], f[2]) + m * c.w * c.h >> : m \in {0, 1, 6, 7}} :
              k \in Upto(c.h) \X Upto(c.w), f \in Upto(3) \X Upto(3), ch \in {1, 2}}

Sum(from) ==
  LET sum[S \in SUBSET from] ==
        IF S = {} THEN 0 ELSE LET a == CHOOSE a \in S : TRUE IN buf[a] + sum[S \ {a}]
  IN sum[from]
Mean(from) == (Sum(from) + Cardinality(from) \div 2) \div Cardinality(from)
Means(stores, n) ==
  [i \in Upto(n) |->
     LET from == {s[2] : s \in {t \in stores : t[1] = i}}
     IN IF from = {} THEN Blank ELSE Mean(from)]

-----------------------------------------------------------------------------
(* The steps: a tensor or a picture is given, and kernels move it on.      *)

Sample(i) == (7 * i) % 256
Wide(i)   == 23 * i

PxIdle ==
  /\ shape = None
  /\ layout = None
  /\ buf = << >>

GiveTensor ==
  /\ shape = None
  /\ shape' \in Tensors
  /\ layout' = [kind |-> "nchw"]
  /\ buf' = [i \in Upto(Size(shape')) |-> Wide(i)]

GivePicture ==
  /\ shape = None
  /\ shape' \in Pictures
  /\ layout' = [kind |-> "planes"]
  /\ buf' = [i \in Upto(Bytes(shape')) |-> Sample(i)]

GiveResidual ==
  /\ shape = None
  /\ shape' \in Cores
  /\ layout' = [kind |-> "residual"]
  /\ buf' = [i \in Upto(108 * shape'.w * shape'.h) |-> Wide(i)]

(* Hyper-latents whose geometry bind_model() accepts.                      *)
GiveHyper ==
  /\ shape = None
  /\ shape' \in Latents
  /\ Repeats(shape') # << 0, 0 >>
  /\ layout' = [kind |-> "hyper"]
  /\ buf' = [i \in Upto(Size(shape'.z)) |-> i - Size(shape'.z) \div 2]

ExtractScales ==
  /\ layout.kind = "hyper"
  /\ layout' = [kind |-> "scales"]
  /\ buf' = [pass \in {0, 1} |->
               [e \in Each(shape.y) |-> ScaleOf(shape, Repeats(shape), pass, e)]]
  /\ UNCHANGED shape

TensorToNhwc ==
  /\ layout.kind = "nchw"
  /\ layout' = [kind |-> "nhwc"]
  /\ buf' = [i \in DOMAIN buf |-> Half(Moved(ToNhwc(shape), Size(shape), Blank)[i])]
  /\ UNCHANGED shape

TensorToBlocks(b) ==
  /\ layout.kind = "nchw"
  /\ Stride(shape, b) >= shape.w
  /\ layout' = [kind |-> "blocks", b |-> b]
  /\ buf' = Moved(ToBlocks(shape, b), BlockedSize(shape, b), 0)
  /\ UNCHANGED shape

TensorFromBlocks ==
  /\ layout.kind = "blocks"
  /\ layout.b = << Lanes, 0 >>
  /\ shape.c % Lanes = 0
  /\ layout' = [kind |-> "nchw"]
  /\ buf' = Moved(FromBlocks(shape), Size(shape), Blank)
  /\ UNCHANGED shape

TensorToSpace ==
  LET c == Channels(shape, layout)
  IN /\ \/ layout.kind = "nchw"
        \/ layout.kind = "blocks" /\ layout.b[2] = 0
     /\ c % (BlockSize * BlockSize) = 0
     /\ layout' = [kind |-> "space", c |-> c]
     /\ buf' = Moved(IF layout.kind = "nchw" THEN ToSpace(shape) ELSE BlocksToSpace(shape, layout.b),
                     c * shape.h * shape.w, Blank)
     /\ UNCHANGED shape

PictureToNetwork ==
  /\ layout.kind = "planes"
  /\ layout' = [kind |-> "input"]
  /\ buf' = [i \in Upto(3 * Plane(shape)) |->
               ByteBack(Moved(YuvToNhwc(shape), 3 * Plane(shape), Blank)[i])]
  /\ UNCHANGED shape

(* The network, as if it gave back what it got, in one of its layouts.     *)
Network ==
  /\ layout.kind = "input"
  /\ \E blocked \in BOOLEAN :
       /\ layout' = [kind |-> "output", blocked |-> blocked]
       /\ buf' = [i \in Upto((IF blocked THEN Lanes ELSE 3) * Plane(shape)) |->
                    IF blocked
                    THEN IF i % Lanes < 3 THEN buf[(i \div Lanes) * 3 + (i % Lanes)] ELSE 0
                    ELSE buf[(i % Plane(shape)) * 3 + i \div Plane(shape)]]
  /\ UNCHANGED shape

NetworkToPicture ==
  /\ layout.kind = "output"
  /\ layout' = [kind |-> "nv12"]
  /\ buf' = [i \in Upto(Pitch(shape) * (shape.h + shape.h \div 2)) |->
               Moved(IF layout.blocked THEN ToNv12(shape, FromBlock) ELSE ToNv12(shape, FromNchw),
                     Pitch(shape) * (shape.h + shape.h \div 2), Blank)[i]]
  /\ UNCHANGED shape

PackPhases ==
  /\ layout.kind = "planes"
  /\ shape.nv12 /\ shape.w % 2 = 0 /\ shape.h % 2 = 0
  /\ layout' = [kind |-> "phases"]
  /\ buf' = Means(PhaseStores(shape), 3 * Plane(shape))
  /\ UNCHANGED shape

AddResidual ==
  /\ layout.kind = "residual"
  /\ layout' = [kind |-> "added"]
  /\ buf' = Means(ResidualStores(shape), (Plane(Scaled(shape)) * 3) \div 2)
  /\ UNCHANGED shape

PxNext ==
  \/ GiveTensor \/ GivePicture \/ GiveResidual \/ GiveHyper
  \/ ExtractScales
  \/ TensorToNhwc \/ (\E b \in Blocks : TensorToBlocks(b)) \/ TensorFromBlocks \/ TensorToSpace
  \/ PictureToNetwork \/ Network \/ NetworkToPicture
  \/ PackPhases \/ AddResidual

PxSpec == PxIdle /\ [][PxNext]_pxVars

-----------------------------------------------------------------------------
(* Properties.                                                             *)

At(t, e)   == Wide(Nchw(t, e[1], e[2], e[3]))
Luma(p, y, x)      == Sample(y * Pitch(p) + x)
ChromaAt(p, ch, y, x) ==
  Sample((IF ch = 1 THEN UPlane(p) ELSE VPlane(p)) + y * UvPitch(p) + x * Step(p))

(* Whatever the route, by vector or one by one, every element is where its *)
(* layout says, none is left unwritten, and padding is zero (pixel.cpp).   *)
ElementsKept ==
  CASE layout.kind = "nhwc" ->
         \A e \in Each(shape) : buf[Nhwc(shape, e[1], e[2], e[3])] = Half(At(shape, e))
    [] layout.kind = "blocks" ->
         LET place(e) == Nc1hwc2(shape, Stride(shape, layout.b), layout.b[1], e[1], e[2], e[3])
         IN /\ \A e \in Each(shape) : buf[place(e)] = At(shape, e)
            /\ \A i \in DOMAIN buf \ {place(e) : e \in Each(shape)} : buf[i] = 0
    [] layout.kind = "nchw" ->
         \A e \in Each(shape) : buf[Nchw(shape, e[1], e[2], e[3])] = At(shape, e)
    [] layout.kind = "space" ->
         LET out == Spread(shape, layout.c)
         IN \A e \in Each(shape) :
              LET phase == e[1] \div out.c
              IN buf[Nchw(out, e[1] % out.c, e[2] * BlockSize + phase \div BlockSize,
                          e[3] * BlockSize + (phase % BlockSize))] = At(shape, e)
    [] OTHER -> TRUE

(* The scales of the two passes are in range, and latents that share their *)
(* hyper-latents get the same, on a checkerboard with the passes swapped   *)
(* (extract_scales).                                                       *)
ScalesShared ==
  layout.kind = "scales" =>
    \A e \in Each(shape.y) :
      /\ buf[0][e] \in 0 .. MaxScale /\ buf[1][e] \in 0 .. MaxScale
      /\ \A f \in Each(shape.y) :
           e[1] = f[1] /\ e[2] \div 4 = f[2] \div 4 /\ e[3] \div 4 = f[3] \div 4 =>
             IF (e[2] + e[3]) % 2 = (f[2] + f[3]) % 2
             THEN buf[0][e] = buf[0][f] /\ buf[1][e] = buf[1][f]
             ELSE buf[0][e] = buf[1][f] /\ buf[1][e] = buf[0][f]

TensorsKeepElements == ElementsKept /\ ScalesShared

(* A picture with even sides survives the way to the network and back, the *)
(* super-resolution network is given every sample at its phase and a value *)
(* everywhere, and each pixel of what it gives is the residual of its own  *)
(* phase (pixel.cpp, post.cpp).                                            *)
PicturesKeepSamples ==
  CASE layout.kind = "nv12" /\ shape.w % 2 = 0 /\ shape.h % 2 = 0 ->
         /\ \A e \in Pixels(shape) : buf[e[1] * Pitch(shape) + e[2]] = Luma(shape, e[1], e[2])
         /\ \A d \in Halves(shape), ch \in {1, 2} :
              buf[UPlane(shape) + d[1] * Pitch(shape) + 2 * d[2] + ch - 1]
                = ChromaAt(shape, ch, d[1], d[2])
    [] layout.kind = "phases" ->
         /\ \A i \in DOMAIN buf : buf[i] # Blank
         /\ \A e \in Pixels(shape) : buf[Phase(shape, 0, e)] = Luma(shape, e[1], e[2])
         /\ \A d \in Halves(shape), ch \in {1, 2} :
              buf[Phase(shape, ch, << 2 * d[1], 2 * d[2] >>)] = ChromaAt(shape, ch, d[1], d[2])
    [] layout.kind = "added" ->
         \A e \in Halves(Scaled(shape)), ch \in Upto(3) :
           LET w == 6 * shape.w
               under(y, x) == Wide(Residual(shape, ch, y % 6, x % 6, y \div 6, x \div 6))
               mean == under(2 * e[1], 2 * e[2]) + under(2 * e[1], 2 * e[2] + 1)
                         + under(2 * e[1] + 1, 2 * e[2]) + under(2 * e[1] + 1, 2 * e[2] + 1)
           IN IF ch = 0
              THEN \A y \in {2 * e[1], 2 * e[1] + 1}, x \in {2 * e[2], 2 * e[2] + 1} :
                     buf[y * w + x] = under(y, x)
              ELSE buf[w * 6 * shape.h + e[1] * w + 2 * e[2] + ch - 1] = (mean + 2) \div 4
    [] OTHER -> TRUE
=============================================================================
