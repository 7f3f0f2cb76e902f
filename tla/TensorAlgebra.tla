----------------------------- MODULE TensorAlgebra -----------------------------
(***************************************************************************)
(* What the operators of the compiler's graphs compute: the reference      *)
(* against which its passes are checked.  A tensor is a shape and a value  *)
(* for every index, indices counting from 0 in row-major order of the      *)
(* dimensions, as in the front ends.  Values are residues modulo a prime   *)
(* P, so that the laws the passes rely on (distributivity, division, the   *)
(* splitting of sums) hold exactly; functions of analysis (the square      *)
(* root, the exponential and their like) are fixed polynomials, of which   *)
(* no law is used.  A fused operator computes what its parts compute.      *)
(***************************************************************************)
EXTENDS Integers, Sequences, FiniteSets, SequencesExt, TLC

P == 31

Undefined == [shape |-> <<-1>>, at |-> <<>>]

Rank(x) == Len(x.shape)

\* f itself, which TLC computes once and for all: the table is always equal to it.
Tabulated(f) ==
  LET table == f @@ <<>>
  IN IF table = f THEN table ELSE f

\* Indices, longer by one for a dimension of size d.
Longer(S, d) == {Append(i, j) : i \in S, j \in 0 .. d - 1}

\* The indices of a shape.
Indices(shape) ==
  LET upto[k \in 0 .. Len(shape)] == IF k = 0 THEN {<<>>} ELSE Longer(upto[k - 1], shape[k])
  IN upto[Len(shape)]

Tensor(shape, at(_)) ==
  [shape |-> shape, at |-> Tabulated([i \in Indices(shape) |-> at(i)])]

Scalar(v) == Tensor(<<>>, LAMBDA i : v)
Vector(seq) == Tensor(<<Len(seq)>>, LAMBDA i : seq[i[1] + 1])
Matrix(rows) == Tensor(<<Len(rows), Len(rows[1])>>, LAMBDA i : rows[i[1] + 1][i[2] + 1])

\* A tensor of a shape with values that differ, from a seed.
Sample(shape, seed) ==
  LET weight[k \in 1 .. Len(shape)] == 1 + 3 * k + seed
  IN Tensor(shape, LAMBDA i :
       LET sum[k \in 0 .. Len(shape)] == IF k = 0 THEN seed + 2
                                         ELSE sum[k - 1] * weight[k] + i[k] * (seed + k)
       IN sum[Len(shape)] % P)

SumOf(f) == LET sum[S \in SUBSET DOMAIN f] ==
                  IF S = {} THEN 0
                  ELSE LET i == CHOOSE i \in S : TRUE IN f[i] + sum[S \ {i}]
            IN sum[DOMAIN f]

Inverses == [x \in 1 .. P - 1 |-> CHOOSE y \in 1 .. P - 1 : (x * y) % P = 1]
InverseOf(x) == IF x % P = 0 THEN 0 ELSE Inverses[x % P]

PowerOf(x, n) == LET pow[k \in 0 .. n] == IF k = 0 THEN 1 ELSE (pow[k - 1] * x) % P
                 IN pow[n]

--------------------------------------------------------------------------------
(* Elementwise operators *)

Opaque(a, b, c, x) == (a * x * x + b * x + c) % P

Unary(opcode, x) ==
  CASE opcode = "NEG" -> (P - x) % P
    [] opcode = "RELU" -> IF x > P \div 2 THEN 0 ELSE x
    [] opcode = "SQRT" -> Opaque(2, 7, 1, x)
    [] opcode = "RSQRT" -> InverseOf(Opaque(2, 7, 1, x))
    [] opcode = "EXP" -> Opaque(3, 5, 2, x)
    [] opcode = "TANH" -> Opaque(5, 1, 4, x)
    [] opcode = "SILU" -> Opaque(7, 3, 6, x)
    [] opcode = "SIGMOID" -> Opaque(4, 9, 8, x)
    [] opcode = "COS" -> Opaque(6, 2, 9, x)
    [] opcode = "LOG" -> Opaque(9, 2, 7, x)
    [] opcode = "SIN" -> Opaque(8, 4, 5, x)

Binary(opcode, x, y) ==
  CASE opcode = "ADD" -> (x + y) % P
    [] opcode = "SUB" -> (x - y) % P
    [] opcode = "MUL" -> (x * y) % P
    [] opcode = "DIV" -> (x * InverseOf(y)) % P
    [] opcode = "MAXIMUM" -> IF x >= y THEN x ELSE y
    [] opcode = "POW" -> PowerOf(x, y)

Map1(opcode, x) == Tensor(x.shape, LAMBDA i : Unary(opcode, x.at[i]))

\* Shapes are aligned at their last dimension; a dimension of 1 is repeated.
DimFromEnd(shape, k) == IF k < Len(shape) THEN shape[Len(shape) - k] ELSE 1

BroadcastShape(s, t) ==
  LET n == IF Len(s) >= Len(t) THEN Len(s) ELSE Len(t)
      size(a, b) == IF a = 1 THEN b ELSE IF b \in {1, a} THEN a ELSE -1
  IN Tabulated([k \in 1 .. n |-> size(DimFromEnd(s, n - k), DimFromEnd(t, n - k))])

BroadcastIndex(i, shape) ==
  Tabulated([k \in 1 .. Len(shape) |-> IF shape[k] = 1 THEN 0 ELSE i[k + Len(i) - Len(shape)]])

Map2(opcode, x, y) ==
  LET shape == BroadcastShape(x.shape, y.shape)
  IN IF \E k \in 1 .. Len(shape) : shape[k] = -1 THEN Undefined
     ELSE Tensor(shape, LAMBDA i : Binary(opcode, x.at[BroadcastIndex(i, x.shape)],
                                                  y.at[BroadcastIndex(i, y.shape)]))

Add(x, y) == Map2("ADD", x, y)
Mul(x, y) == Map2("MUL", x, y)
Pow(x, n) == Tensor(x.shape, LAMBDA i : PowerOf(x.at[i], n))

--------------------------------------------------------------------------------
(* Layout *)

\* A dimension counted from the front, 1 for the first.
Axis(dim, rank) == (IF dim < 0 THEN dim + rank ELSE dim) + 1

SwapAt(s, d, e) == [s EXCEPT ![d] = s[e], ![e] = s[d]]

TransposeOf(x, dim0, dim1) ==
  LET d == Axis(dim0, Rank(x))
      e == Axis(dim1, Rank(x))
  IN Tensor(SwapAt(x.shape, d, e), LAMBDA i : x.at[SwapAt(i, d, e)])

\* Dimension k of the result is dimension dims[k] (from 0) of x.
PermuteOf(x, dims) ==
  Tensor(Tabulated([k \in 1 .. Len(dims) |-> x.shape[Axis(dims[k], Rank(x))]]),
         LAMBDA i : x.at[Tabulated([d \in 1 .. Rank(x) |->
           i[CHOOSE k \in 1 .. Len(dims) : Axis(dims[k], Rank(x)) = d]])])

UnsqueezeOf(x, dim) ==
  LET d == Axis(dim, Rank(x) + 1)
  IN Tensor(InsertAt(x.shape, d, 1), LAMBDA i : x.at[RemoveAt(i, d)])

SqueezeOf(x, dim) ==
  LET d == Axis(dim, Rank(x))
  IN IF x.shape[d] /= 1 THEN x
     ELSE Tensor(RemoveAt(x.shape, d), LAMBDA i : x.at[InsertAt(i, d, 0)])

NumElements(shape) ==
  LET prod[k \in 0 .. Len(shape)] == IF k = 0 THEN 1 ELSE prod[k - 1] * shape[k]
  IN prod[Len(shape)]

\* Position of an index in row-major order, and back.
Offset(i, shape) ==
  LET off[k \in 0 .. Len(shape)] == IF k = 0 THEN 0 ELSE off[k - 1] * shape[k] + i[k]
  IN off[Len(shape)]

IndexAt(n, shape) ==
  Tabulated([k \in 1 .. Len(shape) |->
     (n \div NumElements(SubSeq(shape, k + 1, Len(shape)))) % shape[k]])

ReshapeOf(x, shape) ==
  IF NumElements(shape) /= NumElements(x.shape) THEN Undefined
  ELSE Tensor(shape, LAMBDA i : x.at[IndexAt(Offset(i, shape), x.shape)])

\* start .. end - 1 of a dimension; end may lie beyond it.
SliceOf(x, dim, start, end) ==
  LET d == Axis(dim, Rank(x))
      stop == IF end > x.shape[d] THEN x.shape[d] ELSE end
  IN Tensor([x.shape EXCEPT ![d] = stop - start],
            LAMBDA i : x.at[[i EXCEPT ![d] = @ + start]])

ConcatOf(x, y, dim) ==
  LET d == Axis(dim, Rank(x))
  IN IF Rank(x) /= Rank(y) \/ \E k \in 1 .. Rank(x) : k /= d /\ x.shape[k] /= y.shape[k]
     THEN Undefined
     ELSE Tensor([x.shape EXCEPT ![d] = @ + y.shape[d]],
                 LAMBDA i : IF i[d] < x.shape[d] THEN x.at[i]
                            ELSE y.at[[i EXCEPT ![d] = @ - x.shape[d]]])

ExpandOf(x, shape) == Tensor(shape, LAMBDA i : x.at[BroadcastIndex(i, x.shape)])

--------------------------------------------------------------------------------
(* Reductions, over one dimension that is kept with size 1 *)

Along(x, d, i) == Tabulated([j \in 0 .. x.shape[d] - 1 |-> x.at[[i EXCEPT ![d] = j]]])

Reduced(opcode, f) ==
  CASE opcode = "SUM" -> SumOf(f) % P
    [] opcode = "MEAN" -> (SumOf(f) * InverseOf(Cardinality(DOMAIN f))) % P
    [] opcode = "AMAX" -> CHOOSE m \in {f[j] : j \in DOMAIN f} : \A j \in DOMAIN f : f[j] <= m

ReduceOf(opcode, x, dim) ==
  LET d == Axis(dim, Rank(x))
  IN Tensor([x.shape EXCEPT ![d] = 1], LAMBDA i : Reduced(opcode, Along(x, d, i)))

MeanOf(x) == ReduceOf("MEAN", x, -1)

--------------------------------------------------------------------------------
(* Linear algebra *)

\* y[.., o] = sum over k of x[.., k] * w[o, k], plus b[o].
LinearOf(x, w) ==
  LET n == Rank(x)
  IN IF Rank(w) /= 2 \/ x.shape[n] /= w.shape[2] THEN Undefined
     ELSE Tensor([x.shape EXCEPT ![n] = w.shape[1]],
            LAMBDA i : SumOf([k \in 0 .. w.shape[2] - 1 |->
                                x.at[[i EXCEPT ![n] = k]] * w.at[<<i[n], k>>]]) % P)

\* A 1 x 1 convolution: y[n, o, h, w] = sum over c of x[n, c, h, w] * k[o, c, 0, 0].
Conv2dOf(x, w) ==
  IF x.shape[2] /= w.shape[2] THEN Undefined
  ELSE Tensor([x.shape EXCEPT ![2] = w.shape[1]],
         LAMBDA i : SumOf([c \in 0 .. w.shape[2] - 1 |->
                             x.at[[i EXCEPT ![2] = c]] * w.at[<<i[2], c, 0, 0>>]]) % P)

\* A bias of the channels, dimension 2 of an image.
OfChannels(b) == Tensor(<<1, b.shape[1], 1, 1>>, LAMBDA i : b.at[<<i[2]>>])

--------------------------------------------------------------------------------
(* Composite operators *)

LayerNormOf(x, eps) ==
  LET centred == Map2("SUB", x, MeanOf(x))
      variance == MeanOf(Mul(centred, centred))
  IN Mul(centred, Map1("RSQRT", Add(variance, Scalar(eps))))

RmsNormOf(x, eps) == Mul(x, Map1("RSQRT", Add(MeanOf(Mul(x, x)), Scalar(eps))))

SoftmaxOf(x) ==
  LET e == Map1("EXP", Map2("SUB", x, ReduceOf("AMAX", x, -1)))
  IN Map2("DIV", e, ReduceOf("SUM", e, -1))

\* The constants of the tanh approximation of GELU: 0.5, 0.044715, sqrt(2 / pi).
Half == 16
Coefficient == 20
RootTwoOverPi == 22

GeluOf(x) ==
  LET inner == Mul(Scalar(RootTwoOverPi),
                   Add(x, Mul(Scalar(Coefficient), Pow(x, 3))))
  IN Mul(Mul(Scalar(Half), x), Add(Map1("TANH", inner), Scalar(1)))

SwigluOf(gate, up) == Mul(Map1("SILU", gate), up)

\* Rotation of the halves of the last dimension by the angles pos * ratio ^ k.
\* The frequency base is named by the ratio of its first two angles.
RotateHalf(x) ==
  LET h == x.shape[Rank(x)] \div 2
  IN ConcatOf(Map1("NEG", SliceOf(x, -1, h, 2 * h)), SliceOf(x, -1, 0, h), -1)

Angles(pos, ratio, h) ==
  LET freqs == Vector([k \in 1 .. h |-> PowerOf(ratio, k - 1)])
      half == Mul(UnsqueezeOf(pos, 1), freqs)
  IN ConcatOf(half, half, -1)

\* x has the positions in dimension posDim (from 1).
RopeOf(x, pos, ratio, posDim) ==
  LET a == Angles(pos, ratio, x.shape[Rank(x)] \div 2)
      shape == [k \in 1 .. Rank(x) |-> IF k = posDim THEN a.shape[1]
                                       ELSE IF k = Rank(x) THEN a.shape[2] ELSE 1]
      angles == ReshapeOf(a, shape)
  IN Add(Mul(x, Map1("COS", angles)), Mul(RotateHalf(x), Map1("SIN", angles)))

\* Attention mixes its operands; a fixed function of them shows where they go.
SdpaOf(q, k, v) == Add(Mul(q, k), v)
================================================================================
