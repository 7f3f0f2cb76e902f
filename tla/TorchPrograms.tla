------------------------------ MODULE TorchPrograms ------------------------------
(***************************************************************************)
(* What the nodes of a program exported by torch.export compute, as        *)
(* frontend/pytorch reads them: the reference for what the compiled graph  *)
(* returns.  What arrays compute in both front ends is in JaxPrograms.     *)
(*                                                                         *)
(* A node is [op, in, out, p]: an ATen operator without its overload, the  *)
(* names of its operands (those of Literals are numbers) and of its        *)
(* result, and its other arguments.  A node with several results has       *)
(* [parts |-> results].  A program is [ins, held, given, nodes, outs]:     *)
(* its placeholders; of those that are parameters or buffers the kind, the *)
(* address of their numbers and the order these are read in; the values of *)
(* the placeholders; its nodes and its results.                            *)
(***************************************************************************)
EXTENDS JaxPrograms

Parts(parts) == [parts |-> parts]
IsParts(x) == "parts" \in DOMAIN x

\* One number for height and width, or one for each.
Both(v) == IF Len(v) = 1 THEN <<v[1], v[1]>> ELSE v

Channels(b, rank) == ReshapeOf(b, <<b.shape[1]>> \o [k \in 1 .. rank - 2 |-> 1])

Sides(v) == [d \in 1 .. 2 |-> <<Both(v)[d], Both(v)[d]>>]

\* Images are NCHW and kernels OIHW.
Convolved2d(x, w, p) ==
  PermuteOf(ConvGeneral(PermuteOf(x, <<0, 2, 3, 1>>), PermuteOf(w, <<2, 3, 1, 0>>),
              [window_strides |-> Both(p.stride), padding |-> Sides(p.padding),
               rhs_dilation |-> Both(p.dilation),
               feature_group_count |-> IF p.groups = 0 THEN 1 ELSE p.groups]), <<0, 3, 1, 2>>)

\* Signals are images of height 1.
Convolved1d(x, w, p) ==
  SqueezeOf(Convolved2d(UnsqueezeOf(x, 2), UnsqueezeOf(w, 2),
              [stride |-> <<1, p.stride[1]>>, padding |-> <<0, p.padding[1]>>,
               dilation |-> <<1, p.dilation[1]>>, groups |-> p.groups]), 2)

ConvolvedAny(x, p) ==
  LET y == IF Rank(x[1]) = 3 THEN Convolved1d(x[1], x[2], p) ELSE Convolved2d(x[1], x[2], p)
  IN IF Len(x) = 3 THEN Add(y, Channels(x[3], Rank(y))) ELSE y

\* Padding counts in a mean and never is a maximum.
Pooled(prim, x, size, stride, padding) ==
  PermuteOf(ReduceWindow(prim, PermuteOf(x, <<0, 2, 3, 1>>),
              [window_dimensions |-> <<1>> \o Both(size) \o <<1>>,
               window_strides |-> <<1>> \o Both(IF stride = <<>> THEN size ELSE stride) \o <<1>>,
               padding |-> <<<<0, 0>>>> \o Sides(padding) \o <<<<0, 0>>>>]), <<0, 3, 1, 2>>)

MeanPooled(x, size, stride, padding) ==
  Mul(Pooled("reduce_window_sum", x, size, stride, padding),
      Scalar(InverseOf(Both(size)[1] * Both(size)[2])))

MatMul(x, y) ==
  LET n == Rank(x)
      batch == [k \in 1 .. n - 2 |-> k - 1]
  IN DotGeneral(x, y, [lhs_batch |-> batch, rhs_batch |-> batch,
                       lhs_contracting |-> <<n - 1>>, rhs_contracting |-> <<n - 2>>])

WithBias(y, x) == IF Len(x) = 3 THEN Add(y, x[3]) ELSE y

Looked(table, index) ==
  Tensor(Append(index.shape, table.shape[2]), LAMBDA i : table.at[<<index.at[Front(i)], Last(i)>>])

NormalizedBatch(x, eps) ==
  LET over(k) == Channels(x[k], 4)
      centred == Map2("SUB", x[1], over(4))
  IN Add(Mul(Mul(centred, Map1("RSQRT", Add(over(5), Scalar(eps)))), over(2)), over(3))

AxesOf(x, dims) == Tabulated([k \in 1 .. Len(dims) |-> Axis(dims[k], Rank(x)) - 1])

ReducedOver(opcode, x, p) ==
  LET kept == FoldLeft(LAMBDA y, a : ReduceOf(opcode, y, a), x, AxesOf(x, p.dim))
  IN IF p.keepdim THEN kept ELSE ReducedAll(opcode, x, AxesOf(x, p.dim))

SoftmaxOver(x, dim) == TransposeOf(SoftmaxOf(TransposeOf(x, dim, -1)), dim, -1)

RolledOne(x, s, d) == Tensor(x.shape, LAMBDA i : x.at[[i EXCEPT ![d] = (@ - s) % x.shape[d]]])

RolledAll(x, p) ==
  FoldLeft(LAMBDA y, k : RolledOne(y, p.shifts[k], Axis(p.dims[k], Rank(x))), x,
           [k \in DOMAIN p.dims |-> k])

\* The whole tensor again and again, or each entry of a dimension.
Tiled(x, repeats) ==
  Tensor([k \in 1 .. Rank(x) |-> x.shape[k] * repeats[k]],
         LAMBDA i : x.at[[k \in 1 .. Rank(x) |-> i[k] % x.shape[k]]])

Interleaved(x, n, d) ==
  Tensor([x.shape EXCEPT ![d] = @ * n], LAMBDA i : x.at[[i EXCEPT ![d] = @ \div n]])

\* Parts of the sizes given, the last of them what is left.
Divided(x, sizes, dim) ==
  LET start(k) == SumOf([j \in 1 .. k - 1 |-> sizes[j]])
  IN Parts([k \in 1 .. Len(sizes) |-> SliceOf(x, dim, start(k), start(k) + sizes[k])])

CeilDiv(a, b) == (a + b - 1) \div b

DividedEvenly(x, size, dim) ==
  Divided(x, [k \in 1 .. CeilDiv(x.shape[Axis(dim, Rank(x))], size) |-> size], dim)

Selected1(x, dim, index) ==
  LET d == Axis(dim, Rank(x))
      i == IF index < 0 THEN index + x.shape[d] ELSE index
  IN ReshapeOf(SliceOf(x, dim, i, i + 1), RemoveAt(x.shape, d))

Between(x, p) ==
  LET d == Axis(p.dim, Rank(x))
      n == x.shape[d]
      from(v) == IF v < 0 THEN v + n ELSE Min({v, n})
  IN Sliced(x, [[k \in 1 .. Rank(x) |-> 0] EXCEPT ![d] = from(p.start)],
            [x.shape EXCEPT ![d] = from(p.end)], [[k \in 1 .. Rank(x) |-> 1] EXCEPT ![d] = p.step])

CumulativeSum(x) ==
  LET n == Rank(x)
  IN Tensor(x.shape, LAMBDA i : SumOf([k \in 0 .. i[n] |-> x.at[[i EXCEPT ![n] = k]]]) % P)

Along1(x, d, index) == Tensor(index.shape, LAMBDA i : x.at[[i EXCEPT ![d] = index.at[i]]])

Softplus(x) == Tensor(x.shape, LAMBDA i : Opaque(3, 8, 4, x.at[i]))

\* Zeros before and after each dimension, the last dimension first.
PaddedLast(x, pad) ==
  LET n == Rank(x)
      by(k) == IF 2 * (n - k) + 2 <= Len(pad) THEN <<pad[2 * (n - k) + 1], pad[2 * (n - k) + 2]>> ELSE <<0, 0>>
  IN PaddedAround(x, Scalar(0), [k \in 1 .. n |-> by(k)])

--------------------------------------------------------------------------------

AtenPointwise == Pointwise1 @@ [sigmoid |-> "SIGMOID"]

\* The result of a node.
AtenResult(op, p, x) ==
  CASE op \in DOMAIN AtenPointwise -> Map1(AtenPointwise[op], x[1])
    [] op \in DOMAIN Pointwise2 -> Map2(Pointwise2[op], x[1], x[2])
    [] op \in {"gt", "ge", "lt", "le", "eq", "ne"} -> Compared(op, x[1], x[2])
    [] op = "maximum" -> Compared("max", x[1], x[2])
    [] op = "rsub" -> Map2("SUB", x[2], x[1])
    [] op = "abs" -> Absolute(x[1])
    [] op = "gelu" -> IF p.approximate = "none" THEN GeluErf(x[1]) ELSE GeluOf(x[1])
    [] op \in {"hardswish", "hardsigmoid"} ->
         Activated(IF op = "hardswish" THEN "HARDSWISH" ELSE "HARDSIGMOID", x[1])
    [] op \in {"relu6", "hardtanh", "clamp", "clamp_min", "clamp_max"} -> Clamp(x[1], p.min, p.max)
    [] op = "pow" -> Pow(x[1], p.exponent)
    [] op \in {"transpose", "t"} -> TransposeOf(x[1], p.dim0, p.dim1)
    [] op = "permute" -> PermuteOf(x[1], p.dims)
    [] op \in {"view", "reshape", "flatten", "unflatten"} -> ReshapeOf(x[1], p.shape)
    [] op = "squeeze" -> SqueezeOf(x[1], p.dim)
    [] op = "unsqueeze" -> UnsqueezeOf(x[1], p.dim)
    [] op = "expand" -> ExpandOf(x[1], p.shape)
    [] op = "expand_as" -> ExpandOf(x[1], x[2].shape)
    [] op = "repeat" -> Tiled(x[1], p.repeats)
    [] op = "repeat_interleave" -> Interleaved(x[1], p.repeats, Axis(p.dim, Rank(x[1])))
    [] op = "cat" -> FoldLeft(LAMBDA a, b : ConcatOf(a, b, p.dim), x[1], Tail(x))
    [] op = "slice" -> Between(x[1], p)
    [] op = "select" -> Selected1(x[1], p.dim, p.index)
    [] op = "roll" -> RolledAll(x[1], p)
    [] op = "split" -> DividedEvenly(x[1], p.size, p.dim)
    [] op = "split_with_sizes" -> Divided(x[1], p.sizes, p.dim)
    [] op = "chunk" ->
         DividedEvenly(x[1], CeilDiv(x[1].shape[Axis(p.dim, Rank(x[1]))], p.chunks), p.dim)
    [] op = "unbind" ->
         Parts([k \in 1 .. x[1].shape[Axis(p.dim, Rank(x[1]))] |-> Selected1(x[1], p.dim, k - 1)])
    [] op = "getitem" -> x[1].parts[p.index + 1]
    [] op \in {"mean", "sum", "amax"} ->
         ReducedOver(IF op = "mean" THEN "MEAN" ELSE IF op = "sum" THEN "SUM" ELSE "AMAX", x[1], p)
    [] op = "linalg_vector_norm" -> Map1("SQRT", ReducedOver("SUM", Mul(x[1], x[1]), p))
    [] op = "softmax" -> SoftmaxOver(x[1], p.dim)
    [] op \in {"mm", "bmm", "matmul"} -> MatMul(x[1], x[2])
    [] op = "linear" -> WithBias(LinearOf(x[1], x[2]), x)
    [] op = "addmm" -> Add(MatMul(x[2], x[3]), x[1])
    [] op \in {"embedding", "index"} -> Looked(x[1], x[2])
    [] op = "layer_norm" -> Add(Mul(LayerNormOf(x[1], p.eps), x[2]), x[3])
    [] op = "rms_norm" -> Mul(RmsNormOf(x[1], p.eps), x[2])
    [] op = "scaled_dot_product_attention" -> SdpaOf(x[1], x[2], x[3])
    [] op \in {"conv1d", "conv2d", "convolution"} -> ConvolvedAny(x, p)
    [] op = "max_pool2d" -> Pooled("reduce_window_max", x[1], p.ksize, p.stride, p.padding)
    [] op = "max_pool2d_with_indices" ->
         Parts(<<Pooled("reduce_window_max", x[1], p.ksize, p.stride, p.padding)>>)
    [] op = "avg_pool2d" -> MeanPooled(x[1], p.ksize, p.stride, p.padding)
    [] op = "adaptive_avg_pool2d" ->
         LET size == [d \in 1 .. 2 |-> x[1].shape[d + 2] \div Both(p.size)[d]]
         IN MeanPooled(x[1], size, size, <<0>>)
    [] op \in {"batch_norm", "_native_batch_norm_legit_no_training"} -> NormalizedBatch(x, p.eps)
    [] op = "lerp" -> Add(x[1], Mul(x[3], Map2("SUB", x[2], x[1])))
    [] op = "arange" -> Vector([k \in 1 .. CeilDiv(p.end - p.start, p.step) |-> p.start + (k - 1) * p.step])
    [] op \in {"zeros", "ones", "new_zeros", "new_ones", "full_like"} ->
         Tensor(p.shape, LAMBDA i : p.value)
    [] op = "logical_and" -> Map2("MUL", x[1], x[2])
    [] op = "cumsum" -> CumulativeSum(x[1])
    [] op = "softplus" -> Softplus(x[1])
    [] op = "gather" -> Along1(x[1], Axis(p.dim, Rank(x[1])), x[2])
    [] op = "pad" -> PaddedLast(x[1], p.pad)
    [] OTHER -> x[1]  \* copies, and an operator that the importer does not know

ShapeOfResult(x) == IF IsParts(x) THEN x.parts[1].shape ELSE x.shape

\* The program with the shapes of its names and the values of its results.
Exported(p) ==
  LET args(n, env) == Tabulated([k \in 1 .. Len(n.in) |-> ValueOf(env, n.in[k])])
      values == FoldLeft(LAMBDA env, n : (n.out :> AtenResult(n.op, n.p, args(n, env))) @@ env,
                         p.given, p.nodes)
  IN [program |-> p, shapes |-> [v \in DOMAIN values |-> ShapeOfResult(values[v])],
      results |-> [k \in DOMAIN p.outs |-> values[p.outs[k]]]]
================================================================================
