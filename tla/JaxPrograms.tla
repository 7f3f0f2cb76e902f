------------------------------- MODULE JaxPrograms -------------------------------
(***************************************************************************)
(* What a jaxpr computes, primitive by primitive, as frontend/jax reads    *)
(* it: the reference for what the compiled graph returns.  Truth values    *)
(* are 0 and 1; integers are compared as signed numbers.                   *)
(*                                                                         *)
(* An equation is [prim, in, out, params, inner]: the names of its         *)
(* operands and results and, for a call, the jaxpr it calls.  The names of *)
(* Literals are literal operands.  A program is                            *)
(* [ins, consts, given, weights, ints, eqns, outs]: its inputs, its        *)
(* constants and their values, the inputs that are parameters of the       *)
(* model, and the names that are of an integer type.                       *)
(***************************************************************************)
EXTENDS GgmlRuntime

Literals ==
  [zero |-> Scalar(0), one |-> Scalar(1), two |-> Scalar(2), three |-> Scalar(3),
   half |-> Scalar(Half), root_half |-> Scalar(RootHalf)]

IsLiteral(v) == v \in DOMAIN Literals

Truth(b) == IF b THEN 1 ELSE 0

\* Two tensors of one shape, or a tensor and a scalar, element by element.
Pairwise(x, y, f(_, _)) ==
  LET shape == BroadcastShape(x.shape, y.shape)
  IN Tensor(shape, LAMBDA i : f(x.at[BroadcastIndex(i, x.shape)], y.at[BroadcastIndex(i, y.shape)]))

Compared(prim, x, y) ==
  CASE prim = "gt" -> Pairwise(x, y, LAMBDA a, b : Truth(Signed(a) > Signed(b)))
    [] prim = "ge" -> Pairwise(x, y, LAMBDA a, b : Truth(Signed(a) >= Signed(b)))
    [] prim = "lt" -> Pairwise(x, y, LAMBDA a, b : Truth(Signed(a) < Signed(b)))
    [] prim = "le" -> Pairwise(x, y, LAMBDA a, b : Truth(Signed(a) <= Signed(b)))
    [] prim = "eq" -> Pairwise(x, y, LAMBDA a, b : Truth(a = b))
    [] prim = "ne" -> Pairwise(x, y, LAMBDA a, b : Truth(a /= b))
    [] prim = "max" -> Pairwise(x, y, LAMBDA a, b : IF Signed(a) >= Signed(b) THEN a ELSE b)
    [] prim = "min" -> Pairwise(x, y, LAMBDA a, b : IF Signed(a) <= Signed(b) THEN a ELSE b)

\* The entries of s at the dimensions dims, which count from 0.
At(s, dims) == Tabulated([k \in 1 .. Len(dims) |-> s[dims[k] + 1]])

\* The dimensions of a rank that are not among some.
Others(rank, dims) == SelectSeq([k \in 1 .. rank |-> k - 1], LAMBDA d : d \notin Range(dims))

\* The index whose entry at dimension dims[k] is at[k].
Placed(dims, at) ==
  Tabulated([d \in 1 .. Len(dims) |-> at[CHOOSE k \in 1 .. Len(dims) : dims[k] = d - 1]])

\* Batch dimensions, then those of x alone, then those of y alone; k runs over
\* the contracted ones.
DotGeneral(x, y, p) ==
  LET freeX == Others(Rank(x), p.lhs_batch \o p.lhs_contracting)
      freeY == Others(Rank(y), p.rhs_batch \o p.rhs_contracting)
      nb == Len(p.lhs_batch)
      nx == nb + Len(freeX)
      ofX(i, k) == x.at[Placed(p.lhs_batch \o freeX \o p.lhs_contracting, SubSeq(i, 1, nx) \o k)]
      ofY(i, k) == y.at[Placed(p.rhs_batch \o freeY \o p.rhs_contracting,
                               SubSeq(i, 1, nb) \o SubSeq(i, nx + 1, Len(i)) \o k)]
  IN Tensor(At(x.shape, p.lhs_batch \o freeX) \o At(y.shape, freeY),
       LAMBDA i : SumOf([k \in Indices(At(x.shape, p.lhs_contracting)) |-> ofX(i, k) * ofY(i, k)]) % P)

BroadcastInDim(x, shape, dims) ==
  Tensor(shape, LAMBDA i :
    x.at[Tabulated([k \in 1 .. Rank(x) |-> IF x.shape[k] = 1 THEN 0 ELSE i[dims[k] + 1]])])

Sliced(x, starts, limits, strides) ==
  Tensor(Tabulated([k \in 1 .. Rank(x) |-> (limits[k] - starts[k] + strides[k] - 1) \div strides[k]]),
         LAMBDA i : x.at[Tabulated([k \in 1 .. Rank(x) |-> starts[k] + i[k] * strides[k]])])

ReducedAll(opcode, x, axes) ==
  ReshapeOf(FoldLeft(LAMBDA y, a : ReduceOf(opcode, y, a), x, axes),
            At(x.shape, Others(Rank(x), axes)))

\* Images are NHWC and kernels HWIO.
Position(i, k, stride, low, dilation) == i * stride - low + k * dilation

ConvGeneral(x, w, p) ==
  LET h(i, a) == Position(i[2], a, p.window_strides[1], p.padding[1][1], p.rhs_dilation[1])
      v(i, b) == Position(i[3], b, p.window_strides[2], p.padding[2][1], p.rhs_dilation[2])
      size(d) == (x.shape[d + 1] + p.padding[d][1] + p.padding[d][2]
                    - p.rhs_dilation[d] * (w.shape[d] - 1) - 1) \div p.window_strides[d] + 1
      channel(i, c) == (i[4] \div (w.shape[4] \div p.feature_group_count)) * w.shape[3] + c
      term(i, a, b, c) ==
        IF h(i, a) \in 0 .. x.shape[2] - 1 /\ v(i, b) \in 0 .. x.shape[3] - 1
        THEN x.at[<<i[1], h(i, a), v(i, b), channel(i, c)>>] * w.at[<<a, b, c, i[4]>>] ELSE 0
  IN Tensor(<<x.shape[1], size(1), size(2), w.shape[4]>>, LAMBDA i :
       SumOf([t \in (0 .. w.shape[1] - 1) \X (0 .. w.shape[2] - 1) \X (0 .. w.shape[3] - 1)
                |-> term(i, t[1], t[2], t[3])]) % P)

ReduceWindow(prim, x, p) ==
  LET size(d) == (x.shape[d] + p.padding[d][1] + p.padding[d][2] - p.window_dimensions[d])
                   \div p.window_strides[d] + 1
      cells(i) == {<<i[1], i[2] * p.window_strides[2] - p.padding[2][1] + a,
                     i[3] * p.window_strides[3] - p.padding[3][1] + b, i[4]>> :
                   a \in 0 .. p.window_dimensions[2] - 1, b \in 0 .. p.window_dimensions[3] - 1}
      values(i) == [c \in cells(i) \cap DOMAIN x.at |-> x.at[c]]
  IN Tensor(<<x.shape[1], size(2), size(3), x.shape[4]>>, LAMBDA i :
       IF prim = "reduce_window_max" THEN Greatest({values(i)[c] : c \in DOMAIN values(i)})
       ELSE SumOf(values(i)) % P)

PaddedAround(x, value, config) ==
  Tensor(Tabulated([k \in 1 .. Rank(x) |-> x.shape[k] + config[k][1] + config[k][2]]), LAMBDA i :
    LET j == Tabulated([k \in 1 .. Rank(x) |-> i[k] - config[k][1]])
    IN IF j \in DOMAIN x.at THEN x.at[j] ELSE value.at[<<>>])

\* One row of the table for each index; the indices' last dimension is 1.
Gathered(table, index) ==
  Tensor(Append(Front(index.shape), table.shape[2]),
         LAMBDA i : table.at[<<index.at[Append(Front(i), 0)], Last(i)>>])

Selected(cond, x, y) ==
  Tensor(x.shape, LAMBDA i : IF cond.at[BroadcastIndex(i, cond.shape)] = 0 THEN x.at[i] ELSE y.at[i])

--------------------------------------------------------------------------------

Pointwise1 == [neg |-> "NEG", exp |-> "EXP", log |-> "LOG", sqrt |-> "SQRT", rsqrt |-> "RSQRT",
               sin |-> "SIN", cos |-> "COS", tanh |-> "TANH", logistic |-> "SIGMOID",
               relu |-> "RELU", silu |-> "SILU"]

Pointwise2 == [add |-> "ADD", add_any |-> "ADD", sub |-> "SUB", mul |-> "MUL", div |-> "DIV"]

\* The results of a primitive that has one.
Primitive(prim, p, x) ==
  CASE prim \in DOMAIN Pointwise1 -> Map1(Pointwise1[prim], x[1])
    [] prim \in DOMAIN Pointwise2 -> Map2(Pointwise2[prim], x[1], x[2])
    [] prim \in {"gt", "ge", "lt", "le", "eq", "ne", "max", "min"} -> Compared(prim, x[1], x[2])
    [] prim = "abs" -> Absolute(x[1])
    [] prim = "erfc" -> Erfc(x[1])
    [] prim \in {"square", "integer_pow", "pow"} ->
         IF prim = "square" THEN Pow(x[1], 2)
         ELSE IF prim = "pow" THEN Pow(x[1], x[2].at[<<>>])
         ELSE IF p.y < 0 THEN Map2("DIV", Scalar(1), Pow(x[1], -p.y)) ELSE Pow(x[1], p.y)
    [] prim \in {"stop_gradient", "copy", "convert_element_type"} -> x[1]
    [] prim = "dot_general" -> DotGeneral(x[1], x[2], p)
    [] prim = "reshape" -> ReshapeOf(x[1], p.new_sizes)
    [] prim = "squeeze" -> ReshapeOf(x[1], At(x[1].shape, Others(Rank(x[1]), p.dimensions)))
    [] prim = "transpose" -> PermuteOf(x[1], p.permutation)
    [] prim = "broadcast_in_dim" -> BroadcastInDim(x[1], p.shape, p.broadcast_dimensions)
    [] prim = "concatenate" ->
         FoldLeft(LAMBDA a, b : ConcatOf(a, b, p.dimension), x[1], Tail(x))
    [] prim = "stack" ->
         FoldLeft(LAMBDA a, b : ConcatOf(a, UnsqueezeOf(b, p.axis), p.axis),
                  UnsqueezeOf(x[1], p.axis), Tail(x))
    [] prim = "slice" -> Sliced(x[1], p.start_indices, p.limit_indices, p.strides)
    [] prim = "dynamic_slice" ->
         LET starts == [k \in 1 .. Rank(x[1]) |-> x[k + 1].at[<<>>]]
         IN Sliced(x[1], starts, [k \in DOMAIN starts |-> starts[k] + p.slice_sizes[k]],
                   [k \in DOMAIN starts |-> 1])
    [] prim = "reduce_sum" -> ReducedAll("SUM", x[1], p.axes)
    [] prim = "reduce_max" -> ReducedAll("AMAX", x[1], p.axes)
    [] prim = "reduce_and" -> Compared("eq", ReducedAll("SUM", x[1], p.axes),
                                       Scalar(NumElements(At(x[1].shape, p.axes))))
    [] prim = "reduce_or" -> Compared("ne", ReducedAll("SUM", x[1], p.axes), Scalar(0))
    [] prim = "conv_general_dilated" -> ConvGeneral(x[1], x[2], p)
    [] prim \in {"reduce_window_max", "reduce_window_sum"} -> ReduceWindow(prim, x[1], p)
    [] prim = "pad" -> PaddedAround(x[1], x[2], p.padding_config)
    [] prim = "gather" -> Gathered(x[1], x[2])
    [] prim = "select_n" -> Selected(x[1], x[2], x[3])
    [] prim = "iota" -> Vector([k \in 1 .. p.size |-> k - 1])
    [] OTHER -> x[1]  \* a primitive that the importer does not know

Split(x, p) ==
  LET start(k) == SumOf([j \in 1 .. k - 1 |-> p.sizes[j]])
  IN [k \in 1 .. Len(p.sizes) |-> SliceOf(x, p.axis, start(k), start(k) + p.sizes[k])]

PrimitiveResults(prim, p, x) ==
  IF prim = "split" THEN Split(x[1], p) ELSE <<Primitive(prim, p, x)>>

--------------------------------------------------------------------------------

Calls == {"jit", "pjit", "closed_call", "custom_jvp_call", "custom_vjp_call"}

ValueOf(env, v) == IF IsLiteral(v) THEN Literals[v] ELSE env[v]

Bound(names, values) == [v \in Range(names) |-> values[CHOOSE k \in DOMAIN names : names[k] = v]]

\* Values of all names, those of called jaxprs too.
RECURSIVE Evaluated(_, _)
Evaluated(env, eqns) ==
  LET args(e, vs) == Tabulated([k \in 1 .. Len(e.in) |-> ValueOf(vs, e.in[k])])
      called(vs, e) == Evaluated(Bound(e.inner.ins, args(e, vs)) @@ vs, e.inner.eqns)
      returned(e, vs) == Bound(e.out, [k \in DOMAIN e.out |-> vs[e.inner.outs[k]]]) @@ vs
      step(vs, e) == IF e.prim \in Calls THEN returned(e, called(vs, e))
                     ELSE Bound(e.out, PrimitiveResults(e.prim, e.params, args(e, vs))) @@ vs
  IN FoldLeft(step, env, eqns)

\* The program with the shapes of its names and the values of its results.
Typed(p) ==
  LET values == Evaluated(p.given, p.eqns)
  IN [program |-> p, shapes |-> [v \in DOMAIN values |-> values[v].shape],
      results |-> [k \in DOMAIN p.outs |-> values[p.outs[k]]]]
================================================================================
