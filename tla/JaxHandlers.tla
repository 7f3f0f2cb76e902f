------------------------------- MODULE JaxHandlers -------------------------------
(***************************************************************************)
(* What frontend/jax/importer.py makes of one equation of a jaxpr, for     *)
(* each primitive: the steps it takes and the tensors that become the      *)
(* equation's results.  t[k] is the tensor of the k-th operand, shape the  *)
(* result's, and "source" the tensor a pattern or a padding started from.  *)
(***************************************************************************)
EXTENDS JaxPrograms, GraphBuilder

JAX_PRIMITIVE_MAP ==
  [add |-> "ADD", add_any |-> "ADD", sub |-> "SUB", mul |-> "MUL", div |-> "DIV", neg |-> "NEG",
   exp |-> "EXP", log |-> "LOG", sqrt |-> "SQRT", rsqrt |-> "RSQRT", abs |-> "ABS",
   max |-> "MAXIMUM", min |-> "MINIMUM", sin |-> "SIN", cos |-> "COS", tanh |-> "TANH",
   relu |-> "RELU", silu |-> "SILU", gelu |-> "GELU", dot_general |-> "MATMUL",
   reshape |-> "RESHAPE", transpose |-> "PERMUTE", rev |-> "TRANSPOSE", slice |-> "SLICE",
   concatenate |-> "CONCAT", broadcast_in_dim |-> "EXPAND", reduce_sum |-> "SUM",
   reduce_max |-> "AMAX", reduce_min |-> "AMIN", reduce_and |-> "AMIN", reduce_or |-> "AMAX",
   and |-> "MUL", or |-> "MAXIMUM", not |-> "NEG", convert_element_type |-> "CAST",
   squeeze |-> "RESHAPE", square |-> "POW", integer_pow |-> "POW", pow |-> "POW", erf |-> "GELU",
   logistic |-> "SIGMOID", sigmoid |-> "SIGMOID", conv_general_dilated |-> "CONV2D"]

Supported ==
  DOMAIN JAX_PRIMITIVE_MAP \cup
    {"gather", "select_n", "pad", "reduce_window_max", "reduce_window_sum", "erfc",
     "dynamic_slice", "gt", "ge", "lt", "le", "eq", "ne", "split", "stack"}

FirstNumber(x) == x.at[[k \in 1 .. Rank(x) |-> 0]]

\* An operand that is not F32 is cast, to a tensor of a name.
Floated(t, k, name) ==
  When(t[k].dtype /= "F32", OpStep("CAST", <<In(k)>>, name, t[k].shape, [dtype |-> "F32"]))

FloatName(t, k, name) == IF t[k].dtype = "F32" THEN In(k) ELSE name

UnitClamp == [min |-> 0, max |-> 1]

--------------------------------------------------------------------------------
(* dot_general *)

IsIdentityOrder(dims) == dims = [k \in 1 .. Len(dims) |-> k - 1]

InOrder(dims, rank) == SelectSeq([k \in 1 .. rank |-> k - 1], LAMBDA d : d \in Range(dims))

\* A right operand with data is turned and flattened in place, another by operations.
FlattenedRight(r, perm, flat) ==
  CASE r.shape = flat -> <<>>
    [] r.shape /= flat /\ r.data /= NoData ->
         <<DataStep("in2", ReshapeOf(PermuteOf(r.data, perm), flat))>>
    [] OTHER ->
         When(~IsIdentityOrder(perm),
              OpStep("PERMUTE", <<"in2">>, "perm_rhs", At(r.shape, perm), [dims |-> perm]))
         \o <<OpStep("RESHAPE", <<IF IsIdentityOrder(perm) THEN "in2" ELSE "perm_rhs">>,
                     "flat_rhs", flat, NoAttributes)>>

Projected(shape, product, ins) ==
  IF product = shape
  THEN <<OpStep("MATMUL", ins, "out", shape, [transpose_in0 |-> 1])>>
  ELSE <<OpStep("MATMUL", ins, "matmul", product, [transpose_in0 |-> 1]),
         OpStep("RESHAPE", <<"matmul">>, "out", shape, NoAttributes)>>

DenseSteps(l, r, shape, flatL, perm, flatR) ==
  When(l.shape /= flatL, OpStep("RESHAPE", <<"in1">>, "flat_lhs", flatL, NoAttributes))
  \o FlattenedRight(r, perm, flatR)
  \o Projected(shape, Append(Front(flatL), flatR[2]),
               <<IF l.shape = flatL THEN "in1" ELSE "flat_lhs",
                 IF r.shape = flatR \/ r.data /= NoData THEN "in2" ELSE "flat_rhs">>)

\* Both operands become matrices: all contracted dimensions in one.
Dense(l, r, p, shape) ==
  DenseSteps(l, r, shape,
    Append(At(l.shape, Others(Len(l.shape), p.lhs_contracting)),
           NumElements(At(l.shape, p.lhs_contracting))),
    InOrder(p.rhs_contracting, Len(r.shape)) \o Others(Len(r.shape), p.rhs_contracting),
    <<NumElements(At(r.shape, p.rhs_contracting)),
      NumElements(At(r.shape, Others(Len(r.shape), p.rhs_contracting)))>>)

\* Grouped-query attention: what is repeated for the query heads of a group.
Grouped(name, b, heads, group, s, d) ==
  <<OpStep("RESHAPE", <<name>>, "five", <<b, heads, 1, s, d>>, NoAttributes),
    OpStep("EXPAND", <<"five">>, "expanded", <<b, heads, group, s, d>>,
           [shape |-> <<b, heads, group, s, d>>]),
    OpStep("RESHAPE", <<"expanded">>, "four", <<b, heads * group, s, d>>, NoAttributes)>>

\* Keys (b, sk, heads, d) with queries (b, sq, heads, group, d).
Scores(b, sk, heads, d, sq, group, shape) ==
  <<OpStep("PERMUTE", <<"in2">>, "q_perm", <<b, heads, group, sq, d>>, [dims |-> <<0, 2, 3, 1, 4>>]),
    OpStep("RESHAPE", <<"q_perm">>, "q4d", <<b, heads * group, sq, d>>, NoAttributes),
    OpStep("PERMUTE", <<"in1">>, "k_perm", <<b, heads, sk, d>>, [dims |-> <<0, 2, 1, 3>>])>>
  \o (IF group > 1 THEN Grouped("k_perm", b, heads, group, sk, d) ELSE <<>>)
  \o <<OpStep("MATMUL", <<IF group > 1 THEN "four" ELSE "k_perm", "q4d">>, "scores4d",
              <<b, heads * group, sk, sq>>, [transpose_in0 |-> 0, transpose_in1 |-> 1]),
       OpStep("RESHAPE", <<"scores4d">>, "scores5d", <<b, heads, group, sk, sq>>, NoAttributes),
       OpStep("PERMUTE", <<"scores5d">>, "out", shape, [dims |-> <<0, 1, 3, 4, 2>>])>>

\* Values (b, sk, heads, d) with weights (b, heads, group, sq, sk).
Contexts(b, sk, heads, d, group, sq, shape) ==
  <<OpStep("PERMUTE", <<"in1">>, "v_perm", <<b, heads, sk, d>>, [dims |-> <<0, 2, 1, 3>>])>>
  \o (IF group > 1 THEN Grouped("v_perm", b, heads, group, sk, d) ELSE <<>>)
  \o <<OpStep("RESHAPE", <<"in2">>, "w4d", <<b, heads * group, sq, sk>>, NoAttributes),
       OpStep("MATMUL", <<"w4d", IF group > 1 THEN "four" ELSE "v_perm">>, "ctx4d",
              <<b, heads * group, sq, d>>, [transpose_in0 |-> 0, transpose_in1 |-> 0]),
       OpStep("RESHAPE", <<"ctx4d">>, "ctx5d", <<b, heads, group, sq, d>>, NoAttributes),
       OpStep("PERMUTE", <<"ctx5d">>, "out", shape, [dims |-> <<0, 1, 4, 2, 3>>])>>

\* The first four dimensions that are not 1, with ones before them if there are fewer.
FourOf(dims) ==
  LET large == SelectSeq(dims, LAMBDA d : d /= 1)
  IN SubSeq([k \in 1 .. Max({0, 4 - Len(large)}) |-> 1] \o large, 1, 4)

\* One operand of a batched product: turned, and of at most four dimensions.
BatchOperand(t, in, perm, turned, folded) ==
  When(~IsIdentityOrder(perm), OpStep("PERMUTE", <<in>>, turned, At(t.shape, perm), [dims |-> perm]))
  \o When(Len(perm) > 4, OpStep("RESHAPE", <<IF IsIdentityOrder(perm) THEN in ELSE turned>>, folded,
                                FourOf(At(t.shape, perm)), NoAttributes))

BatchName(in, perm, turned, folded) ==
  IF Len(perm) > 4 THEN folded ELSE IF IsIdentityOrder(perm) THEN in ELSE turned

BatchProduct(l, r, permL, permR, shape) ==
  LET ins == <<BatchName("in1", permL, "perm_lhs", "lhs4d"), BatchName("in2", permR, "perm_rhs", "rhs4d")>>
  IN BatchOperand(l, "in1", permL, "perm_lhs", "lhs4d")
     \o BatchOperand(r, "in2", permR, "perm_rhs", "rhs4d")
     \o (IF Len(shape) <= 4
         THEN <<OpStep("MATMUL", ins, "out", shape, [transpose_in0 |-> 0])>>
         ELSE <<OpStep("MATMUL", ins, "bmm4d", FourOf(shape), [transpose_in0 |-> 0]),
                OpStep("RESHAPE", <<"bmm4d">>, "out", shape, NoAttributes)>>)

IsScores(l, r, p) ==
  /\ Len(l.shape) = 4 /\ Len(r.shape) = 5
  /\ p.lhs_batch = <<0, 2>> /\ p.rhs_batch = <<0, 2>>
  /\ p.lhs_contracting = <<3>> /\ p.rhs_contracting = <<4>>

IsContexts(l, r, p) ==
  /\ Len(l.shape) = 4 /\ Len(r.shape) = 5
  /\ p.lhs_batch = <<0, 2>> /\ p.rhs_batch = <<0, 1>>
  /\ p.lhs_contracting = <<1>> /\ p.rhs_contracting = <<4>>

IsDense(r, p) == p.lhs_batch = <<>> /\ (Len(r.shape) > 2 \/ Len(p.lhs_contracting) > 1)

DotGeneralSteps(l, r, p, shape) ==
  CASE IsDense(r, p) -> Dense(l, r, p, shape)
    [] p.lhs_batch = <<>> /\ ~IsDense(r, p) ->
         <<OpStep("MATMUL", Ins(2), "out", shape, [transpose_in0 |-> 1])>>
    [] IsScores(l, r, p) ->
         Scores(l.shape[1], l.shape[2], l.shape[3], l.shape[4], r.shape[2], r.shape[4], shape)
    [] IsContexts(l, r, p) ->
         Contexts(l.shape[1], l.shape[2], l.shape[3], l.shape[4], r.shape[3], r.shape[4], shape)
    [] OTHER -> BatchProduct(l, r,
         p.lhs_batch \o Others(Len(l.shape), p.lhs_batch \o p.lhs_contracting) \o p.lhs_contracting,
         p.rhs_batch \o Others(Len(r.shape), p.rhs_batch \o p.rhs_contracting) \o p.rhs_contracting,
         shape)

--------------------------------------------------------------------------------
(* Layout *)

\* Each operand dimension at its place, then repetition where that is not yet the shape.
BroadcastSteps(x, shape, p) ==
  LET placed == [k \in 1 .. Len(shape) |->
        IF k - 1 \in Range(p.broadcast_dimensions)
        THEN x.shape[CHOOSE j \in DOMAIN p.broadcast_dimensions : p.broadcast_dimensions[j] = k - 1]
        ELSE 1]
  IN CASE placed = x.shape -> <<OpStep("EXPAND", <<"in1">>, "out", shape, p)>>
       [] placed /= x.shape /\ placed = shape ->
            <<OpStep("RESHAPE", <<"in1">>, "out", shape, NoAttributes)>>
       [] OTHER -> <<OpStep("RESHAPE", <<"in1">>, "reshaped", placed, NoAttributes),
                     OpStep("EXPAND", <<"reshaped">>, "out", shape, p)>>

SliceStep(name, shape, starts, sizes) ==
  OpStep("SLICE", <<"in1">>, name, shape,
         [start_indices |-> starts, limit_indices |-> [k \in DOMAIN starts |-> starts[k] + sizes[k]]])

\* A start that is not known when the graph is built is taken for 0.
DynamicSliceSteps(t, shape, p) ==
  <<SliceStep("out", shape,
      [k \in 1 .. Len(t) - 1 |-> IF t[k + 1].data = NoData THEN 0 ELSE t[k + 1].data.at[<<>>]],
      p.slice_sizes)>>

\* One result after the other; the k-th begins where those before it end.
SplitSteps(x, shapes, p) ==
  LET axis == p.axis + 1
      start(k) == SumOf([j \in 1 .. k - 1 |-> p.sizes[j]])
  IN [k \in 1 .. Len(shapes) |->
        SliceStep("split" \o ToString(k), shapes[k],
          [d \in DOMAIN x.shape |-> IF d = axis THEN start(k) ELSE 0],
          [x.shape EXCEPT ![axis] = p.sizes[k]])]

StackSteps(t, shape, p) ==
  [k \in 1 .. Len(t) |-> OpStep("RESHAPE", <<In(k)>>, "exp_stack" \o ToString(k),
                               InsertAt(t[k].shape, p.axis + 1, 1), NoAttributes)]
  \o <<OpStep("CONCAT", [k \in 1 .. Len(t) |-> "exp_stack" \o ToString(k)], "out", shape,
              [dim |-> p.axis])>>

--------------------------------------------------------------------------------
(* Convolutions and windows: NHWC and HWIO become NCHW and OIHW *)

ToNCHW == <<0, 3, 1, 2>>
ToNHWC == <<0, 2, 3, 1>>
ToOIHW == <<3, 2, 0, 1>>

\* _pad_nhwc_asymmetric: the sides that one padding for both cannot have become
\* zeros that are concatenated, one side after the other.
WithSide(state, side) ==
  LET axis == side[1] + 1
      name == side[2] \o ToString(side[1])
      zeros == "zeros_" \o name
      dims == [state.dims EXCEPT ![axis] = @ + side[3]]
  IN [steps |-> state.steps \o
        <<ConstStep(zeros, Tensor([state.dims EXCEPT ![axis] = side[3]], LAMBDA i : 0)),
          OpStep("CONCAT", IF side[2] = "pre" THEN <<zeros, state.last>> ELSE <<state.last, zeros>>,
                 name, dims, [dim |-> side[1]])>>,
      dims |-> dims, last |-> name]

PaddedSides(name, dims, padding, kept) ==
  FoldLeft(WithSide, [steps |-> <<>>, dims |-> dims, last |-> name],
           SelectSeq(<<<<1, "pre", padding[1][1] - kept[1]>>, <<1, "post", padding[1][2] - kept[1]>>,
                       <<2, "pre", padding[2][1] - kept[2]>>, <<2, "post", padding[2][2] - kept[2]>>>>,
                     LAMBDA side : side[3] > 0))

PermuteStep(in, out, shape, axes) == OpStep("PERMUTE", <<in>>, out, At(shape, axes), [axes |-> axes])

ConvSteps(padded, w, shape, p, kept) ==
  padded.steps
  \o <<PermuteStep(padded.last, "nchw_lhs", padded.dims, ToNCHW)>>
  \o (IF w.data = NoData THEN <<PermuteStep("in2", "oihw_rhs", w.shape, ToOIHW)>>
      ELSE <<DataStep("in2", PermuteOf(w.data, ToOIHW))>>)
  \o <<OpStep("CONV2D", <<"nchw_lhs", IF w.data = NoData THEN "oihw_rhs" ELSE "in2">>, "nchw_conv",
              At(shape, ToNCHW),
              [stride |-> p.window_strides, padding |-> kept, dilation |-> p.rhs_dilation,
               groups |-> p.feature_group_count]),
       PermuteStep("nchw_conv", "out", At(shape, ToNCHW), ToNHWC)>>

\* The padding that a pad has left to its consumer is added to the convolution's.
TotalPadding(own, by) == [d \in 1 .. 2 |-> <<own[d][1] + by[d][1], own[d][2] + by[d][2]>>]

SmallerSides(padding) == [d \in 1 .. 2 |-> Min({padding[d][1], padding[d][2]})]

\* The padding before an image alone, on both of its sides.
SidesBefore(padding) == [d \in 1 .. 2 |-> padding[d][1]]

\* Excess padding is forgotten.
ConvolvedSymmetric(x, w, shape, p, padding) ==
  ConvSteps(PaddedSides("source", x.shape, <<<<0, 0>>, <<0, 0>>>>, <<0, 0>>), w, shape, p,
            SidesBefore(padding))

Convolved(x, w, shape, p, padding) ==
  ConvSteps(PaddedSides("source", x.shape, padding, SmallerSides(padding)), w, shape, p,
            SmallerSides(padding))

\* Only the padding before the image counts, on both sides.
PoolSteps(prim, x, shape, p, by) ==
  <<PermuteStep("source", "nchw_in", x.shape, ToNCHW),
    OpStep(IF prim = "reduce_window_max" THEN "MAX_POOL2D" ELSE "AVG_POOL2D", <<"nchw_in">>,
           "nchw_pool", At(shape, ToNCHW),
           [ksize_h |-> p.window_dimensions[2], ksize_w |-> p.window_dimensions[3],
            stride_h |-> p.window_strides[2], stride_w |-> p.window_strides[3],
            pad_h |-> p.padding[2][1] + by[1][1], pad_w |-> p.padding[3][1] + by[2][1]]),
    PermuteStep("nchw_pool", "out", At(shape, ToNCHW), ToNHWC)>>

--------------------------------------------------------------------------------
(* Comparisons and choices, in numbers: 0 and 1 *)

AllData(x, value) == x.data /= NoData /\ \A i \in DOMAIN x.data.at : x.data.at[i] = value

\* x /= 0 and x = 1 are x itself.
IsAlreadyTruth(prim, t) ==
  (prim = "ne" /\ AllData(t[2], 0)) \/ (prim = "eq" /\ AllData(t[2], 1))

\* The difference of the operands, in the order that makes it positive when prim holds.
Difference(t, prim, shape) ==
  LET x == FloatName(t, 1, "cast_cmp0")
      y == FloatName(t, 2, "cast_cmp1")
  IN Floated(t, 1, "cast_cmp0") \o Floated(t, 2, "cast_cmp1")
     \o <<OpStep("SUB", IF prim \in {"lt", "le"} THEN <<y, x>> ELSE <<x, y>>, "diff", shape, NoAttributes)>>

ComparisonSteps(t, prim, shape) ==
  LET clamp(in, out) == OpStep("CLAMP", <<in>>, out, shape, UnitClamp)
  IN Difference(t, prim, shape)
     \o (IF prim \notin {"eq", "ne"} THEN <<clamp("diff", "out")>>
         ELSE <<OpStep("ABS", <<"diff">>, "abs", shape, NoAttributes), clamp("abs", "clamp")>>)
     \o (IF prim = "eq"
         THEN <<ConstantScalar("one", 1),
                OpStep("SUB", <<"one", "clamp">>, "out", shape, NoAttributes)>>
         ELSE <<>>)

\* Of several axes the first: how many are true, compared with how many there are or with none.
TruthSteps(x, prim, axis) ==
  LET kept == [x.shape EXCEPT ![axis + 1] = 1]
      op(opcode, ins, out, attributes) == OpStep(opcode, ins, out, kept, attributes)
  IN <<op("SUM", <<"in1">>, "sum", [axes |-> <<axis>>])>>
     \o IF prim = "reduce_or" THEN <<op("CLAMP", <<"sum">>, "truth", UnitClamp)>>
        ELSE <<ConstantScalar("n", x.shape[axis + 1]), op("SUB", <<"sum", "n">>, "diff_n", NoAttributes),
               op("ABS", <<"diff_n">>, "abs_n", NoAttributes),
               op("CLAMP", <<"abs_n">>, "clamp_n", UnitClamp), ConstantScalar("one", 1),
               op("SUB", <<"one", "clamp_n">>, "truth", NoAttributes)>>

TruthReduction(x, prim, shape, axis) ==
  IF shape = [x.shape EXCEPT ![axis + 1] = 1]
  THEN [steps |-> TruthSteps(x, prim, axis), results |-> <<"truth">>]
  ELSE Made(TruthSteps(x, prim, axis)
            \o <<OpStep("RESHAPE", <<"truth">>, "out", shape, NoAttributes)>>)

\* Where neither the condition nor the choice for false depends on the inputs: a
\* bias that is added, 0 or the first of the numbers for false.
MaskBias(cond, false) ==
  Tensor(cond.shape, LAMBDA i : IF cond.at[i] = 0 THEN FirstNumber(false) ELSE 0)

BiasSteps(t, shape) ==
  <<ConstStep("mask_bias", MaskBias(t[1].data, t[2].data)),
    OpStep("ADD", <<"in3", "mask_bias">>, "out", shape, NoAttributes)>>

\* true * cond + false * (1 - cond).
BlendSteps(t, shape, dtype) ==
  LET cond == FloatName(t, 1, "cond_f32")
      op(opcode, ins, out) == OpStep(opcode, ins, out, shape, NoAttributes)
  IN Floated(t, 1, "cond_f32") \o Floated(t, 3, "true_f32") \o Floated(t, 2, "false_f32")
     \o <<ConstantScalar("one", 1),
          OpStep("SUB", <<"one", cond>>, "inv_cond", t[1].shape, NoAttributes),
          op("MUL", <<"inv_cond", FloatName(t, 2, "false_f32")>>, "false_term"),
          op("MUL", <<cond, FloatName(t, 3, "true_f32")>>, "true_term")>>
     \o IF dtype = "F32" THEN <<op("ADD", <<"true_term", "false_term">>, "out")>>
        ELSE <<op("ADD", <<"true_term", "false_term">>, "sum_f32"), op("CAST", <<"sum_f32">>, "out")>>

Selection(t, shape, dtype) ==
  CASE t[1].data /= NoData /\ t[2].data /= NoData -> Made(BiasSteps(t, shape))
    [] t[1].data /= NoData /\ t[2].data = NoData ->
         Known(IF FirstNumber(t[1].data) = 0 THEN "in2" ELSE "in3")
    [] OTHER -> Made(BlendSteps(t, shape, dtype))

\* x - relu(x - y)
MinSteps(t, shape, dtype) ==
  LET x == FloatName(t, 1, "cast_min0")
      op(opcode, ins, out) == OpStep(opcode, ins, out, shape, NoAttributes)
  IN Floated(t, 1, "cast_min0") \o Floated(t, 2, "cast_min1")
     \o <<op("SUB", <<x, FloatName(t, 2, "cast_min1")>>, "diff_min"), op("RELU", <<"diff_min">>, "relu_min")>>
     \o IF dtype = "F32" THEN <<op("SUB", <<x, "relu_min">>, "out")>>
        ELSE <<op("SUB", <<x, "relu_min">>, "sub_min_f32"), op("CAST", <<"sub_min_f32">>, "out")>>

--------------------------------------------------------------------------------
(* Powers, patterns, reductions *)

IntegerPowSteps(x, p, shape) ==
  CASE p.y = -1 -> <<ConstantScalar("one", 1), OpStep("DIV", <<"one", "in1">>, "out", shape, NoAttributes)>>
    [] p.y = 2 -> <<OpStep("POW", <<"in1">>, "out", shape, [exponent |-> 2])>>
    [] p.y = 3 -> <<OpStep("POW", <<"in1">>, "sqr", x.shape, [exponent |-> 2]),
                    OpStep("MUL", <<"in1", "sqr">>, "out", shape, NoAttributes)>>
    [] OTHER -> <<OpStep("POW", <<"in1">>, "out", shape, p)>>

\* Alone, the error function's complement is 1 - GELU(x).
ErfcSteps(x, shape) ==
  <<ConstantScalar("one", 1), OpStep("GELU", <<"in1">>, "erf", x.shape, NoAttributes),
    OpStep("SUB", <<"one", "erf">>, "out", shape, NoAttributes)>>

\* Only the first of the axes.
ReductionStepsOne(opcode, x, shape, p) ==
  <<OpStep(opcode, <<"in1">>, "out", shape, [axes |-> <<p.axes[1]>>])>>

ReductionSteps(opcode, x, shape, p) ==
  IF Len(p.axes) > 1 THEN ReductionChain(opcode, x.shape, p.axes, "out", shape, FALSE)
  ELSE <<OpStep(opcode, <<"in1">>, "out", shape, p)>>

--------------------------------------------------------------------------------

\* f is [shapes, dtype, source, by, softmax, gelu]: the shapes of the results, the
\* type of the first, the tensor named "source" and the padding it is owed, and
\* whether the equation ends a softmax or a GELU that began at the source.
Handled(e, t, f) ==
  LET shape == f.shapes[1]
      prim == e.prim
  IN CASE prim = "dot_general" -> Made(DotGeneralSteps(t[1], t[2], e.params, shape))
       [] prim = "broadcast_in_dim" -> Made(BroadcastSteps(t[1], shape, e.params))
       [] prim = "conv_general_dilated" ->
            Made(Convolved(f.source, t[2], shape, e.params, TotalPadding(e.params.padding, f.by)))
       [] prim = "gather" -> Made(<<OpStep("EMBEDDING", Ins(2), "out", shape, [dim |-> 0])>>)
       [] prim = "integer_pow" -> Made(IntegerPowSteps(t[1], e.params, shape))
       [] prim \in {"gt", "ge", "lt", "le", "eq", "ne"} ->
            IF IsAlreadyTruth(prim, t) THEN Known("in1")
            ELSE [steps |-> ComparisonSteps(t, prim, shape),
                  results |-> <<IF prim = "ne" THEN "clamp" ELSE "out">>]
       [] prim \in {"reduce_and", "reduce_or"} -> TruthReduction(t[1], prim, shape, e.params.axes[1])
       [] prim = "select_n" -> Selection(t, shape, f.dtype)
       [] prim = "div" /\ f.softmax -> Made(<<OpStep("SOFTMAX", <<"source">>, "out", shape, NoAttributes)>>)
       [] prim \in {"reduce_window_max", "reduce_window_sum"} ->
            Made(PoolSteps(prim, f.source, shape, e.params, f.by))
       [] prim = "pad" ->
            IF \/ \A k \in DOMAIN e.params.padding_config : e.params.padding_config[k] = <<0, 0, 0>>
               \/ Len(e.params.padding_config) = 4
            THEN Known("in1")
            ELSE Made(<<OpStep("PAD", <<"in1">>, "out", shape, e.params)>>)
       [] prim = "mul" /\ f.gelu -> Made(<<OpStep("GELU", <<"source">>, "out", shape, NoAttributes)>>)
       [] prim = "erfc" -> Made(ErfcSteps(t[1], shape))
       [] prim = "min" -> Made(MinSteps(t, shape, f.dtype))
       [] prim = "dynamic_slice" -> Made(DynamicSliceSteps(t, shape, e.params))
       [] prim = "split" -> [steps |-> SplitSteps(t[1], f.shapes, e.params),
                             results |-> [k \in DOMAIN f.shapes |-> "split" \o ToString(k)]]
       [] prim = "stack" -> Made(StackSteps(t, shape, e.params))
       [] prim \in {"reduce_sum", "reduce_max", "reduce_min"} ->
            Made(ReductionSteps(JAX_PRIMITIVE_MAP[prim], t[1], shape, e.params))
       [] OTHER -> Made(<<OpStep(JAX_PRIMITIVE_MAP[prim], Ins(Len(t)), "out", shape, e.params)>>)
================================================================================
