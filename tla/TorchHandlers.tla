------------------------------ MODULE TorchHandlers ------------------------------
(***************************************************************************)
(* What frontend/pytorch/importer.py makes of one node of an exported      *)
(* program, for each operator: the steps it takes and the tensor that      *)
(* becomes the node's.  t[k] is the tensor of the k-th operand, shape the  *)
(* node's shape as torch.export has it.  Types of tensors, which no        *)
(* lowering of these operators reads, are left out.                        *)
(***************************************************************************)
EXTENDS TorchPrograms, GraphBuilder

\* Operators by their names; overloads have one opcode.
ATEN_OP_MAP ==
  [add |-> "ADD", sub |-> "SUB", rsub |-> "SUB", mul |-> "MUL", div |-> "DIV", neg |-> "NEG",
   sqrt |-> "SQRT", rsqrt |-> "RSQRT", exp |-> "EXP", log |-> "LOG", abs |-> "ABS",
   maximum |-> "MAXIMUM", minimum |-> "MINIMUM", amax |-> "AMAX", amin |-> "AMIN", relu |-> "RELU",
   relu6 |-> "CLAMP", gelu |-> "GELU", silu |-> "SILU", sigmoid |-> "SIGMOID",
   hardswish |-> "HARDSWISH", hardsigmoid |-> "HARDSIGMOID", clamp |-> "CLAMP",
   clamp_min |-> "CLAMP", clamp_max |-> "CLAMP", hardtanh |-> "CLAMP", tanh |-> "TANH",
   sin |-> "SIN", cos |-> "COS", softmax |-> "SOFTMAX", mm |-> "MATMUL", bmm |-> "MATMUL",
   matmul |-> "MATMUL", linear |-> "LINEAR", addmm |-> "LINEAR", embedding |-> "EMBEDDING",
   index |-> "EMBEDDING", view |-> "VIEW", reshape |-> "RESHAPE", flatten |-> "VIEW",
   unflatten |-> "VIEW", permute |-> "PERMUTE", transpose |-> "TRANSPOSE", t |-> "TRANSPOSE",
   slice |-> "SLICE", select |-> "SLICE", cat |-> "CONCAT", expand |-> "EXPAND",
   expand_as |-> "EXPAND", squeeze |-> "SQUEEZE", unsqueeze |-> "UNSQUEEZE", sum |-> "SUM",
   mean |-> "MEAN", scaled_dot_product_attention |-> "SDPA", layer_norm |-> "LAYER_NORM",
   rms_norm |-> "RMS_NORM", pow |-> "POW", convolution |-> "CONV2D", conv2d |-> "CONV2D",
   conv1d |-> "CONV2D", max_pool2d_with_indices |-> "MAX_POOL2D", max_pool2d |-> "MAX_POOL2D",
   avg_pool2d |-> "AVG_POOL2D", adaptive_avg_pool2d |-> "ADAPTIVE_AVG_POOL2D",
   arange |-> "ARANGE", repeat |-> "REPEAT", repeat_interleave |-> "REPEAT",
   batch_norm |-> "BATCH_NORM", _native_batch_norm_legit_no_training |-> "BATCH_NORM",
   gather |-> "GATHER", pad |-> "PAD", type_as |-> "CAST"]

\* Operators with branches of their own, before the table is asked.
Decomposed == {"linalg_vector_norm", "roll", "lerp"}

NoStep(name, opcode, shape, attributes) == <<OpStep(opcode, <<"in1">>, name, shape, attributes)>>

\* An operation on the first operand alone.
OfFirst(opcode, shape, attributes) == Made(NoStep("out", opcode, shape, attributes))

--------------------------------------------------------------------------------
(* Constants in place of what the numbers of the inputs would be needed for.   *)
(* The code looks for parts of the operator's full name, overload included:    *)
(* "ne" is in "new_zeros", and "lt" in every ".default".                       *)

MadeConstant ==
  {"cumsum", "ge", "gt", "ne", "eq", "le", "lt", "diff", "zeros", "ones", "new_ones", "new_zeros",
   "full_like", "ones_like", "zeros_like", "bitwise_and", "logical_and", "softplus"}

LowerTriangle(shape) ==
  LET n == Len(shape)
      square == IF n >= 2 THEN <<shape[n - 1], shape[n]>> ELSE <<shape[1], shape[1]>>
      dims == [k \in 1 .. n - 2 |-> 1] \o square
  IN Tensor(dims, LAMBDA i : Truth(i[Len(i)] <= i[Len(i) - 1]))

Filled(shape, value) == Tensor(shape, LAMBDA i : value)

ConstantOfNode(op, t, shape) ==
  CASE op = "cumsum" -> Tensor(<<shape[1], Last(shape)>>, LAMBDA i : i[2] + 1)
    [] op = "softplus" -> IF t[1].data /= NoData THEN Softplus(t[1].data) ELSE Filled(shape, 1)
    [] op \in {"ne", "ge", "ones", "new_ones", "ones_like", "new_zeros"} -> Filled(shape, 1)
    [] op \in {"zeros", "zeros_like"} -> Filled(shape, 0)
    [] op \in {"le", "lt", "diff", "full_like", "logical_and"} -> LowerTriangle(shape)
    [] OTHER -> Filled(shape, 1)

ArangeData(p) == Vector([k \in 1 .. CeilDiv(p.end - p.start, p.step) |-> p.start + (k - 1) * p.step])

--------------------------------------------------------------------------------
(* Decompositions *)

\* The square root of the sum of squares over the first of the dimensions.
NormSteps(x, shape, p) ==
  <<OpStep("MUL", <<"in1", "in1">>, "sq", x.shape, NoAttributes),
    OpStep("SUM", <<"sq">>, "sum", shape,
           [dim |-> IF p.dim = <<>> THEN -1 ELSE p.dim[1], keepdim |-> Truth(p.keepdim)]),
    OpStep("SQRT", <<"sum">>, "out", shape, NoAttributes)>>

Cut(in, out, shape, d, start, end) ==
  OpStep("SLICE", <<in>>, out, [shape EXCEPT ![d] = end - start],
         [dim |-> d - 1, start |-> start, end |-> end, step |-> 1])

\* k elements go from the front of dimension d to its end.
RollStep(state, shape, d, shift) ==
  LET k == (-shift) % shape[d]
      front == state.last \o "_s2"
      back == state.last \o "_s1"
      rolled == state.last \o "_rolled"
  IN IF k = 0 THEN state
     ELSE [last |-> rolled,
           steps |-> state.steps \o
             <<Cut(state.last, back, shape, d, k, shape[d]), Cut(state.last, front, shape, d, 0, k),
               OpStep("CONCAT", <<back, front>>, rolled, shape, [dim |-> d - 1])>>]

Rolled(x, p) ==
  LET done == FoldLeft(LAMBDA s, k : RollStep(s, x.shape, Axis(p.dims[k], Len(x.shape)), p.shifts[k]),
                       [last |-> "in1", steps |-> <<>>], [k \in DOMAIN p.dims |-> k])
  IN [steps |-> done.steps, results |-> <<done.last>>]

\* a + w * (b - a)
LerpSteps(shape) ==
  <<OpStep("SUB", <<"in2", "in1">>, "diff", shape, NoAttributes),
    OpStep("MUL", <<"diff", "in3">>, "scaled", shape, NoAttributes),
    OpStep("ADD", <<"in1", "scaled">>, "out", shape, NoAttributes)>>

\* Normalization in inference: a product and a sum with constants.
BatchNormSteps(op, t, shape, p) ==
  LET eps == IF op = "batch_norm" THEN p.eps ELSE DefaultEps  \* the argument is where only batch_norm has it
      scale == Mul(t[2].data, Map1("RSQRT", Add(t[5].data, Scalar(eps))))
      shift == Map2("SUB", t[3].data, Mul(t[4].data, scale))
      image(v) == ReshapeOf(v, <<1, v.shape[1], 1, 1>>)
  IN <<ConstStep("scale", image(scale)), ConstStep("shift", image(shift)),
       OpStep("MUL", <<"in1", "scale">>, "scaled", t[1].shape, NoAttributes),
       OpStep("ADD", <<"scaled", "shift">>, "out", shape, NoAttributes)>>

--------------------------------------------------------------------------------
(* Layout *)

NormedDims(dims, rank) == [k \in DOMAIN dims |-> dims[k] % rank]

KeptDims(shape) == SelectSeq([k \in DOMAIN shape |-> k - 1], LAMBDA d : shape[d + 1] /= 1)

IsSqueezed(x, p) == Len(x.shape) = 5 /\ NormedDims(p.dims, 5)[1] /= 0

\* Of five dimensions those of size 1 are dropped, and stay dropped, so that ggml
\* has at most four to permute.
PermuteSteps(x, shape, p) ==
  LET dims == NormedDims(p.dims, Len(x.shape))
      kept == KeptDims(x.shape)
      order == SelectSeq(dims, LAMBDA d : d \in Range(kept))
      place(d) == (CHOOSE k \in DOMAIN kept : kept[k] = d) - 1
  IN IF IsSqueezed(x, p)
     THEN <<OpStep("RESHAPE", <<"in1">>, "sq5", At(x.shape, kept), NoAttributes),
            OpStep("PERMUTE", <<"sq5">>, "out", SelectSeq(shape, LAMBDA d : d /= 1),
                   [dims |-> [k \in DOMAIN order |-> place(order[k])]])>>
     ELSE NoStep("out", "PERMUTE", shape, [dims |-> dims])

SliceAttributes(op, p) ==
  IF op = "select"
  THEN [dim |-> p.dim, start |-> p.index, end |-> p.index + 1, step |-> 1, is_select |-> 1]
  ELSE [dim |-> p.dim, start |-> p.start, end |-> p.end, step |-> p.step]

\* The shape that flatten and unflatten make of the tensor's own, or the one given.
ViewShape(op, s, p, shape) ==
  CASE op = "flatten" ->
         LET start == Axis(p.start, Len(s))
             end == Axis(p.end, Len(s))
         IN SubSeq(s, 1, start - 1) \o <<NumElements(SubSeq(s, start, end))>> \o SubSeq(s, end + 1, Len(s))
    [] op = "unflatten" ->
         LET d == Axis(p.dim, Len(s)) IN SubSeq(s, 1, d - 1) \o p.sizes \o SubSeq(s, d + 1, Len(s))
    [] OTHER -> shape

\* One axis at a time.
ReductionOf(opcode, x, shape, p) ==
  LET axes == [k \in DOMAIN p.dim |-> Axis(p.dim[k], Len(x.shape)) - 1]
  IN IF Len(axes) > 1 THEN ReductionChain(opcode, x.shape, axes, "out", shape, p.keepdim)
     ELSE NoStep("out", opcode, shape,
                 [dim |-> IF axes = <<>> THEN -1 ELSE axes[1], keepdim |-> Truth(p.keepdim)])

\* clamp_max has its bound where clamp has the lower one.
ClampAttributes(op, p) ==
  CASE op = "relu6" -> [min |-> 0, max |-> 6]
    [] op = "clamp_min" -> [min |-> p.min]
    [] op = "clamp_max" -> [min |-> p.max]
    [] OTHER -> [min |-> p.min, max |-> p.max]

--------------------------------------------------------------------------------
(* Convolutions and pools *)

\* The second of two numbers; of one, 1.
SecondOrOne(v) == IF Len(v) > 1 THEN v[2] ELSE 1

SecondOf(v) == IF Len(v) > 1 THEN v[2] ELSE v[1]

\* Where the call does not say, a kernel of one input channel for several means one for each.
GroupsOf(x, w, p) ==
  IF p.groups /= 0 THEN p.groups
  ELSE IF Len(x) = 4 /\ Len(w) = 4 /\ x[2] > 1 /\ w[2] = 1 THEN x[2] ELSE 0

ConvAttributesOf(op, x, w, p) ==
  LET groups == GroupsOf(x, w, p)
      window == IF op = "conv1d" \/ Len(x) = 3 \/ Len(w) = 3
                THEN [stride_w |-> p.stride[1], stride_h |-> 1, pad_w |-> p.padding[1], pad_h |-> 0,
                      dilation_w |-> p.dilation[1], dilation_h |-> 1, is_1d |-> 1]
                ELSE [stride_h |-> p.stride[1], stride_w |-> SecondOf(p.stride),
                      pad_h |-> p.padding[1], pad_w |-> SecondOf(p.padding),
                      dilation_h |-> p.dilation[1], dilation_w |-> SecondOf(p.dilation)]
  IN IF groups = 0 THEN window ELSE [groups |-> groups] @@ window

\* Groups that ggml has no operator for: not one for each channel.
IsDecomposed(x, w, groups) ==
  /\ groups > 1 /\ Len(x) = 4 /\ Len(w) = 4
  /\ ~(groups = x[2] /\ groups = w[1])
  /\ x[2] % groups = 0 /\ w[1] % groups = 0

\* The rows of a group of a weight or a bias: numbers that are a buffer's are cut
\* when the graph is built, others by an operation (whose result also keeps the
\* parameter's cut numbers, which the importer and the lowering never read).
GroupRows(t, in, name, g, n) ==
  LET shape == [t.shape EXCEPT ![1] = n]
      data == IF t.data = NoData THEN NoData ELSE SliceOf(t.data, 0, g * n, (g + 1) * n)
  IN IF t.storage = "CONSTANT" /\ t.data /= NoData THEN ConstStep(name, data)
     ELSE Cut(in, name, t.shape, 1, g * n, (g + 1) * n)

GroupSteps(t, shape, attributes, groups, g) ==
  LET n == t[2].shape[1] \div groups
      c == t[1].shape[2] \div groups
      named(name) == name \o ToString(g)
      biased == Len(t) = 3
  IN <<Cut("in1", named("x_g"), t[1].shape, 2, g * c, (g + 1) * c),
       GroupRows(t[2], "in2", named("w_g"), g, n)>>
     \o (IF biased THEN <<GroupRows(t[3], "in3", named("b_g"), g, n)>> ELSE <<>>)
     \o <<OpStep("CONV2D", <<named("x_g"), named("w_g")>> \o IF biased THEN <<named("b_g")>> ELSE <<>>,
                 named("conv_g"), [shape EXCEPT ![2] = n], [attributes EXCEPT !.groups = 1])>>

ConvolutionSteps(op, t, shape, p) ==
  LET attributes == ConvAttributesOf(op, t[1].shape, t[2].shape, p)
      groups == GroupsOf(t[1].shape, t[2].shape, p)
  IN IF IsDecomposed(t[1].shape, t[2].shape, groups)
     THEN FlattenSeq([g \in 1 .. groups |-> GroupSteps(t, shape, attributes, groups, g - 1)])
          \o <<OpStep("CONCAT", [g \in 1 .. groups |-> "conv_g" \o ToString(g - 1)], "out", shape, [dim |-> 1])>>
     ELSE <<OpStep("CONV2D", Ins(Len(t)), "out", shape, attributes)>>

PoolAttributes(p, max) ==
  LET stride == IF p.stride = <<>> THEN p.ksize ELSE p.stride
  IN [ksize_h |-> p.ksize[1], ksize_w |-> SecondOf(p.ksize),
      stride_h |-> stride[1], stride_w |-> SecondOf(stride),
      pad_h |-> p.padding[1], pad_w |-> SecondOf(p.padding), is_max |-> max]

--------------------------------------------------------------------------------

\* The opcode's branch.
Branch(n, t, shape) ==
  LET opcode == ATEN_OP_MAP[n.op]
      p == n.p
      first(attributes) == OfFirst(opcode, shape, attributes)
  IN CASE opcode = "TRANSPOSE" -> first([dim0 |-> p.dim0, dim1 |-> p.dim1])
       [] opcode = "PERMUTE" -> Made(PermuteSteps(t[1], shape, p))
       [] opcode = "SLICE" -> first(SliceAttributes(n.op, p))
       [] opcode = "GELU" -> first([approximate |-> p.approximate])
       [] opcode \in {"MEAN", "SUM", "AMAX", "AMIN"} -> Made(ReductionOf(opcode, t[1], shape, p))
       [] opcode = "CONCAT" -> Made(<<OpStep("CONCAT", Ins(Len(t)), "out", shape, [dim |-> p.dim])>>)
       [] opcode = "EXPAND" ->
            first([shape |-> IF n.op = "expand_as" THEN t[2].shape ELSE p.shape])
       [] opcode \in {"SQUEEZE", "UNSQUEEZE", "SOFTMAX"} -> first([dim |-> p.dim])
       [] opcode \in {"RESHAPE", "VIEW"} ->
            LET s == ViewShape(n.op, t[1].shape, p, shape) IN OfFirst(opcode, s, [shape |-> s])
       [] opcode = "MATMUL" -> Made(<<OpStep("MATMUL", Ins(2), "out", shape, [transpose_in0 |-> 1])>>)
       [] n.op = "addmm" ->
            Made(<<OpStep("LINEAR", <<"in2", "in3", "in1">>, "out", shape, [is_addmm |-> 1])>>)
       [] opcode = "EMBEDDING" ->
            Made(<<OpStep(opcode, <<"in1", In(Len(t))>>, "out", shape, NoAttributes)>>)
       [] opcode \in {"RMS_NORM", "LAYER_NORM"} ->
            Made(<<OpStep(opcode, Ins(Len(t)), "out", shape, [eps |-> p.eps])>>)
       [] opcode = "POW" -> first([exponent |-> p.exponent])
       [] opcode = "CLAMP" -> first(ClampAttributes(n.op, p))
       [] opcode = "CONV2D" -> Made(ConvolutionSteps(n.op, t, shape, p))
       [] opcode \in {"MAX_POOL2D", "AVG_POOL2D"} -> first(PoolAttributes(p, Truth(opcode = "MAX_POOL2D")))
       [] opcode = "ADAPTIVE_AVG_POOL2D" -> first([out_h |-> p.size[1], out_w |-> SecondOf(p.size)])
       [] opcode = "ARANGE" -> Made(<<ConstStep("out", ArangeData(p))>>)
       [] opcode = "REPEAT" -> first([repeats |-> p.repeats])
       [] opcode = "BATCH_NORM" -> Made(BatchNormSteps(n.op, t, shape, p))
       [] opcode = "GATHER" ->
            Made(<<OpStep("SLICE", <<"in1">>, "out", shape,
                          [dim |-> p.dim, start |-> 0, end |-> shape[Axis(p.dim, Len(shape))], step |-> 1])>>)
       [] n.op = "rsub" -> Made(<<OpStep("SUB", <<"in2", "in1">>, "out", shape, NoAttributes)>>)
       [] OTHER -> Made(<<OpStep(opcode, Ins(Len(t)), "out", shape, NoAttributes)>>)

Handled(n, t, shape) ==
  CASE n.op = "linalg_vector_norm" -> Made(NormSteps(t[1], shape, n.p))
    [] n.op = "roll" -> Rolled(t[1], n.p)
    [] n.op = "lerp" -> Made(LerpSteps(shape))
    [] OTHER -> Branch(n, t, shape)
================================================================================
