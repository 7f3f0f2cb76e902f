------------------------------- MODULE GgmlRuntime -------------------------------
(***************************************************************************)
(* What the executor computes for a lowered graph: the switch of           *)
(* GenericGraphExecutor::prepare (src/runtime/src/executor.cpp), operator  *)
(* by operator, on the four dimensions that ggml has.                      *)
(*                                                                         *)
(* A tensor of the runtime is a tensor of TensorAlgebra of rank 4 whose    *)
(* shape is ne reversed: ggml's dimension g, 0 the contiguous one, is      *)
(* dimension 4 - g.  Where the code asserts or throws, the result is       *)
(* Undefined.  Kernels are taken to compute what they are named for.       *)
(***************************************************************************)
EXTENDS GraphIR

GDim(g) == 4 - g

Signed(x) == IF x > P \div 2 THEN x - P ELSE x

IsDefined(x) == x /= Undefined

--------------------------------------------------------------------------------
(* Elementwise operators *)

\* ggml_can_repeat.
CanRepeat(shape, into) == \A k \in 1 .. 4 : into[k] % shape[k] = 0

RepeatTo(x, shape) ==
  IF ~CanRepeat(x.shape, shape) THEN Undefined
  ELSE Tensor(shape, LAMBDA i : x.at[Tabulated([k \in 1 .. 4 |-> i[k] % x.shape[k]])])

IsVector(x) == \A k \in 1 .. 3 : x.shape[k] = 1

\* match_broadcast: a vector as long as the other's channels is one of channels.
AsChannels(x, other) ==
  IF IsVector(x) /\ x.shape[4] = other.shape[2] THEN ReshapeOf(x, <<1, x.shape[4], 1, 1>>)
  ELSE x

Elementwise(opcode, a, b) ==
  LET target == IF CanRepeat(b.shape, a.shape) THEN a.shape
                ELSE IF CanRepeat(a.shape, b.shape) THEN b.shape
                ELSE [k \in 1 .. 4 |-> Max({a.shape[k], b.shape[k]})]
      x == RepeatTo(a, target)
      y == RepeatTo(b, target)
  IN IF IsDefined(x) /\ IsDefined(y) THEN Map2(opcode, x, y) ELSE Undefined

\* ggml's own rule, which repeats only the second operand.
Onto(opcode, x, y) ==
  IF IsDefined(x) /\ CanRepeat(y.shape, x.shape) THEN Elementwise(opcode, x, y) ELSE Undefined

Arithmetic(opcode, x, y) ==
  IF x.shape = y.shape THEN Elementwise(opcode, x, y)
  ELSE LET a == AsChannels(x, y) IN Elementwise(opcode, a, AsChannels(y, a))

Clamp(x, low, high) ==
  Tensor(x.shape, LAMBDA i : LET s == Signed(x.at[i])
                             IN IF s < low THEN low % P ELSE IF s > high THEN high % P ELSE x.at[i])

\* ERFC and the error function's GELU; the constant is the root of one half.
RootHalf == 12
Erfc(x) == Tensor(x.shape, LAMBDA i : Opaque(9, 6, 3, x.at[i]))
GeluErf(x) ==
  Mul(Mul(Scalar(Half), x), Erfc(Mul(Map1("NEG", x), Scalar(RootHalf))))

Absolute(x) == Tensor(x.shape, LAMBDA i : LET s == Signed(x.at[i]) IN IF s < 0 THEN -s ELSE s)

Hard(x) == Mul(Clamp(Add(x, Scalar(3)), 0, 6), Scalar(InverseOf(6)))

Activated(name, x) ==
  CASE name = "GELU" -> GeluOf(x)
    [] name = "GELU_ERF" -> GeluErf(x)
    [] name = "ABS" -> Absolute(x)
    [] name = "HARDSIGMOID" -> Hard(x)
    [] name = "HARDSWISH" -> Mul(x, Hard(x))
    [] OTHER -> Map1(name, x)

\* Of two operands the one that is not a constant, or not a single number.
ActivationInput(x, constant) ==
  IF Len(x) = 1 THEN x[1]
  ELSE IF constant[1] /= constant[2] THEN IF constant[1] THEN x[2] ELSE x[1]
  ELSE IF NumElements(x[1].shape) = 1 /\ NumElements(x[2].shape) > 1 THEN x[2]
  ELSE x[1]

--------------------------------------------------------------------------------
(* Layout *)

Repeated(x, out) ==
  IF NumElements(x.shape) = NumElements(out) THEN ReshapeOf(x, out) ELSE RepeatTo(x, out)

\* ggml_permute: ggml's dimension g of x becomes dimension axes[g + 1].
Permuted(x, axes) ==
  PermuteOf(x, Tabulated([k \in 1 .. 4 |->
    3 - ((CHOOSE g \in 1 .. 4 : axes[g] = 4 - k) - 1)]))

Stride(shape, g) == NumElements(SubSeq(shape, GDim(g) + 1, 4))

\* ggml_view_4d of a contiguous tensor: addresses are computed from its strides;
\* the step is that of the sliced dimension, but never of the contiguous one.
Viewed(x, g, start, step, mult, out) ==
  LET stride(h) == Stride(x.shape, h) * (IF h = g /\ h >= 1 THEN step ELSE 1)
      address(i) == start * mult * Stride(x.shape, g)
                      + i[4] + i[3] * stride(1) + i[2] * stride(2) + i[1] * stride(3)
      inside == \A i \in Indices(out) : address(i) \in 0 .. NumElements(x.shape) - 1
  IN IF inside THEN Tensor(out, LAMBDA i : x.at[IndexAt(address(i), x.shape)]) ELSE Undefined

Concatenated(x, g) ==
  LET join(a, b) == IF IsDefined(a) THEN ConcatOf(a, b, 3 - g) ELSE a
      upto[k \in 1 .. Len(x)] == IF k = 1 THEN x[1] ELSE join(upto[k - 1], x[k])
  IN upto[Len(x)]

\* ggml_pad: zeros after the last element of each dimension.
PaddedAfter(x, by) ==
  Tensor([k \in 1 .. 4 |-> x.shape[k] + by[k]],
         LAMBDA i : IF i \in DOMAIN x.at THEN x.at[i] ELSE 0)

--------------------------------------------------------------------------------
(* Reductions, products, windows *)

ReducedRows(opcode, x, g, out) == ReshapeOf(ReduceOf(opcode, x, 3 - g), out)

\* ggml_mul_mat(a, b): a's matrices are shared by equal groups of b's.
MulMat(a, b) ==
  LET group(k) == b.shape[k] \div a.shape[k]
  IN IF \/ a.shape[4] /= b.shape[4]
        \/ \E k \in {1, 2} : b.shape[k] % a.shape[k] /= 0
     THEN Undefined
     ELSE Tensor(<<b.shape[1], b.shape[2], b.shape[3], a.shape[3]>>,
            LAMBDA i : SumOf([k \in 0 .. a.shape[4] - 1 |->
              a.at[<<i[1] \div group(1), i[2] \div group(2), i[4], k>>]
                * b.at[<<i[1], i[2], i[3], k>>]]) % P)

TransposesIn0(a, b, op) ==
  IF "transpose_in0" \in DOMAIN op.attributes THEN op.attributes["transpose_in0"] /= 0
  ELSE a.shape[4] /= b.shape[4] /\ a.shape[3] = b.shape[4]

Biased(y, x) ==
  IF Len(x) < 3 \/ ~IsDefined(y) THEN y
  ELSE LET b == IF x[3].shape[4] = 1 /\ y.shape[4] /= 1 /\ x[3].shape[3] = y.shape[4]
                THEN ReshapeOf(x[3], <<1, 1, 1, y.shape[4]>>) ELSE x[3]
       IN Onto("ADD", y, b)

\* Positions a window reads from: those inside the image.
WindowSize(n, k, s, p, d) == (n + 2 * p - d * (k - 1) - 1) \div s + 1

WindowAt(x, i, kh, kw, w) ==
  LET h == i[3] * w.stride_h - w.pad_h + kh * w.dilation_h
      v == i[4] * w.stride_w - w.pad_w + kw * w.dilation_w
  IN <<h, v>>

Window(op, kh, kw) ==
  [ksize_h |-> Attribute(op, "ksize_h", kh), ksize_w |-> Attribute(op, "ksize_w", kw),
   stride_h |-> Attribute(op, "stride_h", 1), stride_w |-> Attribute(op, "stride_w", 1),
   pad_h |-> Attribute(op, "pad_h", 0), pad_w |-> Attribute(op, "pad_w", 0),
   dilation_h |-> Attribute(op, "dilation_h", 1), dilation_w |-> Attribute(op, "dilation_w", 1)]

Inside(x, p) == p[1] \in 0 .. x.shape[3] - 1 /\ p[2] \in 0 .. x.shape[4] - 1

WindowShape(x, w, channels) ==
  <<x.shape[1], channels,
    WindowSize(x.shape[3], w.ksize_h, w.stride_h, w.pad_h, w.dilation_h),
    WindowSize(x.shape[4], w.ksize_w, w.stride_w, w.pad_w, w.dilation_w)>>

\* ggml_conv_2d of the kernels k and the images x.
Conv2d(k, x, op) ==
  LET w == Window(op, k.shape[3], k.shape[4])
      term(i, c, a, b) == LET p == WindowAt(x, i, a, b, w)
                          IN IF Inside(x, p)
                             THEN k.at[<<i[2], c, a, b>>] * x.at[<<i[1], c, p[1], p[2]>>] ELSE 0
  IN IF k.shape[2] /= x.shape[2] THEN Undefined
     ELSE Tensor(WindowShape(x, w, k.shape[1]), LAMBDA i :
            SumOf([p \in (0 .. k.shape[2] - 1) \X (0 .. k.shape[3] - 1) \X (0 .. k.shape[4] - 1)
                     |-> term(i, p[1], p[2], p[3])]) % P)

\* ggml_conv_2d_dw_direct: a kernel for each channel.
Conv2dDepthwise(kernels, x, op) ==
  LET k == IF kernels.shape[2] /= 1 /\ kernels.shape[1] = 1
           THEN ReshapeOf(kernels, <<kernels.shape[2], 1, kernels.shape[3], kernels.shape[4]>>)
           ELSE kernels
      w == Window(op, k.shape[3], k.shape[4])
      term(i, a, b) == LET p == WindowAt(x, i, a, b, w)
                       IN IF Inside(x, p)
                          THEN k.at[<<i[2], 0, a, b>>] * x.at[<<i[1], i[2], p[1], p[2]>>] ELSE 0
  IN IF k.shape[2] /= 1 \/ k.shape[1] /= x.shape[2] THEN Undefined
     ELSE Tensor(WindowShape(x, w, k.shape[1]), LAMBDA i :
            SumOf([p \in (0 .. k.shape[3] - 1) \X (0 .. k.shape[4] - 1)
                     |-> term(i, p[1], p[2])]) % P)

\* A bias of the channels, and the activation a convolution may carry.
ConvFinished(y, x, op) ==
  LET b == IF x[3].shape[4] = y.shape[2] /\ x[3].shape[3] = 1 /\ x[3].shape[2] = 1
           THEN ReshapeOf(x[3], <<1, y.shape[2], 1, 1>>) ELSE x[3]
      sum == IF Len(x) < 3 THEN y
             ELSE Onto("ADD", y, b)
  IN IF ~IsDefined(y) THEN Undefined
     ELSE IF Attribute(op, "fused_relu", FALSE) /\ IsDefined(sum) THEN Map1("RELU", sum)
     ELSE sum

\* Images of one dimension become images of height 1, and back.
Heightened(x, op) ==
  IF Attribute(op, "is_1d", 0) /= 0 /\ x.shape[1] = 1
  THEN ReshapeOf(x, <<x.shape[2], x.shape[3], 1, x.shape[4]>>) ELSE x

Flattened(y, op) ==
  IF Attribute(op, "is_1d", 0) /= 0 /\ IsDefined(y) /\ y.shape[3] = 1
  THEN ReshapeOf(y, <<1, y.shape[1], y.shape[2], y.shape[4]>>) ELSE y

Greatest(S) == CHOOSE m \in S : \A e \in S : Signed(e) <= Signed(m)

\* ggml_pool_2d; the mean counts the padding.
Pool2d(x, op) ==
  LET adaptive == Attribute(op, "is_adaptive", 0) /= 0
      h == IF adaptive THEN x.shape[3] ELSE Attribute(op, "ksize_h", 2)
      v == IF adaptive THEN x.shape[4] ELSE Attribute(op, "ksize_w", 2)
      given == Window(op, h, v)
      w == IF adaptive THEN [given EXCEPT !.ksize_h = h, !.ksize_w = v, !.stride_h = h,
                                          !.stride_w = v, !.pad_h = 0, !.pad_w = 0]
           ELSE [given EXCEPT !.stride_h = Attribute(op, "stride_h", h),
                              !.stride_w = Attribute(op, "stride_w", v),
                              !.dilation_h = 1, !.dilation_w = 1]
      cells(i) == {p \in {WindowAt(x, i, a, b, w) : a \in 0 .. h - 1, b \in 0 .. v - 1} :
                     Inside(x, p)}
      values(i) == [p \in cells(i) |-> x.at[<<i[1], i[2], p[1], p[2]>>]]
  IN Tensor(WindowShape(x, w, x.shape[2]), LAMBDA i :
       IF Attribute(op, "is_max", 0) /= 0 THEN Greatest({values(i)[p] : p \in cells(i)})
       ELSE (SumOf(values(i)) * InverseOf(h * v)) % P)

\* Rows of the table, one for each index.
GetRows(table, index, out) ==
  LET n == NumElements(index.shape)
      row(j) == index.at[IndexAt(j, index.shape)]
  IN IF \E j \in 0 .. n - 1 : row(j) \notin 0 .. table.shape[3] - 1 THEN Undefined
     ELSE ReshapeOf(Tensor(<<n, table.shape[4]>>, LAMBDA i : table.at[<<0, 0, row(i[1]), i[2]>>]),
                    out)

--------------------------------------------------------------------------------
(* The switch *)

\* Operators that the importers do not make.
NotModelled == {"ROPE", "GLU", "CUSTOM_BIAS_GELU", "CUSTOM_SWIGLU", "ARGMAX", "GATED_DELTA_NET"}

\* The result of a lowered operation on its operands; out is the shape that was
\* declared for it, constant says which operands are constants.
Executed(op, x, out, constant) ==
  LET attr(key, default) == Attribute(op, key, default)
      name == op.opcode
      weighted(y) == IF Len(x) >= 2 THEN Onto("MUL", y, x[2]) ELSE y
      shifted(y) == IF Len(x) >= 3 THEN Onto("ADD", y, x[3]) ELSE y
  IN CASE name \in {"ADD", "SUB", "MUL", "DIV"} -> Arithmetic(name, x[1], x[2])
       [] name = "SQRT" -> Map1(IF attr("is_rsqrt", 0) /= 0 THEN "RSQRT" ELSE "SQRT", x[1])
       [] name = "SQR" -> Pow(x[1], IF attr("exponent", 2) = 3 THEN 3 ELSE 2)
       [] name = "MEAN" -> ReducedRows("MEAN", x[1], attr("ggml_dim", 0), out)
       [] name = "SUM_ROWS" -> ReducedRows("SUM", x[1], attr("ggml_dim", 0), out)
       [] name \in {"CPY", "CONT"} -> x[1]
       [] name \in {"SIN", "COS", "LOG"} -> Map1(name, x[1])
       [] name = "UNARY" -> Activated(attr("unary_op", "RELU"), ActivationInput(x, constant))
       [] name = "CLAMP" -> Clamp(x[1], attr("min", -P), attr("max", P))
       [] name = "REPEAT" -> Repeated(x[1], out)
       [] name = "RESHAPE" -> ReshapeOf(x[1], out)
       [] name = "PERMUTE" -> Permuted(x[1], attr("axes4", <<1, 0, 2, 3>>))
       [] name = "VIEW" -> Viewed(x[1], attr("ggml_dim", 0), attr("start", 0), attr("step", 1),
                                  attr("offset_mult", 1), out)
       [] name = "CONCAT" -> Concatenated(x, attr("ggml_dim", 0))
       [] name = "PAD" -> PaddedAfter(x[1], <<attr("pad_n", 0), attr("pad_c", 0),
                                              attr("pad_h", 0), attr("pad_w", 0)>>)
       [] name = "GET_ROWS" -> GetRows(x[1], x[2], out)
       [] name = "SOFT_MAX" -> SoftmaxOf(x[1])
       [] name \in {"NORM", "CUSTOM_LAYER_NORM"} -> shifted(weighted(LayerNormOf(x[1], attr("eps", DefaultEps))))
       [] name \in {"RMS_NORM", "CUSTOM_RMS_NORM"} -> weighted(RmsNormOf(x[1], attr("eps", DefaultEps)))
       [] name = "FLASH_ATTN_EXT" -> SdpaOf(x[1], x[2], x[3])
       [] name = "MUL_MAT" ->
            Biased(MulMat(IF TransposesIn0(x[1], x[2], op) THEN TransposeOf(x[1], 2, 3) ELSE x[1],
                          x[2]), x)
       [] name \in {"CONV_2D", "CONV_2D_DW"} ->
            LET k == Heightened(x[1], op)
                y == Heightened(x[2], op)
            IN Flattened(ConvFinished(IF name = "CONV_2D" THEN Conv2d(k, y, op)
                                      ELSE Conv2dDepthwise(k, y, op), x, op), op)
       [] name = "POOL_2D" -> Pool2d(x[1], op)
       [] name \in NotModelled -> Undefined
       [] OTHER -> x[1]  \* a copy of the first operand

\* Values of a lowered graph's tensors, from those of its inputs.
RunValues(lowered, env) ==
  LET leaves == [t \in {t \in DOMAIN lowered.tensors :
                          t \in DOMAIN env \/ lowered.tensors[t].data /= NoData} |->
                   ReshapeOf(IF t \in DOMAIN env THEN env[t] ELSE lowered.tensors[t].data,
                             lowered.tensors[t].ne)]
      step(values, op) ==
        LET known == \A k \in DOMAIN op.inputs : op.inputs[k] \in DOMAIN values
                                                   /\ IsDefined(values[op.inputs[k]])
            args == Tabulated([k \in DOMAIN op.inputs |-> values[op.inputs[k]]])
            constant == [k \in DOMAIN op.inputs |-> lowered.tensors[op.inputs[k]].storage = "CONSTANT"]
            result == IF known THEN Executed(op, args, lowered.tensors[op.outputs[1]].ne, constant)
                      ELSE Undefined
        IN (op.outputs[1] :> result) @@ values
      upto[k \in 0 .. Len(lowered.nodes)] ==
        IF k = 0 THEN leaves ELSE step(upto[k - 1], lowered.nodes[k])
  IN upto[Len(lowered.nodes)]
================================================================================
