------------------------------ MODULE GgmlLowering ------------------------------
(***************************************************************************)
(* lower_to_ggml (dialect/ggml/lowering.py): from the canonical graph, in  *)
(* whose tensors any number of dimensions is allowed, to the graph that    *)
(* the executor runs, with four.  The fusions it may begin with are those  *)
(* of GraphPasses; here enable_fusion is off.                              *)
(***************************************************************************)
EXTENDS GgmlRuntime

\* canonical_shape_to_ggml_ne: the outer dimensions are folded into one.
FourD(shape) ==
  <<NumElements(SubSeq(shape, 1, Len(shape) - 3)),
    DimFromEnd(shape, 2), DimFromEnd(shape, 1), DimFromEnd(shape, 0)>>

Integral == {"I32", "I64", "BOOL"}

\* Indices become I32; of a mixed sum or product the integers become F32.
PromotedDtypes(g) ==
  LET indices(h, t) == IF h.tensors[t].dtype \in {"I32", "I64"}
                       THEN [h EXCEPT !.tensors[t].dtype = "I32"] ELSE h
      floats(h, t, u) == IF h.tensors[t].dtype = "F32" /\ h.tensors[u].dtype \in Integral
                         THEN [h EXCEPT !.tensors[u].dtype = "F32"] ELSE h
      step(h, op) ==
        IF op.opcode = "EMBEDDING" THEN indices(h, op.inputs[2])
        ELSE IF op.opcode \in {"ADD", "SUB", "MUL", "DIV"} /\ Len(op.inputs) >= 2
        THEN floats(floats(h, op.inputs[1], op.inputs[2]), op.inputs[2], op.inputs[1])
        ELSE h
  IN OverNodes(g, step, g)

LoweredTensors(g) ==
  [t \in DOMAIN g.tensors |->
     [ne |-> FourD(g.tensors[t].shape), data |-> g.tensors[t].data,
      dtype |-> g.tensors[t].dtype, storage |-> g.tensors[t].storage]]

\* Weights of linear layers that are kept inputs first are turned round; the
\* first layer that uses a weight decides.
LinearWeights(g, tensors) ==
  LET convert(ts, op) ==
        LET x == g.tensors[op.inputs[1]].shape
            w == g.tensors[op.inputs[2]].shape
            k == x[Len(x)]
            turned == Attribute(op, "is_addmm", 0) /= 0 \/ (w[1] = k /\ w[2] /= k)
            rows == IF turned THEN IF w[1] = k THEN w[2] ELSE w[1]
                    ELSE IF w[2] = k THEN w[1] ELSE w[2]
            t == ts[op.inputs[2]]
        IN [ts EXCEPT ![op.inputs[2]] =
              [t EXCEPT !.ne = <<1, 1, rows, k>>,
                        !.data = IF turned THEN TransposeOf(@, 0, 1) ELSE @]]
      step(s, op) ==
        IF op.opcode /= "LINEAR" \/ op.inputs[2] \in s.done THEN s
        ELSE [done |-> s.done \cup {op.inputs[2]},
              tensors |-> IF s.tensors[op.inputs[2]].data /= NoData
                               /\ Rank(s.tensors[op.inputs[2]].data) = 2
                          THEN convert(s.tensors, op) ELSE s.tensors]
  IN OverNodes(g, step, [done |-> {}, tensors |-> tensors]).tensors

--------------------------------------------------------------------------------
(* Operations *)

Raises(op) == [op EXCEPT !.opcode = "raise"]

As(op, opcode, attributes) ==
  [op EXCEPT !.opcode = opcode, !.attributes = attributes @@ op.attributes]

Unchanged(op, opcode) == As(op, opcode, NoAttributes)

Activation(op, name) == [op EXCEPT !.opcode = "UNARY", !.attributes = [unary_op |-> name]]

\* ggml's number of a dimension, the last being 0.
GgmlDim(dim, rank) == rank - Axis(dim, rank)

\* dim is a number: both importers chain reductions over several dimensions.
ReducedAlong(op, opcode, dim, rank) == As(op, opcode, [ggml_dim |-> GgmlDim(dim, rank)])

\* A mean has its dimension under "dim"; the other reductions have it there or in a
\* list "axes", of one.
Mean(op, rank) == ReducedAlong(op, "MEAN", Attribute(op, "dim", -1), rank)

Reduction(op, rank) ==
  LET axes == Attribute(op, "axes", <<>>)
  IN CASE Len(axes) > 1 -> Raises(op)
       [] Len(axes) = 1 -> ReducedAlong(op, "SUM_ROWS", axes[1], rank)
       [] OTHER -> ReducedAlong(op, "SUM_ROWS", Attribute(op, "dim", -1), rank)

\* The permutation as it is, in ggml's order of the dimensions.
PermuteAxesInverted(p, rank) ==
  [i \in 1 .. 4 |-> IF i <= rank THEN rank - 1 - p[rank - i + 1] ELSE i - 1]

\* ggml_permute says where each dimension goes; p says where each comes from.
PermuteAxes(p, rank) ==
  LET from(i) == (CHOOSE k \in 1 .. rank : p[k] = i) - 1
  IN IF rank = 5 /\ p[1] = 0
     THEN [i \in 1 .. 4 |-> 3 - (from(4 - (i - 1)) - 1)]  \* a batch of one is left out
     ELSE [i \in 1 .. 4 |-> IF i <= rank THEN rank - 1 - from(rank - i) ELSE i - 1]

Permutation(op, p, rank) ==
  LET axes == PermuteAxes(p, rank)
  IN IF \E i \in 1 .. 4 : axes[i] >= 4 THEN Raises(op) ELSE As(op, "PERMUTE", [axes4 |-> axes])

\* More than four dimensions are reshaped: the numbers stay where they are.
Transposition(op, rank) ==
  LET d == Axis(Attribute(op, "dim0", 0), rank)
      e == Axis(Attribute(op, "dim1", 1), rank)
      p == SwapAt([k \in 1 .. rank |-> k - 1], d, e)
  IN IF rank > 4 THEN Unchanged(op, "RESHAPE") ELSE As(op, "PERMUTE", [axes4 |-> PermuteAxes(p, rank)])

\* Where a slice begins: at the first dimension that start_indices or
\* limit_indices cut, or at dim.
Slicing(op, shape) ==
  LET rank == Len(shape)
      starts == Attribute(op, "start_indices", <<>>)
      limits == Attribute(op, "limit_indices", <<>>)
      cut == {k \in DOMAIN starts : starts[k] > 0 \/ (k \in DOMAIN limits /\ limits[k] < shape[k])}
      axis == IF cut = {} THEN Axis(Attribute(op, "dim", Attribute(op, "axis", 0)), rank) ELSE Min(cut)
      start == IF cut = {} THEN Attribute(op, "start", 0) ELSE starts[axis]
      folded == rank - axis > 3
  IN As(op, "VIEW",
        [ggml_dim |-> IF folded THEN 3 ELSE rank - axis, start |-> start,
         offset_mult |-> IF folded THEN NumElements(SubSeq(shape, axis + 1, rank - 3))
                         ELSE Attribute(op, "offset_mult", 1)])

\* stride, padding and dilation are pairs; a number, which the code takes too, would
\* stand for both (no importer writes one).
ConvAttributes(op) ==
  LET pair(key, h, w) == IF key \in DOMAIN op.attributes
                         THEN (h :> op.attributes[key][1]) @@ (w :> op.attributes[key][2])
                         ELSE NoAttributes
  IN pair("stride", "stride_h", "stride_w") @@ pair("padding", "pad_h", "pad_w")
       @@ pair("dilation", "dilation_h", "dilation_w")

\* ggml convolves all channels with all or each with its own.
Convolution(op, x, w) ==
  LET groups == Attribute(op, "groups", 1)
      ofOne == w[2] = 1
      swapped == [op EXCEPT !.inputs = <<@[2], @[1]>> \o SubSeq(@, 3, Len(@))]
      depthwise == IF Len(w) = 4 /\ Len(x) = 4
                   THEN ofOne /\ (groups > 1 \/ x[2] > 1)
                   ELSE IF Len(w) = 3 THEN ofOne /\ groups > 1 ELSE groups > 1
  IN IF Len(w) = 4 /\ Len(x) = 4 /\ ofOne /\ groups > 1 /\ ~(w[1] = groups /\ x[2] = groups)
     THEN Raises(op)
     ELSE As(swapped, IF depthwise THEN "CONV_2D_DW" ELSE "CONV_2D", ConvAttributes(op))

\* The result of the product is that of its second operand by the first's rows.
Product(op) ==
  LET swapped == [op EXCEPT !.inputs = <<@[2], @[1]>> \o SubSeq(@, 3, Len(@))]
  IN IF "transpose_in1" \in DOMAIN op.attributes
     THEN As(swapped, "MUL_MAT", [transpose_in0 |-> IF op.attributes["transpose_in1"] /= 0 THEN 0 ELSE 1])
     ELSE Unchanged(swapped, "MUL_MAT")

\* The attribute of the first of some names that there is.
FirstOf(op, keys, default) ==
  LET present == SelectSeq(keys, LAMBDA key : key \in DOMAIN op.attributes)
  IN IF present = <<>> THEN default ELSE op.attributes[Head(present)]

SameName == {"ADD", "SUB", "MUL", "DIV", "SQRT", "ARGMAX", "LOG", "SIN", "COS", "CLAMP", "PAD",
             "GATED_DELTA_NET", "ROPE"}
Activations == {"RELU", "SILU", "SIGMOID", "EXP", "HARDSWISH", "HARDSIGMOID", "TANH", "NEG", "ABS"}

\* The fused operators, where their fusion is enabled, as it is here.
Custom == [BIAS_GELU |-> "CUSTOM_BIAS_GELU", LAYER_NORM |-> "CUSTOM_LAYER_NORM",
           RMS_NORM |-> "CUSTOM_RMS_NORM", SWIGLU |-> "CUSTOM_SWIGLU"]

\* _lower_op
LoweredOp(g, op) ==
  LET shapeOf(k) == g.tensors[op.inputs[k]].shape
      rank == Len(shapeOf(1))
      name == op.opcode
      p == FirstOf(op, <<"axes", "dims", "permutation">>, [k \in 1 .. rank |-> k - 1])
  IN CASE name \in SameName -> Unchanged(op, name)
       [] name = "RSQRT" -> As(op, "SQRT", [is_rsqrt |-> 1])
       [] name = "POW" -> As(op, "SQR", [exponent |-> Attribute(op, "exponent", Attribute(op, "y", 2))])
       [] name = "MEAN" -> Mean(op, rank)
       [] name \in {"SUM", "AMAX", "AMIN"} -> Reduction(op, rank)
       [] name = "CONTIGUOUS" -> Unchanged(op, "CONT")
       [] name = "SOFTMAX" -> Unchanged(op, "SOFT_MAX")
       [] name \in Activations -> Activation(op, name)
       [] name = "MAXIMUM" -> Activation(op, "RELU")
       [] name = "GELU" -> Activation(op, IF Attribute(op, "approximate", "none") \in {"none", "erf"}
                                          THEN "GELU_ERF" ELSE "GELU")
       [] name \in {"BIAS_GELU", "LAYER_NORM", "RMS_NORM", "SWIGLU"} -> Unchanged(op, Custom[name])
       [] name = "LINEAR" ->
            Unchanged([op EXCEPT !.inputs = <<@[2], @[1]>> \o SubSeq(@, 3, Len(@))], "MUL_MAT")
       [] name = "MATMUL" -> Product(op)
       [] name = "CONV2D" -> Convolution(op, shapeOf(1), shapeOf(2))
       [] name \in {"MAX_POOL2D", "AVG_POOL2D"} ->
            As(op, "POOL_2D", [is_max |-> IF name = "MAX_POOL2D" THEN 1 ELSE 0])
       [] name = "ADAPTIVE_AVG_POOL2D" -> As(op, "POOL_2D", [is_adaptive |-> 1])
       [] name = "CONCAT" ->
            As(op, "CONCAT",
               [ggml_dim |-> IF rank = 0 THEN 0
                             ELSE GgmlDim(FirstOf(op, <<"dim", "axis", "dimension">>, 0), rank)])
       [] name = "SLICE" -> Slicing(op, shapeOf(1))
       [] name \in {"RESHAPE", "VIEW", "SQUEEZE", "UNSQUEEZE"} -> Unchanged(op, "RESHAPE")
       [] name = "PERMUTE" -> Permutation(op, p, rank)
       [] name = "TRANSPOSE" -> Transposition(op, rank)
       [] name \in {"EXPAND", "REPEAT"} -> Unchanged(op, "REPEAT")
       [] name = "EMBEDDING" -> Unchanged(op, "GET_ROWS")
       [] name = "CAST" -> Unchanged(op, "CPY")
       [] name = "SDPA" -> Unchanged(op, "FLASH_ATTN_EXT")
       [] OTHER -> Unchanged(op, "NONE")

--------------------------------------------------------------------------------

Lowered(canonical) ==
  LET g == PromotedDtypes(canonical)
  IN [inputs |-> g.inputs, outputs |-> g.outputs,
      tensors |-> LinearWeights(g, LoweredTensors(g)),
      nodes |-> [k \in DOMAIN g.nodes |-> LoweredOp(g, g.nodes[k])]]

LoweringRaises(lowered) == \E k \in DOMAIN lowered.nodes : lowered.nodes[k].opcode = "raise"
================================================================================
