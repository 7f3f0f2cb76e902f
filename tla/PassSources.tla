------------------------------- MODULE PassSources -------------------------------
(***************************************************************************)
(* Graphs to compile: the operator patterns that the front ends emit and   *)
(* the tests of the passes build (tests/transforms), on small tensors, and *)
(* their variations: operands of a commutative operation swapped, one more *)
(* reader of a tensor, one more output of the graph.                       *)
(***************************************************************************)
EXTENDS GraphIR

NoAttrs == <<>>

Param(name, data) == [name |-> name, storage |-> "PARAMETER", data |-> data]
Const(data) == [name |-> "c", storage |-> "CONSTANT", data |-> data]

\* A graph from the shapes of its inputs (tensors 0, 1, ..), its parameters and
\* constants (numbered after them), its operations <<opcode, inputs,
\* attributes>>, whose results are numbered after those and have no shape yet, and
\* its outputs.
Build(name, shapes, params, ops, outs) ==
  LET ni == Len(shapes)
      np == Len(params)
      leaves == [t \in 0 .. ni + np - 1 |->
        IF t < ni THEN TensorInfo("x", shapes[t + 1], "F32", "INPUT", NoData)
        ELSE LET p == params[t - ni + 1]
             IN TensorInfo(p.name, p.data.shape, "F32", p.storage, p.data)]
      results == [t \in ni + np .. ni + np + Len(ops) - 1 |->
        TensorInfo("a", <<>>, "F32", "ACTIVATION", NoData)]
      nodes == [k \in DOMAIN ops |->
        Operation(k - 1, ops[k][1], ops[k][2], <<ni + np + k - 1>>, ops[k][3])]
      raw == [tensors |-> leaves @@ results, nodes |-> nodes, outputs |-> outs,
              inputs |-> [k \in 1 .. ni |-> k - 1], parameters |-> [k \in 1 .. np |-> ni + k - 1],
              states |-> <<>>, nextTensor |-> ni + np + Len(ops), nextOp |-> Len(ops)]
  IN [name |-> <<name>>, graph |-> raw,
      env |-> Tabulated([t \in 0 .. ni - 1 |-> Sample(shapes[t + 1], t + 1)])]

\* The source with the shapes that its tensors have.
Shaped(s) ==
  LET shapes(values) == [t \in DOMAIN s.graph.tensors |->
                           [s.graph.tensors[t] EXCEPT !.shape = values[t].shape]]
  IN [s EXCEPT !.graph.tensors = Tabulated(shapes(Values(s.graph, s.env)))]

--------------------------------------------------------------------------------
(* Variations *)

Commutative == {"ADD", "MUL"}

Swapped(s) ==
  {[s EXCEPT !.name = @ \o <<"swapped", ToString(i)>>, !.graph.nodes[i].inputs = Reverse(@)] :
     i \in {i \in DOMAIN s.graph.nodes : /\ s.graph.nodes[i].opcode \in Commutative
                                         /\ Len(s.graph.nodes[i].inputs) = 2}}

ActivationsOf(s) ==
  {t \in DOMAIN s.graph.tensors : s.graph.tensors[t].storage = "ACTIVATION"} \ Range(s.graph.outputs)

WithOutput(s, t) == [s EXCEPT !.name = @ \o <<"output", ToString(t)>>, !.graph.outputs = Append(@, t)]

\* The sign of t is changed into one more output.
WithReader(s, t) ==
  LET g == s.graph
      n == NewTensorId(g)
  IN [s EXCEPT !.name = @ \o <<"reader", ToString(t)>>,
               !.graph = [AddOp(AddTensor(g, [g.tensors[t] EXCEPT !.name = "reader"]),
                                "NEG", <<t>>, <<n>>, NoAttrs) EXCEPT !.outputs = Append(@, n)]]

WithOutputs(s) == {WithOutput(s, t) : t \in ActivationsOf(s)}
WithReaders(s) == {WithReader(s, t) : t \in ActivationsOf(s)}

--------------------------------------------------------------------------------
(* Patterns *)

Softmax == Build("softmax", <<<<2, 3>>>>, <<>>,
  <<<<"AMAX", <<0>>, [dim |-> -1]>>, <<"SUB", <<0, 1>>, NoAttrs>>, <<"EXP", <<2>>, NoAttrs>>,
    <<"SUM", <<3>>, [dim |-> -1]>>, <<"RESHAPE", <<4>>, [shape |-> <<2, 1>>]>>,
    <<"DIV", <<3, 5>>, NoAttrs>>>>, <<6>>)

ConvRelu == Build("conv_relu", <<<<1, 2, 1, 2>>>>, <<Param("w", Sample(<<3, 2, 1, 1>>, 5))>>,
  <<<<"CONV2D", <<0, 1>>, NoAttrs>>, <<"RELU", <<2>>, NoAttrs>>>>, <<3>>)

\* Convolution, batch normalization as a scale and a shift, ReLU.
ConvNormRelu == Build("conv_norm_relu", <<<<1, 2, 1, 2>>>>,
  <<Param("w", Sample(<<3, 2, 1, 1>>, 5)), Const(Sample(<<1, 3, 1, 1>>, 2)),
    Const(Sample(<<1, 3, 1, 1>>, 7))>>,
  <<<<"CONV2D", <<0, 1>>, NoAttrs>>, <<"MUL", <<4, 2>>, NoAttrs>>, <<"ADD", <<5, 3>>, NoAttrs>>,
    <<"RELU", <<6>>, NoAttrs>>>>, <<7>>)

GateUp == Build("gate_up", <<<<2, 2>>>>,
  <<Param("gate", Sample(<<3, 2>>, 3)), Param("up", Sample(<<3, 2>>, 4)), Param("d", Sample(<<2, 3>>, 6))>>,
  <<<<"LINEAR", <<0, 1>>, NoAttrs>>, <<"SILU", <<4>>, NoAttrs>>, <<"LINEAR", <<0, 2>>, NoAttrs>>,
    <<"MUL", <<5, 6>>, NoAttrs>>, <<"LINEAR", <<7, 3>>, NoAttrs>>>>, <<8>>)

\* The halves of one projection, gate last.
UpGateHalves == Build("up_gate_halves", <<<<2, 2>>>>, <<Param("w", Sample(<<6, 2>>, 3))>>,
  <<<<"LINEAR", <<0, 1>>, NoAttrs>>,
    <<"SLICE", <<2>>, [dim |-> -1, start |-> 3, end |-> 6]>>, <<"SILU", <<3>>, NoAttrs>>,
    <<"SLICE", <<2>>, [dim |-> -1, start |-> 0, end |-> 3]>>,
    <<"MUL", <<4, 5>>, NoAttrs>>>>, <<6>>)

GeluConstants == <<Const(Scalar(RootTwoOverPi)), Const(Scalar(Coefficient)), Const(Scalar(1)),
                   Const(Scalar(Half))>>

\* 0.5 * x * (1 + tanh(c * (x + k * x ^ 3))): constants are tensors 1 to 4.
GeluInner == Build("gelu_inner", <<<<2, 2>>>>, GeluConstants,
  <<<<"POW", <<0>>, [exponent |-> 3]>>, <<"MUL", <<2, 5>>, NoAttrs>>, <<"ADD", <<0, 6>>, NoAttrs>>,
    <<"MUL", <<1, 7>>, NoAttrs>>, <<"TANH", <<8>>, NoAttrs>>, <<"ADD", <<9, 3>>, NoAttrs>>,
    <<"MUL", <<4, 0>>, NoAttrs>>, <<"MUL", <<11, 10>>, NoAttrs>>>>, <<12>>)

GeluOuter == Build("gelu_outer", <<<<2, 2>>>>, GeluConstants,
  <<<<"POW", <<0>>, [exponent |-> 3]>>, <<"MUL", <<2, 5>>, NoAttrs>>, <<"ADD", <<0, 6>>, NoAttrs>>,
    <<"MUL", <<1, 7>>, NoAttrs>>, <<"TANH", <<8>>, NoAttrs>>, <<"ADD", <<9, 3>>, NoAttrs>>,
    <<"MUL", <<0, 10>>, NoAttrs>>, <<"MUL", <<11, 4>>, NoAttrs>>>>, <<12>>)

BiasGelu == Build("bias_gelu", <<<<2, 2>>>>,
  <<Param("w", Sample(<<3, 2>>, 3)), Param("b", Sample(<<3>>, 4))>>,
  <<<<"LINEAR", <<0, 1, 2>>, NoAttrs>>, <<"GELU", <<3>>, NoAttrs>>>>, <<4>>)

AddGelu == Build("add_gelu", <<<<2, 3>>>>, <<Param("b", Sample(<<3>>, 4))>>,
  <<<<"ADD", <<0, 1>>, NoAttrs>>, <<"GELU", <<2>>, NoAttrs>>>>, <<3>>)

\* Value, query and key in the order of a module's source; the value is used
\* before the others are projected.
Qkv(biased) ==
  LET in(w, b) == IF biased THEN <<0, w, b>> ELSE <<0, w>>
  IN Build("qkv", <<<<2, 2>>>>,
  <<Param("v", Sample(<<2, 2>>, 3)), Param("q", Sample(<<3, 2>>, 4)), Param("k", Sample(<<3, 2>>, 6)),
    Param("b", Sample(<<2>>, 1)), Param("b", Sample(<<3>>, 2)), Param("b", Sample(<<3>>, 3))>>,
  <<<<"LINEAR", in(1, 4), NoAttrs>>, <<"CONTIGUOUS", <<7>>, NoAttrs>>,
    <<"LINEAR", in(2, 5), NoAttrs>>, <<"LINEAR", in(3, 6), NoAttrs>>,
    <<"MUL", <<9, 10>>, NoAttrs>>>>, <<8, 11>>)

Attention == Build("attention", <<<<1, 2, 3, 2>>, <<1, 2, 3, 2>>, <<1, 2, 3, 2>>>>, <<>>,
  <<<<"SDPA", <<0, 1, 2>>, NoAttrs>>, <<"TRANSPOSE", <<3>>, [dim0 |-> 1, dim1 |-> -2]>>,
    <<"CONTIGUOUS", <<4>>, NoAttrs>>>>, <<5>>)

\* An attention that is transposed there and back.
TwiceTransposed == Build("twice_transposed", <<<<1, 2, 3, 2>>, <<1, 2, 3, 2>>, <<1, 2, 3, 2>>>>, <<>>,
  <<<<"SDPA", <<0, 1, 2>>, NoAttrs>>, <<"TRANSPOSE", <<3>>, [dim0 |-> 1, dim1 |-> 2]>>,
    <<"TRANSPOSE", <<4>>, [dim0 |-> 1, dim1 |-> 2]>>>>, <<5>>)

\* (x - mean) * (rsqrt(variance + eps) * gamma) + beta.
LayerNorm == Build("layer_norm", <<<<2, 3>>>>,
  <<Const(Scalar(4)), Param("gamma", Sample(<<3>>, 3)), Param("beta", Sample(<<3>>, 4))>>,
  <<<<"MEAN", <<0>>, [dim |-> -1]>>, <<"SUB", <<0, 4>>, NoAttrs>>, <<"MUL", <<5, 5>>, NoAttrs>>,
    <<"MEAN", <<6>>, [dim |-> -1]>>, <<"ADD", <<7, 1>>, NoAttrs>>, <<"RSQRT", <<8>>, NoAttrs>>,
    <<"MUL", <<9, 2>>, NoAttrs>>, <<"MUL", <<5, 10>>, NoAttrs>>, <<"ADD", <<11, 3>>, NoAttrs>>>>, <<12>>)

\* (x * rsqrt(mean(x ^ 2) + eps)) * weight, or * (1 + weight).
RmsNorm(onePlus) ==
  LET sum == <<<<"ADD", <<3, 2>>, NoAttrs>>>>
      body == <<<<"POW", <<0>>, [exponent |-> 2]>>, <<"MEAN", <<4>>, [dim |-> -1]>>,
                <<"ADD", <<5, 1>>, NoAttrs>>, <<"RSQRT", <<6>>, NoAttrs>>, <<"MUL", <<0, 7>>, NoAttrs>>>>
  IN Build("rms_norm", <<<<2, 3>>>>,
       <<Const(Scalar(4)), Param("weight", Sample(<<3>>, 3)), Const(Vector(<<1, 1, 1>>))>>,
       IF onePlus THEN body \o sum \o <<<<"MUL", <<8, 9>>, NoAttrs>>>>
       ELSE body \o <<<<"MUL", <<8, 2>>, NoAttrs>>>>,
       IF onePlus THEN <<10>> ELSE <<9>>)

\* x * cos + rotate_half(x) * sin of traced angles, behind a transposition of
\* heads and positions or not.
Rope(transposed) ==
  LET to == IF transposed THEN <<1, 1, 2, 4>> ELSE <<1, 2, 1, 4>>
      angles == <<<<"UNSQUEEZE", <<1>>, [dim |-> 1]>>, <<"MUL", <<3, 2>>, NoAttrs>>,
                  <<"CONCAT", <<4, 4>>, [dim |-> -1]>>, <<"COS", <<5>>, NoAttrs>>,
                  <<"SIN", <<5>>, NoAttrs>>,
                  <<"RESHAPE", <<6>>, [shape |-> to]>>, <<"RESHAPE", <<7>>, [shape |-> to]>>>>
      x == IF transposed THEN 10 ELSE 0
      n == IF transposed THEN 11 ELSE 10
      turned == IF transposed THEN <<<<"TRANSPOSE", <<0>>, [dim0 |-> 1, dim1 |-> 2]>>>> ELSE <<>>
      body == <<<<"MUL", <<x, 8>>, NoAttrs>>,
                <<"SLICE", <<x>>, [dim |-> -1, start |-> 0, end |-> 2]>>,
                <<"SLICE", <<x>>, [dim |-> -1, start |-> 2, end |-> 4]>>,
                <<"NEG", <<n + 2>>, NoAttrs>>, <<"CONCAT", <<n + 3, n + 1>>, [dim |-> -1]>>,
                <<"MUL", <<n + 4, 9>>, NoAttrs>>, <<"ADD", <<n, n + 5>>, NoAttrs>>>>
  IN Build("rope", <<<<1, 2, 3, 4>>, <<2>>>>, <<Param("inv_freq", Vector(<<1, 5>>))>>,
           angles \o turned \o body, <<n + 6>>)

\* Constants that fold, a cast of an input, an identity, a transposition of
\* heads that PyTorch wraps into a new dimension, and a dead operation.
Plumbing ==
  LET s == Build("plumbing", <<<<2, 3>>>>,
        <<Const(Matrix(<<<<1, 2>>, <<3, 4>>, <<5, 6>>>>)), Const(Scalar(3)), Param("w", Sample(<<2>>, 4))>>,
        <<<<"MUL", <<1, 2>>, NoAttrs>>, <<"TRANSPOSE", <<4>>, [dim0 |-> 0, dim1 |-> 1]>>,
          <<"CAST", <<0>>, NoAttrs>>, <<"PERMUTE", <<6>>, [permutation |-> <<0, 1>>]>>,
          <<"ADD", <<7, 5>>, NoAttrs>>, <<"UNSQUEEZE", <<8>>, [dim |-> 1]>>,
          <<"TRANSPOSE", <<9>>, [dim0 |-> 0, dim1 |-> 2]>>, <<"SQUEEZE", <<10>>, [dim |-> 1]>>,
          <<"SIGMOID", <<0>>, NoAttrs>>, <<"NEG", <<11>>, NoAttrs>>>>, <<13>>)
  IN [s EXCEPT !.graph.tensors[0].dtype = "I64", !.graph.tensors[6].dtype = "I32"]

\* A scale before a linear operation, a shift after it.
Affine(opcode, before, after) == Build("affine", <<<<2, 3>>>>,
  <<Const(before), Param("w", Sample(<<4, 3>>, 3)), Const(after)>>,
  <<<<opcode, <<0, 1>>, NoAttrs>>, <<"LINEAR", <<4, 2>>, NoAttrs>>, <<"ADD", <<5, 3>>, NoAttrs>>>>,
  <<6>>)

\* The kernel of a product in the layout of Flax: inputs first.
MatmulAffine == Build("matmul_affine", <<<<2, 3>>>>,
  <<Const(Sample(<<3>>, 2)), Param("w", Sample(<<3, 4>>, 3)), Const(Sample(<<4>>, 5))>>,
  <<<<"MUL", <<0, 1>>, NoAttrs>>, <<"MATMUL", <<4, 2>>, NoAttrs>>, <<"MUL", <<5, 3>>, NoAttrs>>>>,
  <<6>>)

\* A normalization that two projections read, one of them with a bias.
NormedProjections(norm) == Build("normed_projections", <<<<2, 3>>>>,
  <<Param("gamma", Sample(<<3>>, 2)), Param("beta", Sample(<<3>>, 4)), Param("w1", Sample(<<2, 3>>, 3)),
    Param("w2", Sample(<<4, 3>>, 5)), Param("b", Sample(<<4>>, 6))>>,
  <<<<norm, IF norm = "LAYER_NORM" THEN <<0, 1, 2>> ELSE <<0, 1>>, NoAttrs>>,
    <<"LINEAR", <<6, 3>>, NoAttrs>>, <<"LINEAR", <<6, 4, 5>>, NoAttrs>>>>, <<7, 8>>)

\* The head has the weights of the embedding of the (one-hot) tokens.
TiedHead == Build("tied_head", <<<<2, 4>>>>,
  <<Param("embedding", Sample(<<4, 3>>, 3)), Param("gamma", Sample(<<3>>, 2))>>,
  <<<<"EMBEDDING", <<1, 0>>, NoAttrs>>, <<"RMS_NORM", <<3, 2>>, NoAttrs>>,
    <<"LINEAR", <<4, 1>>, NoAttrs>>>>, <<5>>)

\* Two layers with the same projections.
SharedProjections ==
  LET projections(x) == [k \in 1 .. 3 |-> <<"LINEAR", <<x, k>>, NoAttrs>>]
      mixed(q, k, v) == <<<<"MUL", <<q, k>>, NoAttrs>>, <<"ADD", <<v, v + 1>>, NoAttrs>>>>
  IN Build("shared_projections", <<<<2, 2>>>>,
       <<Param("q", Sample(<<2, 2>>, 3)), Param("k", Sample(<<2, 2>>, 4)), Param("v", Sample(<<2, 2>>, 6))>>,
       projections(0) \o mixed(4, 5, 6) \o projections(8) \o mixed(9, 10, 11), <<13>>)

\* A scaled activation that two projections read.
ScaledForTwo == Build("scaled_for_two", <<<<2, 3>>>>,
  <<Const(Sample(<<3>>, 2)), Param("k", Sample(<<4, 3>>, 3)), Param("v", Sample(<<2, 3>>, 5))>>,
  <<<<"MUL", <<0, 1>>, NoAttrs>>, <<"LINEAR", <<4, 2>>, NoAttrs>>, <<"LINEAR", <<4, 3>>, NoAttrs>>>>,
  <<5, 6>>)

\* The gate and the value are the first two parts of a projection of three.
HalvesOfThree == Build("halves_of_three", <<<<2, 2>>>>, <<Param("w", Sample(<<6, 2>>, 3))>>,
  <<<<"LINEAR", <<0, 1>>, NoAttrs>>,
    <<"SLICE", <<2>>, [dim |-> -1, start |-> 0, end |-> 2]>>, <<"SILU", <<3>>, NoAttrs>>,
    <<"SLICE", <<2>>, [dim |-> -1, start |-> 2, end |-> 4]>>, <<"MUL", <<4, 5>>, NoAttrs>>,
    <<"SLICE", <<2>>, [dim |-> -1, start |-> 4, end |-> 6]>>, <<"ADD", <<6, 7>>, NoAttrs>>>>, <<8>>)

\* Constants side by side.
ConstantColumns == Build("constant_columns", <<<<2, 4>>>>,
  <<Const(Sample(<<2, 2>>, 3)), Const(Sample(<<2, 2>>, 5))>>,
  <<<<"CONCAT", <<1, 2>>, [dim |-> 1]>>, <<"ADD", <<0, 3>>, NoAttrs>>>>, <<4>>)

\* Softmax over the first dimension.
ColumnSoftmax == Build("column_softmax", <<<<2, 3>>>>, <<>>,
  <<<<"AMAX", <<0>>, [dim |-> 0]>>, <<"SUB", <<0, 1>>, NoAttrs>>, <<"EXP", <<2>>, NoAttrs>>,
    <<"SUM", <<3>>, [dim |-> 0]>>, <<"DIV", <<3, 4>>, NoAttrs>>>>, <<5>>)

\* Two projections of a normalized activation with one bias.
SharedBias == Build("shared_bias", <<<<2, 3>>>>,
  <<Param("gamma", Sample(<<3>>, 2)), Param("beta", Sample(<<3>>, 4)), Param("k", Sample(<<4, 3>>, 3)),
    Param("v", Sample(<<4, 3>>, 5)), Param("b", Sample(<<4>>, 6))>>,
  <<<<"LAYER_NORM", <<0, 1, 2>>, NoAttrs>>, <<"LINEAR", <<6, 3, 5>>, NoAttrs>>,
    <<"LINEAR", <<6, 4, 5>>, NoAttrs>>>>, <<7, 8>>)
================================================================================
