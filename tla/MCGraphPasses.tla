------------------------------ MODULE MCGraphPasses ------------------------------
EXTENDS PassConditions, PassSources

AllFusions == {"rope", "layer_norm", "rms_norm", "softmax", "conv2d_relu", "swiglu",
               "approx_gelu", "bias_gelu", "horizontal_mlp", "horizontal_qkv",
               "sdpa_transpose", "bake_rms", "bake_affine"}

\* One fusion alone, all but one, or none.
OneOnOrOneOff == {{f} : f \in AllFusions} \cup {AllFusions \ {f} : f \in AllFusions} \cup {{}}

Under(sources, optionSets) == [source : {Shaped(s) : s \in sources}, options : optionSets]

--------------------------------------------------------------------------------
(* Sources *)

Norms == {LayerNorm, RmsNorm(TRUE), RmsNorm(FALSE)}
Ropes == {Rope(TRUE), Rope(FALSE)}
Activations == {Softmax, ConvRelu, GateUp, GeluInner, GeluOuter, BiasGelu, AddGelu}
Projections == {UpGateHalves, Qkv(TRUE), Qkv(FALSE), Attention}
Affines == {ConvNormRelu, Affine("MUL", Sample(<<3>>, 2), Sample(<<4>>, 5)),
            Affine("SUB", Scalar(4), Sample(<<4>>, 5)), MatmulAffine}
Normed == {NormedProjections("LAYER_NORM"), NormedProjections("RMS_NORM"), TiedHead}

Decomposed == Norms \cup Ropes \cup Activations \cup Projections
Everything == Decomposed \cup Affines \cup Normed \cup {Plumbing}

EitherOrder(sources) == sources \cup UNION {Swapped(s) : s \in sources}

DecomposedEitherOrder == EitherOrder(Decomposed)
BakedEitherOrder == EitherOrder(Affines \cup Normed)

\* One more reader, where the passes count the readers of a result, and one
\* more output, where they ask for the outputs.
ReadOrReturned ==
  UNION {WithReaders(s) : s \in Norms \cup {ConvRelu, ConvNormRelu, GateUp, AddGelu}
                                 \cup Projections \cup Normed \cup {Plumbing}}
    \cup UNION {WithOutputs(s) : s \in Norms \cup {Qkv(TRUE), Qkv(FALSE), Attention}}

MCCases ==
  Under(DecomposedEitherOrder \cup BakedEitherOrder \cup ReadOrReturned, {AllFusions, SafeFusions})
    \cup Under(Everything, OneOnOrOneOff)

\* Softmax over the first dimension.
MCColumnSoftmax == Under({ColumnSoftmax}, {AllFusions})

\* Graphs outside MCCases on which a pass goes wrong too: each as Cases shows it.
SharedSoftmax == Under(WithReaders(Softmax), {AllFusions})
SharedBiasGelu == Under(WithReaders(BiasGelu), {AllFusions})
ReturnedConv == Under(WithOutputs(ConvRelu), {AllFusions})
ReturnedNorm == Under(WithOutputs(NormedProjections("RMS_NORM")), {AllFusions})
TwoScaled == Under({ScaledForTwo}, {AllFusions})
OneBias == Under({SharedBias}, {AllFusions})
TwoLayers == Under({SharedProjections}, {AllFusions})
PartOfThree == Under({HalvesOfThree}, {AllFusions})
Columns == Under({ConstantColumns}, {AllFusions})
ThereAndBack == Under({TwiceTransposed}, {AllFusions})

--------------------------------------------------------------------------------
(* Properties *)

\* The operators that a recognized pattern consists of.
Plain == {"NEG", "EXP", "DIV", "RSQRT", "POW", "TANH", "SILU", "RELU", "COS", "SIN",
          "MEAN", "SUM", "AMAX"}

\* The reduced variance has to be the first operand where epsilon is added to it.
EpsilonFirst(s) == s.name \in {<<"layer_norm", "swapped", "5">>, <<"rms_norm", "swapped", "3">>}

PatternNames == {s.name : s \in {s \in DecomposedEitherOrder : ~EpsilonFirst(s)}}

\* Every pattern ends as its fused operator, whichever way round a product or a sum
\* has been written, but for an epsilon added from the left (attention and stacked
\* projections have no other way round).
Recognized ==
  at = Len(Stages) /\ options = AllFusions /\ source.name \in PatternNames =>
    \A n \in Nodes(graph) : n.opcode \notin Plain

===============================================================================
