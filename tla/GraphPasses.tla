------------------------------- MODULE GraphPasses -------------------------------
(***************************************************************************)
(* What compile_to_graph does to a graph before it is laid out: the        *)
(* standard pipeline (constant folding, operator fusion, pruning of casts, *)
(* dead code) when a PyTorch module is exported, the same pipeline again   *)
(* in the compiler, and the fusions once more when lowering begins.  Each  *)
(* fusion of fuse_operations is a step; the pass manager looks at the      *)
(* graph after each of its passes.                                         *)
(***************************************************************************)
EXTENDS AffineBake, CleanupPasses

CONSTANT Cases  \* records [source, options]: what is compiled - a graph and values
               \* of its inputs - and the set of enabled fusions

ASSUME SourcesAreValid == \A c \in Cases : ValidInvariants(c.source.graph)

VARIABLES source, options,  \* what is compiled, with which FusionOptions
          graph,            \* the graph as it is
          at,               \* number of stages done
          raised            \* an exception has ended the compilation

vars == <<source, options, graph, at, raised>>

Fusions == <<"rope", "layer_norm", "rms_norm", "softmax", "conv2d_relu", "swiglu",
             "approx_gelu", "bias_gelu", "horizontal", "swiglu_halves", "sdpa_transpose",
             "bake_rms", "bake_affine", "conv2d_relu_again">>

Pipeline == <<"constant_folding">> \o Fusions \o <<"redundant", "dead_code">>

Stages == Pipeline \o Pipeline \o Fusions

\* fuse_operations: what an option enables.
IsEnabled(stage) ==
  CASE stage = "approx_gelu" -> options \cap {"approx_gelu", "bias_gelu"} /= {}
    [] stage = "horizontal" -> options \cap {"horizontal_mlp", "horizontal_qkv"} /= {}
    [] stage = "swiglu_halves" -> {"swiglu", "horizontal_mlp"} \subseteq options
    [] stage = "conv2d_relu_again" -> {"bake_affine", "conv2d_relu"} \subseteq options
    [] stage \in {"constant_folding", "redundant", "dead_code"} -> TRUE
    [] OTHER -> stage \in options

Rewritten(stage, g) ==
  CASE stage = "constant_folding" -> ConstantFolding(g)
    [] stage = "rope" -> FuseRope(g)
    [] stage = "layer_norm" -> FuseLayerNorm(g)
    [] stage = "rms_norm" -> FuseRmsNorm(g)
    [] stage = "softmax" -> FuseSoftmax(g)
    [] stage \in {"conv2d_relu", "conv2d_relu_again"} -> FuseConvRelu(g)
    [] stage = "swiglu" -> FuseSwiglu(g)
    [] stage = "approx_gelu" -> FuseApproxGelu(g)
    [] stage = "bias_gelu" -> FuseBiasGelu(g)
    [] stage = "horizontal" -> FuseHorizontal(g, options).graph
    [] stage = "swiglu_halves" -> FuseSwigluHalves(g)
    [] stage = "sdpa_transpose" -> FuseSdpaTranspose(g)
    [] stage = "bake_rms" -> BakeNorm(g, "RMS_NORM")
    [] stage = "bake_affine" -> BakeConstants(BakeNorm(g, "LAYER_NORM"))
    [] stage = "redundant" -> RedundantCastPruner(g)
    [] stage = "dead_code" -> DeadCodeElimination(g)

\* The manager validates after a pass; the last fusion ends the fusion pass.
EndsPass(k) == k <= 2 * Len(Pipeline) /\ Stages[k] \in {"constant_folding", "conv2d_relu_again",
                                                        "redundant", "dead_code"}

Init ==
  /\ \E c \in Cases : source = c.source /\ options = c.options
  /\ graph = source.graph /\ at = 0 /\ raised = FALSE

RunStage ==
  /\ at < Len(Stages) /\ ~raised
  /\ \E stage \in {Stages[at + 1]} :
       /\ graph' = IF IsEnabled(stage) THEN Rewritten(stage, graph) ELSE graph
       /\ raised' = \/ stage = "horizontal" /\ IsEnabled(stage)
                       /\ FuseHorizontal(graph, options).failed
                    \/ EndsPass(at + 1) /\ ~NamesExist(graph')
  /\ at' = at + 1
  /\ UNCHANGED <<source, options>>

\* compile_to_graph has ended, with a graph or with the exception.
Finished == (at = Len(Stages) \/ raised) /\ UNCHANGED vars

Next == RunStage \/ Finished

Spec == Init /\ [][Next]_vars

--------------------------------------------------------------------------------
(* Properties *)

\* After every fusion and every pass the graph computes from the inputs what the
\* graph that was to be compiled computes.  (It does not where the parts of a softmax or
\* of a biased GELU have other readers and where a convolution before its ReLU or a norm
\* before its baking is returned: the code does not ask, and the sources of the passing
\* run leave these out.)
SameResults ==
  [][~raised' => Results(graph', source.env) = Results(source.graph, source.env)]_vars

IsSequence(s) == s \in Seq(Range(s))

\* Tensors that have a value when operation i is to run.
KnownBefore(g, i) ==
  {t \in DOMAIN g.tensors : t \in Range(g.inputs) \/ HasData(g, t)}
    \cup UNION {Range(g.nodes[j].outputs) : j \in 1 .. i - 1}

IsExecutable(g) ==
  /\ {"tensors", "nodes", "inputs", "outputs", "parameters", "states"} \subseteq DOMAIN g
  /\ IsSequence(g.nodes) /\ IsSequence(g.inputs) /\ IsSequence(g.states)
  /\ \A i \in DOMAIN g.nodes :
       /\ 1 \in DOMAIN g.nodes[i].outputs
       /\ Range(g.nodes[i].inputs) \subseteq KnownBefore(g, i)
       /\ Range(g.nodes[i].outputs) \cap KnownBefore(g, i) = {}
       /\ \A j \in 1 .. i - 1 : g.nodes[j].id /= g.nodes[i].id

\* No pass raises, and what each of them leaves can be run: operations run in the
\* order of the list, each has a result, and its operands by then, no result is
\* computed twice, and no two operations have one id.
Executable == ~raised /\ IsExecutable(graph)

\* When the pipeline has run twice, lowering finds nothing more to fuse.
Settled == [][at >= 2 * Len(Pipeline) => graph' = graph]_vars

WantedIn(g) ==
  Range(g.outputs) \cup Range(g.states) \cup UNION {Range(n.inputs) : n \in Nodes(g)}

NoneDead(g) == \A n \in Nodes(g) : Range(n.outputs) \cap WantedIn(g) /= {}

\* Dead code elimination leaves no operation whose result nobody wants.
NothingDead ==
  at \in {Len(Pipeline), 2 * Len(Pipeline)} /\ ~raised => NoneDead(graph)
================================================================================
