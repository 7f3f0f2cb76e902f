--------------------------------- MODULE GraphIR ---------------------------------
(***************************************************************************)
(* The compiler's canonical graph (ir/graph.py, ir/op.py, ir/tensor.py) as *)
(* a record, the questions its passes ask of it, and what it computes.     *)
(*                                                                         *)
(* Operations are kept in the order they run.  A tensor is named by its    *)
(* number; its data is a value of TensorAlgebra, or NoData.                *)
(***************************************************************************)
EXTENDS TensorAlgebra, FiniteSetsExt

NoData == Undefined
NoAttributes == <<>>
NoNode == [id |-> -1, opcode |-> "none", inputs |-> <<>>, outputs |-> <<>>,
           attributes |-> NoAttributes]
None == -1
DefaultEps == 3

Operation(id, opcode, inputs, outputs, attributes) ==
  [id |-> id, opcode |-> opcode, inputs |-> inputs, outputs |-> outputs,
   attributes |-> attributes]

TensorInfo(name, shape, dtype, storage, data) ==
  [name |-> name, shape |-> shape, dtype |-> dtype, storage |-> storage, data |-> data,
   exportRequired |-> FALSE, listed |-> FALSE]

\* The k-th operand, None where there is none.
Operand(node, k) == IF k \in DOMAIN node.inputs THEN node.inputs[k] ELSE None

Attribute(node, key, default) ==
  IF key \in DOMAIN node.attributes THEN node.attributes[key] ELSE default

\* What a permutation names its dimensions by: a JAX transpose has "permutation".
PermutedDims(node) ==
  IF Attribute(node, "dims", <<>>) /= <<>> THEN Attribute(node, "dims", <<>>)
  ELSE Attribute(node, "permutation", <<>>)

\* The values with one more, or a new one, for t.
With(values, t, value) ==
  [u \in DOMAIN values \cup {t} |-> IF u = t THEN value ELSE values[u]]

SetAttribute(node, key, value) == [node EXCEPT !.attributes = With(@, key, value)]

--------------------------------------------------------------------------------
(* Construction *)

NewTensorId(g) == Max({g.nextTensor} \cup {t + 1 : t \in DOMAIN g.tensors})
NewOpId(g) == Max({g.nextOp} \cup {g.nodes[i].id + 1 : i \in DOMAIN g.nodes})

\* The new tensor's number is NewTensorId(g).
AddTensor(g, info) ==
  LET t == NewTensorId(g)
  IN [g EXCEPT !.tensors = (t :> info) @@ @, !.nextTensor = t + 1]

TakeOpId(g) == [g EXCEPT !.nextOp = NewOpId(g) + 1]

AddOp(g, opcode, inputs, outputs, attributes) ==
  [TakeOpId(g) EXCEPT
     !.nodes = Append(@, Operation(NewOpId(g), opcode, inputs, outputs, attributes))]

AddParameter(g, info) ==
  [AddTensor(g, info) EXCEPT !.parameters = Append(@, NewTensorId(g))]

DropTensors(g, dropped) ==
  [g EXCEPT !.tensors = [t \in DOMAIN @ \ dropped |-> @[t]],
            !.parameters = SelectSeq(@, LAMBDA t : t \notin dropped)]

\* New data with its shape, which the passes write as two attributes of one tensor.
WithData(g, t, data) == [g EXCEPT !.tensors[t].data = data, !.tensors[t].shape = data.shape]

--------------------------------------------------------------------------------
(* Queries *)

Nodes(g) == Range(g.nodes)

\* producer_map.get(t): the last operation that has t as a result.
Producer(g, t) ==
  LET at == {i \in DOMAIN g.nodes : t \in Range(g.nodes[i].outputs)}
  IN IF at = {} THEN NoNode ELSE g.nodes[Max(at)]

\* The operations that read t, in order, once for each operand.
Consumers(g, t) ==
  FlattenSeq([i \in DOMAIN g.nodes |->
    [k \in 1 .. Cardinality({j \in DOMAIN g.nodes[i].inputs : g.nodes[i].inputs[j] = t})
       |-> g.nodes[i]]])

ConsumerCount(g, t) == Len(Consumers(g, t))

HasTensor(g, t) == t \in DOMAIN g.tensors
Storage(g, t) == g.tensors[t].storage
RankOf(g, t) == Len(g.tensors[t].shape)
IsStatic(g, t) == Storage(g, t) \in {"PARAMETER", "CONSTANT"}
HasData(g, t) == g.tensors[t].data /= NoData

IsOutputOrState(g, t) == t \in Range(g.outputs) \cup Range(g.states)

LayoutOps == {"RESHAPE", "VIEW", "SQUEEZE", "UNSQUEEZE", "EXPAND", "REPEAT"}

\* The elements that pass a test, in order (the proof system knows nothing of
\* SelectSeq).
Filtered(seq, test(_)) ==
  LET upto[k \in 0 .. Len(seq)] ==
        IF k = 0 THEN <<>>
        ELSE IF test(seq[k]) THEN Append(upto[k - 1], seq[k]) ELSE upto[k - 1]
  IN upto[Len(seq)]

\* The nodes without those that have an id of ids.
WithoutOps(nodes, ids) == Filtered(nodes, LAMBDA n : n.id \notin ids)

\* A pass that goes over the nodes of g in order and keeps a state: step takes
\* the state and a node.
OverNodes(g, step(_, _), start) ==
  LET upto[k \in 0 .. Len(g.nodes)] == IF k = 0 THEN start ELSE step(upto[k - 1], g.nodes[k])
  IN upto[Len(g.nodes)]

--------------------------------------------------------------------------------
(* What the passes require of a graph *)

\* Graph.validate_invariants.
ValidInvariants(g) ==
  LET Defined(i) == Range(g.inputs) \cup Range(g.parameters) \cup Range(g.states)
                      \cup UNION {Range(g.nodes[j].outputs) : j \in 1 .. i - 1}
  IN /\ \A t \in Range(g.inputs) : HasTensor(g, t) /\ Storage(g, t) = "INPUT"
     /\ \A t \in Range(g.parameters) : HasTensor(g, t) /\ IsStatic(g, t)
     /\ \A t \in Range(g.outputs) : HasTensor(g, t)
     /\ \A i \in DOMAIN g.nodes : /\ Range(g.nodes[i].inputs) \subseteq Defined(i)
                                  /\ Range(g.nodes[i].outputs) \cap Defined(i) = {}

\* PassManager._validate_graph.
NamesExist(g) ==
  /\ \A n \in Nodes(g) : Range(n.inputs) \cup Range(n.outputs) \subseteq DOMAIN g.tensors
  /\ Range(g.outputs) \cup Range(g.states) \subseteq DOMAIN g.tensors

--------------------------------------------------------------------------------
(* What a graph computes *)

\* The exponent is an attribute, or the second operand, or else 2.
RaisedTo(x, attributes) ==
  IF "exponent" \notin DOMAIN attributes /\ Len(x) >= 2 THEN Map2("POW", x[1], x[2])
  ELSE Pow(x[1], IF "exponent" \in DOMAIN attributes THEN attributes["exponent"] ELSE 2)

JoinedAlong(x, dim) == FoldLeft(LAMBDA y, z : ConcatOf(y, z, dim), x[1], Tail(x))

\* The result of an operation on the values of its operands.
Compute(node, x) ==
  LET attr(key, default) == Attribute(node, key, default)
      op == node.opcode
      activated(y) == IF attr("fused_relu", FALSE) THEN Map1("RELU", y) ELSE y
      scaled(y) == IF Len(x) >= 2 THEN Mul(y, x[2]) ELSE y
      biased(y, b) == IF Len(x) >= 3 THEN Add(y, b) ELSE y
  IN CASE op \in {"NEG", "RELU", "SQRT", "RSQRT", "EXP", "TANH", "SILU", "SIGMOID",
                  "COS", "SIN"} -> Map1(op, x[1])
       [] op \in {"ADD", "SUB", "MUL", "DIV", "MAXIMUM"} -> Map2(op, x[1], x[2])
       [] op = "POW" -> RaisedTo(x, node.attributes)
       [] op \in {"SUM", "MEAN", "AMAX"} -> ReduceOf(op, x[1], attr("dim", -1))
       [] op \in {"CAST", "CONTIGUOUS"} -> x[1]
       [] op \in {"RESHAPE", "VIEW"} -> ReshapeOf(x[1], attr("shape", x[1].shape))
       [] op = "UNSQUEEZE" -> UnsqueezeOf(x[1], attr("dim", 0))
       [] op = "SQUEEZE" -> SqueezeOf(x[1], attr("dim", 0))
       [] op = "EXPAND" -> ExpandOf(x[1], attr("shape", x[1].shape))
       [] op = "TRANSPOSE" -> TransposeOf(x[1], attr("dim0", 0), attr("dim1", 1))
       [] op = "PERMUTE" -> PermuteOf(x[1], PermutedDims(node))
       [] op = "SLICE" -> SliceOf(x[1], attr("dim", 0), attr("start", 0), attr("end", 0))
       [] op = "CONCAT" -> JoinedAlong(x, attr("dim", 0))
       [] op = "LINEAR" -> biased(LinearOf(x[1],
             IF attr("is_addmm", 0) = 1 THEN TransposeOf(x[2], 0, 1) ELSE x[2]), x[3])
       [] op = "MATMUL" -> biased(LinearOf(x[1],
             IF attr("transpose_in1", 0) = 1 THEN x[2] ELSE TransposeOf(x[2], 0, 1)), x[3])
       [] op = "CONV2D" -> activated(biased(Conv2dOf(x[1], x[2]), OfChannels(x[3])))
       [] op = "EMBEDDING" -> LinearOf(x[2], TransposeOf(x[1], 0, 1))
       [] op = "LAYER_NORM" -> biased(scaled(LayerNormOf(x[1], attr("eps", DefaultEps))), x[3])
       [] op = "RMS_NORM" -> scaled(RmsNormOf(x[1], attr("eps", DefaultEps)))
       [] op = "SOFTMAX" -> SoftmaxOf(x[1])
       [] op = "GELU" -> GeluOf(x[1])
       [] op = "BIAS_GELU" -> GeluOf(Add(x[1], x[2]))
       [] op = "SWIGLU" ->
            IF Len(x) = 2 THEN SwigluOf(x[1], x[2])
            ELSE LET d == x[1].shape[Rank(x[1])] \div 2
                     first == SliceOf(x[1], -1, 0, d)
                     second == SliceOf(x[1], -1, d, 2 * d)
                 IN IF attr("swapped", 0) = 1 THEN SwigluOf(second, first)
                    ELSE SwigluOf(first, second)
       [] op = "ROPE" -> RopeOf(x[1], x[2], attr("freq_base", None), 2)
       [] op = "SDPA" -> LET y == SdpaOf(x[1], x[2], x[3])
                         IN IF attr("fused_transpose", 0) = 1 THEN TransposeOf(y, 1, 2) ELSE y

\* What the inputs and the data are.
Leaves(g, env) ==
  [t \in {t \in DOMAIN g.tensors : t \in DOMAIN env \/ HasData(g, t)} |->
     IF t \in DOMAIN env THEN env[t] ELSE g.tensors[t].data]

\* An operation with an operand that nothing has computed has no result.
AfterNode(values, node) ==
  LET known == \A k \in DOMAIN node.inputs :
                 node.inputs[k] \in DOMAIN values /\ values[node.inputs[k]] /= Undefined
      args == Tabulated([k \in DOMAIN node.inputs |-> values[node.inputs[k]]])
  IN IF known THEN With(values, node.outputs[1], Compute(node, args)) ELSE values

\* Values of all tensors that can be computed, from those of the inputs.
Values(g, env) == OverNodes(g, AfterNode, Leaves(g, env))

\* A state that nothing writes, or an output nothing computes, is Undefined.
Results(g, env) ==
  LET values == Values(g, env)
  IN [k \in DOMAIN g.outputs |-> IF g.outputs[k] \in DOMAIN values
                                 THEN values[g.outputs[k]] ELSE Undefined]
================================================================================
