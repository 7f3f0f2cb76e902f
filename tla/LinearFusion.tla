------------------------------ MODULE LinearFusion ------------------------------
(***************************************************************************)
(* The fusions of transforms/fusion.py around linear projections: the      *)
(* projections of one activation that become one, SwiGLU on the halves of  *)
(* such a projection, and attention with the transposition after it.       *)
(***************************************************************************)
EXTENDS ActivationFusion

--------------------------------------------------------------------------------
(* Parallel projections.  What a projection is for is read off the name of  *)
(* its weight: a query, key, value, gate or up projection, or none of them. *)

WeightName(g, node) == g.tensors[Operand(node, 2)].name

FirstNamed(g, ops, name) ==
  LET found == SelectSeq(ops, LAMBDA n : WeightName(g, n) = name)
  IN IF found = <<>> THEN NoNode ELSE found[1]

IsNamedAny(g, ops, names) == \E k \in DOMAIN ops : WeightName(g, ops[k]) \in names

IsWeight(g, t) == Storage(g, t) = "PARAMETER" /\ HasData(g, t) /\ RankOf(g, t) = 2

ProjectionsOf(g, in) ==
  SelectSeq(g.nodes, LAMBDA n : /\ n.opcode = "LINEAR" /\ Len(n.inputs) >= 2
                                /\ Operand(n, 1) = in /\ IsWeight(g, Operand(n, 2)))

\* Inputs of projections in the order of their first one.
ProjectedInputs(g) ==
  OverNodes(g, LAMBDA seen, n :
    IF n.opcode = "LINEAR" /\ Operand(n, 1) \notin Range(seen) /\ IsWeight(g, Operand(n, 2))
    THEN Append(seen, Operand(n, 1)) ELSE seen, <<>>)

CanStack(g, ops) ==
  LET w(k) == g.tensors[ops[k].inputs[2]]
      b(k) == g.tensors[ops[k].inputs[3]]
      biased == {k \in DOMAIN ops : Len(ops[k].inputs) > 2}
  IN /\ Len(ops) >= 2
     /\ \A k \in DOMAIN ops : w(k).data /= NoData /\ w(k).shape[2] = w(1).shape[2]
     /\ biased = {} \/ /\ biased = DOMAIN ops
                       /\ \A k \in DOMAIN ops : b(k).data /= NoData /\ b(k).shape = <<w(k).shape[1]>>

\* The operands' data, one above the other; the parts are dropped from the graph.
StackedData(g, parts) ==
  FoldLeft(LAMBDA acc, t : ConcatOf(acc, g.tensors[t].data, 0),
           g.tensors[parts[1]].data, Tail(parts))

ReplaceByStacked(g, parts, data) ==
  DropTensors(AddParameter(g,
    TensorInfo(IF g.tensors[parts[1]].name \in {"gate", "up"} THEN "fused_gate_up" ELSE "fused_qkv",
               data.shape, "F32", "PARAMETER", data)), Range(parts))

StackOperands(g, parts) == ReplaceByStacked(g, parts, StackedData(g, parts))

StackedOperand(g, ops, k) == StackOperands(g, [i \in DOMAIN ops |-> ops[i].inputs[k]])

\* MUTANT: where the last of them was.
LastPosition(g, ids) == Max({i \in DOMAIN g.nodes : g.nodes[i].id \in ids})

\* The stacked projection goes where the first of the projections was.
StackPosition(g, ids) == Min({i \in DOMAIN g.nodes : g.nodes[i].id \in ids})

\* Where the results of ops begin in the stacked one, and where the last ends.
Offsets(g, ops) ==
  LET offset[k \in 0 .. Len(ops)] ==
        IF k = 0 THEN 0 ELSE offset[k - 1] + g.tensors[ops[k].inputs[2]].shape[1]
  IN offset

\* The operations: the projection with the new operands, and a slice of its
\* result act for each of ops.
StackedOps(id, in, operands, act, ops, offset) ==
  <<Operation(id, "LINEAR", <<in>> \o operands, <<act>>, NoAttributes)>>
    \o [k \in DOMAIN ops |-> Operation(id + k, "SLICE", <<act>>, <<ops[k].outputs[1]>>,
                               [dim |-> -1, start |-> offset[k - 1], end |-> offset[k]])]

WithStacked(state, g, in, operands, ops, offset, ids, at) ==
  [graph |-> [AddTensor(g, TensorInfo("act",
                             Append(Front(state.graph.tensors[in].shape), offset[Len(ops)]),
                             "F32", "ACTIVATION", NoData))
                EXCEPT !.nextOp = NewOpId(g) + 1 + Len(ops)],
   replaced |-> (at :> StackedOps(NewOpId(g), in, operands, NewTensorId(g), ops, offset))
                  @@ state.replaced,
   removed |-> state.removed \cup (ids \ {at})]

\* The parameters of g that the graph before, old, did not have are the operands.
StackInto(state, old, g, ops, in, ids) ==
  WithStacked(state, g, in, SelectSeq(g.parameters, LAMBDA t : ~HasTensor(old, t)), ops,
              Offsets(old, ops), ids, old.nodes[StackPosition(old, ids)].id)

\* One projection, and a slice of its result for each of ops.
Stack(state, ops, in) ==
  StackInto(state, state.graph,
            FoldLeft(LAMBDA g, k : StackedOperand(g, ops, k), state.graph,
                     IF Len(ops[1].inputs) > 2 THEN <<2, 3>> ELSE <<2>>),
            ops, in, {n.id : n \in Range(ops)})

\* Query, key and value, or three projections none of which is of a gate.
QkvGroup(g, ops) ==
  LET named == <<FirstNamed(g, ops, "q"), FirstNamed(g, ops, "k"), FirstNamed(g, ops, "v")>>
  IN CASE NoNode \notin Range(named) -> named
       [] NoNode \in Range(named) /\ Len(ops) = 3 /\ ~IsNamedAny(g, ops, {"gate", "up"}) -> ops
       [] OTHER -> <<>>

\* Gate and up, or two projections none of which is of attention.
MlpGroup(g, ops) ==
  LET named == <<FirstNamed(g, ops, "gate"), FirstNamed(g, ops, "up")>>
  IN CASE NoNode \notin Range(named) -> named
       [] NoNode \in Range(named) /\ Len(ops) = 2 /\ ~IsNamedAny(g, ops, {"q", "k", "v"}) -> ops
       [] OTHER -> <<>>

\* Whether a weight is asked for that an earlier group has dropped: an exception.
AsksDropped(g, ops) == \E n \in Range(ops) : ~HasTensor(g, Operand(n, 2))

StackIfPossible(state, group, in) ==
  IF group = <<>> \/ ~CanStack(state.graph, group) THEN state
  ELSE Stack(state, group, in) @@ [failed |-> FALSE]

StackQkv(state, ops, in, options) ==
  CASE "horizontal_qkv" \notin options \/ Len(ops) < 3 \/ state.failed -> state
    [] OTHER -> IF AsksDropped(state.graph, ops) THEN [state EXCEPT !.failed = TRUE]
                ELSE StackIfPossible(state, QkvGroup(state.graph, ops), in)

\* Of those that are left.
StackMlp(state, ops, in, options) ==
  CASE "horizontal_mlp" \notin options \/ Len(ops) < 2 \/ state.failed -> state
    [] OTHER -> IF AsksDropped(state.graph, ops) THEN [state EXCEPT !.failed = TRUE]
                ELSE StackIfPossible(state, MlpGroup(state.graph, ops), in)

StackRest(state, ops, in, options) ==
  StackMlp(state, SelectSeq(ops, LAMBDA n : n.id \notin state.removed
                                              /\ n.id \notin DOMAIN state.replaced), in, options)

StackProjections(state, ops, in, options) ==
  StackRest(StackQkv(state, ops, in, options), ops, in, options)

\* Nodes are replaced at the end.
WithReplaced(g, all) ==
  LET put(n) == IF n.id \in DOMAIN all.replaced THEN all.replaced[n.id]
                ELSE IF n.id \in all.removed THEN <<>> ELSE <<n>>
  IN [graph |-> [all.graph EXCEPT !.nodes = FlattenSeq([i \in DOMAIN g.nodes |-> put(g.nodes[i])])],
      failed |-> all.failed]

FuseHorizontal(g, options) ==
  WithReplaced(g, FoldLeft(LAMBDA s, in : StackProjections(s, ProjectionsOf(g, in), in, options),
                           [graph |-> g, replaced |-> <<>>, removed |-> {}, failed |-> FALSE],
                           ProjectedInputs(g)))

--------------------------------------------------------------------------------
(* SwiGLU of two halves *)

Start(node) == Attribute(node, "start", 0)
End(node) == Attribute(node, "end", 0)

\* lower is [0 .. d) and upper [d .. 2d).
AreHalves(lower, upper) ==
  Start(lower) = 0 /\ End(lower) > 0 /\ Start(upper) = End(lower) /\ End(upper) = 2 * End(lower)

SwigluHalvesNode(walk, node) ==
  LET g == walk.graph
      gate == Producer(g, Operand(node, 1))
      up == Producer(g, Operand(node, 2))
      swapped == ~AreHalves(gate, up)
      joined == [node EXCEPT !.inputs = <<Operand(gate, 1)>>]
  IN IF /\ IsBinary(node, "SWIGLU")
        /\ gate.opcode \in {"SLICE", "VIEW"} /\ up.opcode \in {"SLICE", "VIEW"}
        /\ Operand(gate, 1) = Operand(up, 1)
        /\ ConsumerCount(g, Operand(node, 1)) = 1 /\ ConsumerCount(g, Operand(node, 2)) = 1
        /\ AreHalves(gate, up) \/ AreHalves(up, gate)
     THEN MarkRemoved([walk EXCEPT
            !.graph = [DropTensors(@, Range(node.inputs)) EXCEPT !.nodes =
              InPlace(@, IF swapped THEN SetAttribute(joined, "swapped", 1) ELSE joined)]],
            {gate.id, up.id})
     ELSE walk

FuseSwigluHalves(g) == Swept(OverNodes(g, SwigluHalvesNode, Walk(g)))

--------------------------------------------------------------------------------
(* Attention and the transposition of heads and positions *)

SdpaNode(walk, node) ==
  LET g == walk.graph
      out == node.outputs[1]
      readers == Consumers(g, out)
      trans == readers[1]
      r == RankOf(g, out)
      dims == {Axis(Attribute(trans, "dim0", 0), r), Axis(Attribute(trans, "dim1", 1), r)}
  IN IF /\ node.opcode = "SDPA" /\ ~IsOutputOrState(g, out)
        /\ IsSole(readers, "TRANSPOSE") /\ dims = {2, 3}
     THEN MarkRemoved([walk EXCEPT !.graph.nodes = InPlace(@,
            SetAttribute([node EXCEPT !.outputs = trans.outputs], "fused_transpose", 1))],
            {trans.id})
     ELSE walk

FuseSdpaTranspose(g) == Swept(OverNodes(g, SdpaNode, Walk(g)))
================================================================================
