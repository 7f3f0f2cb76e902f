------------------------------ MODULE CleanupPasses ------------------------------
(***************************************************************************)
(* The passes around the fusion: constant folding, the pruning of          *)
(* redundant casts and permutations, and dead code elimination             *)
(* (transforms/constant_folding.py, redundant.py, dce.py).                 *)
(***************************************************************************)
EXTENDS GraphIR

--------------------------------------------------------------------------------
(* Constant folding *)

\* NumPy's answer, or NoData where the code returns None.  The axis of a
\* concatenation is read from "axis".
EvaluateNode(opcode, x, attributes) ==
  LET attr(key, default) == IF key \in DOMAIN attributes THEN attributes[key] ELSE default
  IN CASE opcode \in {"ADD", "SUB", "MUL", "DIV"} -> Map2(opcode, x[1], x[2])
       [] opcode \in {"NEG", "SQRT", "RSQRT"} -> Map1(opcode, x[1])
       [] opcode = "POW" -> RaisedTo(x, attributes)
       [] opcode = "RESHAPE" /\ attr("shape", <<>>) /= <<>> -> ReshapeOf(x[1], attributes["shape"])
       [] opcode = "TRANSPOSE" -> TransposeOf(x[1], attr("dim0", 0), attr("dim1", 1))
       [] opcode = "PERMUTE" /\ attr("dims", <<>>) /= <<>> -> PermuteOf(x[1], attributes["dims"])
       [] opcode = "CONCAT" -> JoinedAlong(x, attr("axis", 0))
       [] OTHER -> NoData

\* Constants are folded, parameters are not.
IsKnownConstant(g, t) == HasTensor(g, t) /\ Storage(g, t) = "CONSTANT" /\ HasData(g, t)

FoldedValue(g, node) ==
  IF /\ node.inputs /= <<>> /\ Len(node.outputs) = 1
     /\ \A k \in DOMAIN node.inputs : IsKnownConstant(g, Operand(node, k))
     /\ ~IsOutputOrState(g, node.outputs[1])
  THEN EvaluateNode(node.opcode, [k \in DOMAIN node.inputs |-> g.tensors[Operand(node, k)].data],
                    node.attributes)
  ELSE NoData

\* The result of a folded operation becomes a constant, as a Python list.
FoldNode(g, node) ==
  LET value == FoldedValue(g, node)
      t == node.outputs[1]
  IN IF value = NoData THEN [g EXCEPT !.nodes = Append(@, node)]
     ELSE [g EXCEPT !.tensors[t] = [@ EXCEPT !.storage = "CONSTANT", !.data = value,
                                             !.listed = TRUE]]

ConstantFolding(g) == OverNodes(g, FoldNode, [g EXCEPT !.nodes = <<>>])

--------------------------------------------------------------------------------
(* Redundant casts *)

\* MUTANT: dimensions are counted from one.
DimsFromOne(rank) == [k \in 1 .. rank |-> k]

\* The dimensions of a tensor in their order, counted from zero.
OriginalDims(rank) == [k \in 1 .. rank |-> k - 1]

\* The dimensions after an unsqueeze and a transposition, the new one being -1;
\* <<>> when the code gives the pattern up.
DimsOfPattern(g, unsqueeze, transpose) ==
  LET rank == RankOf(g, Operand(unsqueeze, 1))
      u == Attribute(unsqueeze, "dim", 0)
      inserted == InsertAt(OriginalDims(rank), Axis(u, rank + 1), -1)
      d0 == Axis(Attribute(transpose, "dim0", 0), rank + 1)
      d1 == Axis(Attribute(transpose, "dim1", 1), rank + 1)
      dims == PermutedDims(transpose)
  IN CASE transpose.opcode = "TRANSPOSE" /\ d0 <= rank + 1 /\ d1 <= rank + 1
            -> SwapAt(inserted, d0, d1)
       [] transpose.opcode = "PERMUTE" /\ Len(dims) = rank + 1
            -> [k \in 1 .. rank + 1 |-> inserted[Axis(dims[k], rank + 1)]]
       [] OTHER -> <<>>

\* The only operation that reads t, or NoNode.
OnlyReader(g, t) ==
  IF ConsumerCount(g, t) = 1 THEN Head(Consumers(g, t)) ELSE NoNode

\* The permutation that an unsqueeze, a transposition and a squeeze of the same
\* dimension amount to: [perm, ids], perm being NoNode if they are not that.
PermutationOf(unsqueeze, move, remove, dims) ==
  LET s == Axis(Attribute(remove, "dim", 0), Len(dims))
  IN IF /\ move /= NoNode /\ remove.opcode = "SQUEEZE" /\ dims /= <<>>
        /\ s \in DOMAIN dims /\ dims[s] = -1
     THEN [perm |-> Operation(unsqueeze.id, "PERMUTE", unsqueeze.inputs, remove.outputs,
                              [dims |-> RemoveAt(dims, s)]),
           ids |-> {unsqueeze.id, move.id, remove.id}]
     ELSE [perm |-> NoNode, ids |-> {}]

SqueezedPermutation(g, unsqueeze, move) ==
  PermutationOf(unsqueeze, move,
                IF move = NoNode THEN NoNode ELSE OnlyReader(g, move.outputs[1]),
                IF move = NoNode THEN <<>> ELSE DimsOfPattern(g, unsqueeze, move))

AddPermutation(state, node, found) ==
  IF node.id \in state.gone \/ found.perm = NoNode THEN state
  ELSE [gone |-> state.gone \cup found.ids, perms |-> With(state.perms, node.id, found.perm)]

ReplaceByPermutations(g, all) ==
  [g EXCEPT !.nodes = WithoutOps([i \in DOMAIN @ |-> IF @[i].id \in DOMAIN all.perms
                                                     THEN all.perms[@[i].id] ELSE @[i]],
                                 all.gone \ DOMAIN all.perms)]

FuseUnsqueezeTransposeSqueeze(g) ==
  ReplaceByPermutations(g, OverNodes(g, LAMBDA state, node :
    IF node.opcode = "UNSQUEEZE"
    THEN AddPermutation(state, node,
                        SqueezedPermutation(g, node, OnlyReader(g, node.outputs[1])))
    ELSE state, [gone |-> {}, perms |-> <<>>]))

IsInteger(dtype) == dtype \in {"I8", "I32", "I64"}

\* An input of the graph takes the integer type it is cast to.
IsAdaptedInput(g, node) ==
  /\ Operand(node, 1) \in Range(g.inputs)
  /\ IsInteger(g.tensors[Operand(node, 1)].dtype)
  /\ IsInteger(g.tensors[node.outputs[1]].dtype)

IsIdentity(g, node) ==
  \/ node.opcode = "TRANSPOSE" /\ Attribute(node, "dim0", 0) = Attribute(node, "dim1", 1)
  \/ /\ node.opcode = "PERMUTE"
     /\ LET dims == PermutedDims(node)
        IN dims /= <<>> /\ \A k \in DOMAIN dims : dims[k] = k - 1
  \/ /\ node.opcode = "CAST"
     /\ \/ g.tensors[Operand(node, 1)].dtype = g.tensors[node.outputs[1]].dtype
        \/ IsAdaptedInput(g, node)

\* Names of eliminated results lead to what they equal.
Renamed(remap, t) == IF t \in DOMAIN remap THEN remap[t] ELSE t

PruneNode(state, node) ==
  LET g == state.graph
      adapted == IF node.opcode = "CAST" /\ IsAdaptedInput(g, node)
                 THEN [g EXCEPT !.tensors[Operand(node, 1)].dtype =
                                  g.tensors[node.outputs[1]].dtype]
                 ELSE g
  IN IF IsIdentity(g, node) /\ ~IsOutputOrState(g, node.outputs[1])
     THEN [state EXCEPT !.graph = adapted,
             !.remap = With(@, node.outputs[1], Renamed(@, Operand(node, 1)))]
     ELSE [state EXCEPT !.graph = [adapted EXCEPT !.nodes = Append(@, node)]]

\* The operation with the names of its operands replaced.
RenamedNode(remap, node) ==
  [node EXCEPT !.inputs = [k \in DOMAIN node.inputs |-> Renamed(remap, node.inputs[k])]]

WithNamesReplaced(pruned) ==
  [pruned.graph EXCEPT !.nodes =
    [i \in DOMAIN pruned.graph.nodes |-> RenamedNode(pruned.remap, pruned.graph.nodes[i])]]

PrunedGraph(g) ==
  WithNamesReplaced(OverNodes(g, PruneNode, [graph |-> [g EXCEPT !.nodes = <<>>], remap |-> <<>>]))

RedundantCastPruner(g) == PrunedGraph(FuseUnsqueezeTransposeSqueeze(g))

--------------------------------------------------------------------------------
(* Dead code *)

\* MUTANT: whatever some operation reads is live.
ReadBySome(g) == Range(g.outputs) \cup UNION {Range(n.inputs) : n \in Nodes(g)}

\* Backward reachability from the outputs and states.
LiveTensors(g) ==
  LET live[k \in 0 .. Len(g.nodes)] ==
        IF k = 0 THEN Range(g.outputs) \cup Range(g.states)
        ELSE LET before == live[k - 1]
             IN before \cup UNION {Range(Producer(g, t).inputs) : t \in before}
  IN live[Len(g.nodes)]

\* Kept whether anything reads them or not.
AlwaysKept(g) ==
  {t \in DOMAIN g.tensors : g.tensors[t].storage \in {"INPUT", "STATE"}
                            \/ g.tensors[t].exportRequired}

\* An operation that has a live result.
IsLive(g, live, node) == \E t \in live \cap Range(node.outputs) : Producer(g, t) = node

\* The graph without the tensors that are not in kept and the operations none
\* of whose results is live.
Retain(g, live, kept) ==
  [g EXCEPT !.tensors = [t \in DOMAIN @ \cap kept |-> @[t]],
            !.nodes = Filtered(@, LAMBDA n : IsLive(g, live, n)),
            !.inputs = Filtered(@, LAMBDA t : t \in kept),
            !.parameters = Filtered(@, LAMBDA t : t \in kept),
            !.states = Filtered(@, LAMBDA t : t \in kept)]

DeadCodeElimination(g) == Retain(g, LiveTensors(g), LiveTensors(g) \cup AlwaysKept(g))
================================================================================
