------------------------------ MODULE TorchImporter ------------------------------
(***************************************************************************)
(* frontend/pytorch/importer.py: a program exported by torch.export        *)
(* becomes a canonical graph, node by node, and lower_to_ggml makes of it  *)
(* the graph that the executor runs.  A name may mean the tensor of        *)
(* another: parameters at one address are one tensor, copies are what they *)
(* copy, and operators with several results are taken apart where a part   *)
(* is asked for.  Shapes are static here.                                  *)
(***************************************************************************)
EXTENDS TorchHandlers, GgmlLowering

CONSTANT Programs

ASSUME ProgramsAssumption == IsFiniteSet(Programs)

VARIABLES
  source,   \* the program, with the shapes of its names and its results
  at,       \* the node to import
  names,    \* node_to_tensor
  graph,    \* the canonical graph
  lowered,  \* the lowered graph, once there is one
  stage     \* "import", "lower", "finished" or "raised"

vars == <<source, at, names, graph, lowered, stage>>

Nothing == <<>>

ShapeOf(v) == source.shapes[v]
Node == source.program.nodes[at]
Running == stage = "import" /\ at <= Len(source.program.nodes)

--------------------------------------------------------------------------------
(* Placeholders; state is [graph, names, owners], where owners[a] is the       *)
(* placeholder that the tensor for address a was made for.                     *)

Held == source.program.held

HasNoUser(v) ==
  /\ v \notin Range(source.program.outs)
  /\ \A n \in Range(source.program.nodes) : v \notin Range(n.in)

\* The order of the numbers is not looked at.
SharesAnyOrder(state, v) ==
  /\ Held[v].pointer \in DOMAIN state.owners
  /\ ShapeOf(state.owners[Held[v].pointer]) = ShapeOf(v)

\* The numbers at an address are the same if they are read in the same order.
Shares(state, v) ==
  /\ Held[v].pointer \in DOMAIN state.owners
  /\ LET owner == state.owners[Held[v].pointer]
     IN ShapeOf(owner) = ShapeOf(v) /\ Held[owner].order = Held[v].order

\* What a host may want although no operation does: buffers, parameters nobody uses.
IsWanted(v) == Held[v].kind = "CONSTANT" \/ HasNoUser(v)

Shared(state, v) ==
  LET t == state.names[state.owners[Held[v].pointer]]
  IN [state EXCEPT
        !.names = (v :> t) @@ @,
        !.graph.tensors[t].exportRequired =
          Held[v].kind = "CONSTANT" \/ (@ /\ HasNoUser(v))]

AddHeld(state, v) ==
  LET info == TensorInfo(v, ShapeOf(v), "F32", Held[v].kind, source.program.given[v])
  IN [graph |-> AddParameter(state.graph, [info EXCEPT !.exportRequired = IsWanted(v)]),
      names |-> (v :> NewTensorId(state.graph)) @@ state.names,
      owners |-> (Held[v].pointer :> v) @@ state.owners]

AddInput(state, v) ==
  LET t == NewTensorId(state.graph)
      g == AddTensor(state.graph, TensorInfo(v, ShapeOf(v), "F32", "INPUT", NoData))
  IN [state EXCEPT !.graph = [g EXCEPT !.inputs = Append(@, t)], !.names = (v :> t) @@ @]

AddPlaceholder(state, v) ==
  IF v \notin DOMAIN Held THEN AddInput(state, v)
  ELSE IF Shares(state, v) THEN Shared(state, v)
  ELSE AddHeld(state, v)

EmptyGraph ==
  [nodes |-> <<>>, tensors |-> Nothing, inputs |-> <<>>, parameters |-> <<>>, outputs |-> <<>>,
   states |-> <<>>, nextTensor |-> 0, nextOp |-> 0]

Placeholders ==
  FoldLeft(AddPlaceholder, [graph |-> EmptyGraph, names |-> Nothing, owners |-> Nothing],
           source.program.ins)

Init ==
  /\ source \in Programs
  /\ graph = Placeholders.graph
  /\ names = Placeholders.names
  /\ at = 1
  /\ lowered = Nothing
  /\ stage = "import"

--------------------------------------------------------------------------------
(* The kinds of node *)

Containers == {"split", "split_with_sizes", "chunk", "unbind"}

\* The node that made a name.
Maker(v) == SelectSeq(source.program.nodes, LAMBDA n : n.out = v)

IsContainer == Node.op \in Containers

IsPart == Node.op = "getitem" /\ Head(Maker(Node.in[1])).op \in Containers

Copies == {"lift_fresh_copy", "to", "_to_copy", "clone", "detach", "alias", "contiguous", "dropout"}

IsAlias ==
  \/ Node.op = "getitem" /\ ~IsPart
  \/ Node.op \in Copies
  \/ Node.op = "pad" /\ \A k \in DOMAIN Node.p.pad : Node.p.pad[k] = 0

IsMadeConstant == Node.op \in MadeConstant

\* No opcode for the operator, or a permutation that four dimensions cannot express.
IsRefused ==
  \/ Node.op \notin DOMAIN ATEN_OP_MAP \cup Decomposed
  \/ /\ Node.op = "permute"
     /\ LET x == graph.tensors[names[Node.in[1]]]
        IN IsSqueezed(x, Node.p) /\ Len(KeptDims(x.shape)) > 4

IsKept == ~IsContainer /\ ~IsPart /\ ~IsAlias /\ ~IsMadeConstant

--------------------------------------------------------------------------------

Imported(t) == names' = (Node.out :> t) @@ names /\ at' = at + 1

Unfinished == UNCHANGED <<source, lowered, stage>>

\* A container has no tensor; getitem will look at its arguments.
SkipContainer ==
  /\ Running /\ IsContainer
  /\ at' = at + 1
  /\ UNCHANGED <<names, graph>>
  /\ Unfinished

\* Where part k, from 0, of a container starts.
PartStart(parent, k, size) ==
  CASE parent.op = "unbind" -> k
    [] parent.op = "split_with_sizes" -> SumOf([j \in 1 .. k |-> parent.p.sizes[j]])
    [] parent.op = "split" -> k * parent.p.size
    [] parent.op = "chunk" -> k * size

\* split counts in whole parts, also at the end of a smaller last one.
PartEnd(parent, k, size) ==
  IF parent.op = "split" THEN (k + 1) * parent.p.size ELSE PartStart(parent, k, size) + size

TakePart ==
  /\ Running /\ IsPart
  /\ LET parent == Head(Maker(Node.in[1]))
         shape == ShapeOf(Node.out)
         dim == IF parent.p.dim < 0 THEN Len(shape) + parent.p.dim ELSE parent.p.dim
         size == IF parent.op = "unbind" THEN 1 ELSE shape[dim + 1]
         k == Node.p.index
     IN /\ graph' = AddOp(AddTensor(graph, ActivationOf(shape, "F32")), "SLICE",
                          <<names[parent.in[1]]>>, <<NewTensorId(graph)>>,
                          [dim |-> dim, start |-> PartStart(parent, k, size),
                           end |-> PartEnd(parent, k, size), step |-> 1])
        /\ Imported(NewTensorId(graph))
  /\ Unfinished

Alias ==
  /\ Running /\ IsAlias
  /\ Imported(names[Node.in[1]])
  /\ UNCHANGED graph
  /\ Unfinished

\* A literal operand becomes a constant of the graph; state is [graph, tensors].
LiteralOrKnown(state, v) ==
  IF IsLiteral(v)
  THEN [graph |-> AddConstant(state.graph, Literals[v], "F32"),
        tensors |-> Append(state.tensors, NewTensorId(state.graph))]
  ELSE [state EXCEPT !.tensors = Append(@, names[v])]

Operands == FoldLeft(LiteralOrKnown, [graph |-> graph, tensors |-> <<>>], Node.in)

\* The operands are not read, but for the data that softplus finds; the tensor has
\* the node's shape, whatever the shape of the numbers.
ReplaceByConstant ==
  /\ Running /\ IsMadeConstant
  /\ LET shape == ShapeOf(Node.out)
         known == SelectSeq(Node.in, LAMBDA v : ~IsLiteral(v))
         data == ConstantOfNode(Node.op, [k \in DOMAIN known |-> graph.tensors[names[known[k]]]], shape)
     IN graph' = AddParameter(graph, TensorInfo(Node.out, shape, "F32", "CONSTANT", data))
  /\ Imported(NewTensorId(graph))
  /\ Unfinished

Refuse ==
  /\ Running /\ IsKept /\ IsRefused
  /\ stage' = "raised"
  /\ UNCHANGED <<source, at, names, graph, lowered>>

\* The tensors of the operands by the names they have in the handlers.
Named(tensors) ==
  [v \in {In(k) : k \in DOMAIN tensors} |-> tensors[CHOOSE k \in DOMAIN tensors : In(k) = v]]

Emit ==
  /\ Running /\ IsKept /\ ~IsRefused
  /\ LET g == Operands.graph
         tensors == Operands.tensors
         handled == Handled(Node, [k \in DOMAIN tensors |-> g.tensors[tensors[k]]], ShapeOf(Node.out))
         done == Performed([graph |-> g, tensors |-> Named(tensors)], handled.steps)
     IN /\ graph' = done.graph
        /\ Imported(done.tensors[handled.results[1]])
  /\ Unfinished

\* A result that has no tensor is left out; validate_invariants has the last word.
Complete ==
  /\ stage = "import" /\ at > Len(source.program.nodes)
  /\ LET outs == SelectSeq(source.program.outs, LAMBDA v : v \in DOMAIN names)
         ids == [k \in DOMAIN outs |-> names[outs[k]]]
         marked == [graph EXCEPT
           !.outputs = ids,
           !.tensors = [t \in DOMAIN @ |-> IF t \in Range(ids)
                                           THEN [@[t] EXCEPT !.storage = "OUTPUT"] ELSE @[t]]]
     IN /\ graph' = marked
        /\ stage' = IF ValidInvariants(marked) THEN "lower" ELSE "raised"
  /\ UNCHANGED <<source, at, names, lowered>>

Lower ==
  /\ stage = "lower"
  /\ lowered' = Lowered(graph)
  /\ stage' = IF LoweringRaises(lowered') THEN "raised" ELSE "finished"
  /\ UNCHANGED <<source, at, names, graph>>

Next ==
  \/ SkipContainer \/ TakePart \/ Alias \/ ReplaceByConstant \/ Refuse \/ Emit
  \/ Complete \/ Lower

Spec == Init /\ [][Next]_vars

--------------------------------------------------------------------------------
(* Properties *)

\* The numbers of the program's inputs under the graph's names for them.
Inputs(p, g) ==
  LET free == SelectSeq(p.ins, LAMBDA v : v \notin DOMAIN p.held)
  IN [t \in Range(g.inputs) |-> p.given[free[CHOOSE k \in DOMAIN g.inputs : g.inputs[k] = t]]]

Run == RunValues(lowered', Inputs(source.program, graph))

AgreesWith(values, l) ==
  /\ Len(l.outputs) = Len(source.results)
  /\ \A k \in DOMAIN l.outputs :
       values[l.outputs[k]] = ReshapeOf(source.results[k], FourD(source.results[k].shape))

\* What the executor computes for the lowered graph is what PyTorch computes for the
\* program (import_exported_program and lower_to_ggml, whatever was shared, taken
\* apart, decomposed or replaced by constants on the way).
SameOutputs == [][stage' = "finished" => AgreesWith(Run, lowered')]_vars

\* Every operation of the lowered graph has the shape that was declared for its
\* result, which is what the memory plan and the executor's buffers are sized by.
\* (Reshapes, views, repetitions and reductions are computed to the declared shape, so
\* this is about the other operators.)
DeclaredShapes ==
  [][stage' = "finished" =>
       LET values == Run
       IN \A k \in DOMAIN lowered'.nodes :
            LET t == lowered'.nodes[k].outputs[1]
            IN values[t].shape = lowered'.tensors[t].ne]_vars
================================================================================
