------------------------------- MODULE JaxImporter -------------------------------
(***************************************************************************)
(* frontend/jax/importer.py: a jaxpr becomes a canonical graph, equation   *)
(* by equation, and lower_to_ggml makes of it the graph that the executor  *)
(* runs.  Jaxprs that an equation calls are imported in place, in a frame  *)
(* of their own: a name of the callee means what the operand meant in the  *)
(* caller, but what the caller knows of patterns is not passed on.         *)
(***************************************************************************)
EXTENDS JaxHandlers, GgmlLowering

CONSTANT Programs

ASSUME ProgramsAssumption == IsFiniteSet(Programs)

VARIABLES
  source,   \* the program, with the shapes of its names and its results
  frames,   \* the jaxprs being imported, the innermost last
  graph,    \* the canonical graph
  lowered,  \* the lowered graph, once there is one
  stage     \* "import", "lower", "finished" or "raised"

vars == <<source, frames, graph, lowered, stage>>

Nothing == <<>>

--------------------------------------------------------------------------------
(* Frames: at is the equation to import; vars the tensors of names; padded the *)
(* names that owe a padding, with the name they had before it; tables what is  *)
(* known of the patterns; helper whether a handler has defined _dim_val.       *)

NoTables == [maxOf |-> Nothing, subOf |-> Nothing, expOf |-> Nothing, sumOf |-> Nothing,
             half |-> Nothing, neg |-> Nothing, scaled |-> Nothing, erfc |-> Nothing]

Frame(eqns, names, padded) ==
  [eqns |-> eqns, at |-> 1, vars |-> names, padded |-> padded, tables |-> NoTables, helper |-> FALSE]

Top == Last(frames)
Eqn == Top.eqns[Top.at]
Running == stage = "import" /\ Top.at <= Len(Top.eqns)

Knows(v) == v \in DOMAIN Top.vars
TensorOf(v) == graph.tensors[Top.vars[v]]

Dtype(v) == IF v \in source.program.ints THEN "I32" ELSE "F32"
ShapeOf(v) == source.shapes[v]

\* The value of an operand that does not depend on the inputs.
IsConstant(v) == IsLiteral(v) \/ (Knows(v) /\ TensorOf(v).data /= NoData)
ConstantOf(v) == IF IsLiteral(v) THEN Literals[v] ELSE TensorOf(v).data

\* A literal operand becomes a constant of the graph; state is [graph, tensors].
LiteralOrKnown(state, v) ==
  IF IsLiteral(v)
  THEN [graph |-> AddConstant(state.graph, Literals[v], "F32"),
        tensors |-> Append(state.tensors, NewTensorId(state.graph))]
  ELSE [state EXCEPT !.tensors = Append(@, Top.vars[v])]

Operands == FoldLeft(LiteralOrKnown, [graph |-> graph, tensors |-> <<>>], Eqn.in)

--------------------------------------------------------------------------------
(* Patterns *)

Follows(table, e, k, other) ==
  IF e.in[k] \in DOMAIN other THEN (e.out[1] :> other[e.in[k]]) @@ table ELSE table

\* max - sub - exp - sum: at the start of every equation.
SoftmaxNoted(s, e) ==
  CASE e.prim = "reduce_max" -> [s EXCEPT !.maxOf = (e.out[1] :> <<e.in[1], e.params.axes>>) @@ @]
    [] e.prim \in {"broadcast_in_dim", "stop_gradient"} ->
         [s EXCEPT !.maxOf = Follows(@, e, 1, @), !.sumOf = Follows(@, e, 1, @)]
    [] e.prim = "sub" ->
         IF e.in[2] \in DOMAIN s.maxOf /\ s.maxOf[e.in[2]][1] = e.in[1]
         THEN [s EXCEPT !.subOf = Follows(@, e, 2, s.maxOf)] ELSE s
    [] e.prim = "exp" -> [s EXCEPT !.expOf = Follows(@, e, 1, s.subOf)]
    [] e.prim = "reduce_sum" -> [s EXCEPT !.sumOf = Follows(@, e, 1, s.expOf)]
    [] OTHER -> s

Noted(e) == SoftmaxNoted(Top.tables, e)

EndsSoftmax(s, e) ==
  /\ e.prim = "div"
  /\ e.in[1] \in DOMAIN s.expOf /\ e.in[2] \in DOMAIN s.sumOf
  /\ s.expOf[e.in[1]] = s.sumOf[e.in[2]]

IsNumber(v, number) ==
  IsConstant(v) /\ \A i \in DOMAIN ConstantOf(v).at : ConstantOf(v).at[i] = number

\* half of x, minus x, minus x / root 2, erfc of that: only of equations that are kept.
GeluNoted(s, e) ==
  LET out == e.out[1]
      x == e.in[1]
      y == e.in[2]
      half == IF IsNumber(x, Half) THEN out :> y
              ELSE IF IsNumber(y, Half) THEN out :> x ELSE Nothing
      scaled == IF IsNumber(x, RootHalf) /\ y \in DOMAIN s.neg THEN out :> s.neg[y]
                ELSE IF IsNumber(y, RootHalf) /\ x \in DOMAIN s.neg THEN out :> s.neg[x] ELSE Nothing
  IN CASE e.prim = "neg" -> [s EXCEPT !.neg = (out :> x) @@ @]
       [] e.prim = "mul" -> [s EXCEPT !.half = half @@ @, !.scaled = scaled @@ @]
       [] e.prim = "erfc" -> [s EXCEPT !.erfc = Follows(@, e, 1, s.scaled)]
       [] OTHER -> s

\* The operand of erfc that the other factor is half of.
GeluOrigins(s, e) ==
  IF e.prim /= "mul" THEN {}
  ELSE {s.erfc[e.in[k]] : k \in {k \in 1 .. 2 : /\ e.in[k] \in DOMAIN s.erfc
                                               /\ e.in[3 - k] \in DOMAIN s.half
                                               /\ s.half[e.in[3 - k]] = s.erfc[e.in[k]]
                                               /\ Knows(s.erfc[e.in[k]])}}

--------------------------------------------------------------------------------
(* The kinds of equation *)

IsCall == Eqn.prim \in Calls

\* A jit of two operands that gathers is an embedding.
IsEmbedding ==
  /\ IsCall
  /\ \E k \in DOMAIN Eqn.inner.eqns : Eqn.inner.eqns[k].prim = "gather"
  /\ Len(Eqn.in) = 2 /\ Len(Eqn.out) = 1
  /\ Knows(Eqn.in[1]) /\ Knows(Eqn.in[2])

IsIdentity == Eqn.prim \in {"stop_gradient", "copy"}

IsFolded == ~IsCall /\ ~IsIdentity /\ \A k \in DOMAIN Eqn.in : IsConstant(Eqn.in[k])

IsKept == ~IsCall /\ ~IsIdentity /\ ~IsFolded

ImagePrimitives == {"conv_general_dilated", "reduce_window_max", "reduce_window_sum"}

IsImage == Eqn.prim \in ImagePrimitives

OwesPadding == IsImage /\ Eqn.in[1] \in DOMAIN Top.padded

DefinesHelper ==
  \/ IsImage
  \/ /\ Eqn.prim = "dot_general"
     /\ Eqn.params.lhs_batch /= <<>> \/ IsDense(TensorOf(Eqn.in[2]), Eqn.params)

\* The importer raises: no lowering, a helper that only other handlers define, or a
\* padding whose source has no tensor in this frame.
IsRefused ==
  \/ Eqn.prim \notin Supported
  \/ Eqn.prim \in {"split", "stack"} /\ ~Top.helper
  \/ OwesPadding /\ ~Knows(Top.padded[Eqn.in[1]].of)

--------------------------------------------------------------------------------

\* Inputs that are parameters of the model have data.
AddInput(state, v) ==
  LET given == v \in source.program.weights
      info == TensorInfo("in", ShapeOf(v), Dtype(v), IF given THEN "PARAMETER" ELSE "INPUT",
                         IF given THEN source.program.given[v] ELSE NoData)
      t == NewTensorId(state.graph)
  IN [graph |-> IF given THEN AddParameter(state.graph, info)
                ELSE [AddTensor(state.graph, info) EXCEPT !.inputs = Append(@, t)],
      vars |-> (v :> t) @@ state.vars]

AddConst(state, v) ==
  [graph |-> AddConstant(state.graph, source.program.given[v], Dtype(v)),
   vars |-> (v :> NewTensorId(state.graph)) @@ state.vars]

EmptyGraph ==
  [nodes |-> <<>>, tensors |-> Nothing, inputs |-> <<>>, parameters |-> <<>>, outputs |-> <<>>,
   states |-> <<>>, nextTensor |-> 0, nextOp |-> 0]

\* Constants, then inputs.
Begin(p) ==
  FoldLeft(AddInput, FoldLeft(AddConst, [graph |-> EmptyGraph, vars |-> Nothing], p.consts), p.ins)

Init ==
  /\ source \in Programs
  /\ frames = <<Frame(source.program.eqns, Begin(source.program).vars, Nothing)>>
  /\ graph = Begin(source.program).graph
  /\ lowered = Nothing
  /\ stage = "import"

\* The rest of the frame, with the equation done.
Advanced(frame) == Append(Front(frames), [frame EXCEPT !.at = @ + 1, !.tables = Noted(Eqn)])

Unfinished == UNCHANGED <<source, lowered, stage>>

InlineCall ==
  /\ Running /\ IsCall /\ ~IsEmbedding
  /\ LET names == Bound(Eqn.inner.ins, Eqn.in)
         owing == {v \in DOMAIN names : names[v] \in DOMAIN Top.padded}
     IN frames' = Append(frames, Frame(Eqn.inner.eqns, Bound(Eqn.inner.ins, Operands.tensors),
                                       [v \in owing |-> Top.padded[names[v]]]))
  /\ graph' = Operands.graph
  /\ Unfinished

\* The table is the first of the operands that is a parameter or a constant.
Embed ==
  /\ Running /\ IsEmbedding
  /\ LET k == IF IsStatic(graph, Top.vars[Eqn.in[1]]) THEN 1 ELSE 2
         out == Eqn.out[1]
         t == NewTensorId(graph)
     IN /\ graph' = AddOp(AddTensor(graph, ActivationOf(ShapeOf(out), Dtype(out))), "EMBEDDING",
                          <<Top.vars[Eqn.in[k]], Top.vars[Eqn.in[3 - k]]>>, <<t>>, [dim |-> 0])
        /\ frames' = Advanced([Top EXCEPT !.vars = (out :> t) @@ @])
  /\ Unfinished

PassThrough ==
  /\ Running /\ IsIdentity
  /\ frames' = Advanced([Top EXCEPT !.vars = Follows(@, Eqn, 1, @), !.padded = Follows(@, Eqn, 1, @)])
  /\ UNCHANGED graph
  /\ Unfinished

\* An equation of constants is evaluated, with the numbers that their tensors have now.
\* (Where the evaluation raises, the code goes on with the equation as with any other;
\* the primitives of PrimitiveResults do not raise.)
FoldConstant ==
  /\ Running /\ IsFolded
  /\ LET values == PrimitiveResults(Eqn.prim, Eqn.params,
                                    [k \in DOMAIN Eqn.in |-> ConstantOf(Eqn.in[k])])
         add(state, k) ==
           [graph |-> AddConstant(state.graph, values[k], Dtype(Eqn.out[k])),
            vars |-> (Eqn.out[k] :> NewTensorId(state.graph)) @@ state.vars]
         done == FoldLeft(add, [graph |-> graph, vars |-> Top.vars], [k \in DOMAIN Eqn.out |-> k])
     IN /\ graph' = done.graph
        /\ frames' = Advanced([Top EXCEPT !.vars = done.vars])
  /\ Unfinished

Refuse ==
  /\ Running /\ IsKept /\ IsRefused
  /\ stage' = "raised"
  /\ UNCHANGED <<source, frames, graph, lowered>>

--------------------------------------------------------------------------------
(* An equation that is kept *)

NoPadding == <<<<0, 0>>, <<0, 0>>>>

\* The name that the equation's pattern or padding started from.
Origin(s) ==
  CASE OwesPadding -> Top.padded[Eqn.in[1]].of
    [] EndsSoftmax(s, Eqn) -> s.expOf[Eqn.in[1]][1]
    [] GeluOrigins(s, Eqn) /= {} -> CHOOSE v \in GeluOrigins(s, Eqn) : TRUE
    [] OTHER -> Eqn.in[1]

\* The tensors by the names they have in the handler.
Named(tensors, origin, out) ==
  [k \in {In(j) : j \in DOMAIN tensors} |-> tensors[CHOOSE j \in DOMAIN tensors : In(j) = k]]
    @@ ("out" :> out) @@ ("source" :> IF Knows(origin) THEN Top.vars[origin] ELSE tensors[1])

Facts(g, s, tensors, origin) ==
  [shapes |-> [k \in DOMAIN Eqn.out |-> ShapeOf(Eqn.out[k])], dtype |-> Dtype(Eqn.out[1]),
   source |-> g.tensors[Named(tensors, origin, None)["source"]],
   by |-> IF OwesPadding THEN Top.padded[Eqn.in[1]].by ELSE NoPadding,
   softmax |-> EndsSoftmax(s, Eqn), gelu |-> GeluOrigins(s, Eqn) /= {}]

\* A pad is left to the convolution or the window that reads its result.
Owed(padded) ==
  IF Eqn.prim = "pad" /\ Len(Eqn.params.padding_config) = 4
       /\ \E k \in 1 .. 4 : Eqn.params.padding_config[k] /= <<0, 0, 0>>
  THEN (Eqn.out[1] :> [of |-> Eqn.in[1],
                       by |-> [d \in 1 .. 2 |-> SubSeq(Eqn.params.padding_config[d + 1], 1, 2)]]) @@ padded
  ELSE padded

Done(s, done, results) ==
  /\ graph' = done.graph
  /\ frames' = Append(Front(frames),
       [Top EXCEPT !.at = @ + 1, !.tables = s, !.padded = Owed(@),
                   !.helper = @ \/ DefinesHelper,
                   !.vars = [v \in Range(Eqn.out) |->
                     done.tensors[results[CHOOSE k \in DOMAIN Eqn.out : Eqn.out[k] = v]]] @@ @])

Emitted(g, s, tensors, origin, handled) ==
  Done(s,
    Performed([graph |-> AddTensor(g, ActivationOf(ShapeOf(Eqn.out[1]), Dtype(Eqn.out[1]))),
               tensors |-> Named(tensors, origin, NewTensorId(g))], handled.steps),
    handled.results)

Handle(g, s, tensors, origin) ==
  Emitted(g, s, tensors, origin,
    Handled(Eqn, [k \in DOMAIN tensors |-> g.tensors[tensors[k]]], Facts(g, s, tensors, origin)))

Emit ==
  /\ Running /\ IsKept /\ ~IsRefused
  /\ LET s == GeluNoted(Noted(Eqn), Eqn)
     IN Handle(Operands.graph, s, Operands.tensors, Origin(s))
  /\ Unfinished

\* The callee's own name.
InnerName(v, call) == v

\* What the caller calls an operand of the callee.
OuterName(v, call) == IF v \in Range(call.inner.ins) THEN Bound(call.inner.ins, call.in)[v] ELSE v

\* The callee's results become the caller's; a padding goes back under the
\* caller's name for its source, if it has one.
Return ==
  /\ stage = "import" /\ Len(frames) > 1 /\ Top.at > Len(Top.eqns)
  /\ LET caller == frames[Len(frames) - 1]
         call == caller.eqns[caller.at]
         inner == Bound(call.out, call.inner.outs)
         known == {v \in DOMAIN inner : Knows(inner[v])}
         owing == {v \in DOMAIN inner : inner[v] \in DOMAIN Top.padded}
     IN frames' = Append(SubSeq(frames, 1, Len(frames) - 2),
          [caller EXCEPT
             !.at = @ + 1,
             !.tables = SoftmaxNoted(@, call),
             !.vars = [v \in known |-> Top.vars[inner[v]]] @@ @,
             !.padded = [v \in owing |-> [Top.padded[inner[v]] EXCEPT !.of = OuterName(@, call)]] @@ @])
  /\ UNCHANGED graph
  /\ Unfinished

\* A program's result that has no tensor is left out; validate_invariants has the last word.
Complete ==
  /\ stage = "import" /\ Len(frames) = 1 /\ Top.at > Len(Top.eqns)
  /\ LET outs == SelectSeq(source.program.outs, LAMBDA v : Knows(v))
         ids == [k \in DOMAIN outs |-> Top.vars[outs[k]]]
         marked == [graph EXCEPT
           !.outputs = ids,
           !.tensors = [t \in DOMAIN @ |-> IF t \in Range(ids)
                                           THEN [@[t] EXCEPT !.storage = "OUTPUT"] ELSE @[t]]]
     IN /\ graph' = marked
        /\ stage' = IF ValidInvariants(marked) THEN "lower" ELSE "raised"
  /\ UNCHANGED <<source, frames, lowered>>

Lower ==
  /\ stage = "lower"
  /\ lowered' = Lowered(graph)
  /\ stage' = IF LoweringRaises(lowered') THEN "raised" ELSE "finished"
  /\ UNCHANGED <<source, frames, graph>>

Next ==
  \/ InlineCall \/ Embed \/ PassThrough \/ FoldConstant \/ Refuse \/ Emit \/ Return
  \/ Complete \/ Lower

Spec == Init /\ [][Next]_vars

--------------------------------------------------------------------------------
(* Properties *)

\* The numbers of the program's inputs under the graph's names for them.
Inputs(p, g) ==
  LET names == SelectSeq(p.ins, LAMBDA v : v \notin p.weights)
  IN [t \in Range(g.inputs) |-> p.given[names[CHOOSE k \in DOMAIN g.inputs : g.inputs[k] = t]]]

AgreesWith(values, l) ==
  /\ Len(l.outputs) = Len(source.results)
  /\ \A k \in DOMAIN l.outputs :
       values[l.outputs[k]] = ReshapeOf(source.results[k], FourD(source.results[k].shape))

\* What the executor computes for the lowered graph is what JAX computes for the
\* program (import_jaxpr and lower_to_ggml, whatever pattern, call, padding or
\* transposed weight the importer went through).
SameOutputs ==
  [][stage' = "finished" => AgreesWith(RunValues(lowered', Inputs(source.program, graph)), lowered')]_vars

\* Every operation of the lowered graph has the shape that was declared for its
\* result, which is what the memory plan and the executor's buffers are sized by.
\* (Reshapes, views, repetitions and reductions are computed to the declared shape, so
\* this is about the other operators.)
DeclaredShapes ==
  [][stage' = "finished" =>
       LET values == RunValues(lowered', Inputs(source.program, graph))
       IN \A k \in DOMAIN lowered'.nodes :
            values[lowered'.nodes[k].outputs[1]].shape = lowered'.tensors[lowered'.nodes[k].outputs[1]].ne]_vars

\* Why a program may be refused, as conditions on its text (its calls call nothing).
CallsOf(p) == {e \in Range(p.eqns) : e.prim \in Calls}
Bodies(p) == {p.eqns} \cup {e.inner.eqns : e \in CallsOf(p)}

StopsWithoutLowering == Top.at <= Len(Top.eqns) /\ Eqn.prim \notin Supported

IsMatrixProduct(e) ==
  e.params.lhs_batch = <<>> /\ Len(e.params.lhs_contracting) = 1 /\ Len(ShapeOf(e.in[2])) <= 2

\* In one jaxpr, no convolution, window or product of more than matrices before it.
SplitsUnaided(p) ==
  \E eqns \in Bodies(p) : \E k \in DOMAIN eqns :
    /\ eqns[k].prim \in {"split", "stack"}
    /\ \A j \in 1 .. k - 1 : /\ eqns[j].prim \notin ImagePrimitives
                            /\ eqns[j].prim = "dot_general" => IsMatrixProduct(eqns[j])

\* The padded tensor is the caller's and its reader the callee's, or the other way round.
PadsAcrossCall(p) ==
  \E call \in CallsOf(p) :
    \/ \E pad \in Range(p.eqns), e \in Range(call.inner.eqns), k \in DOMAIN call.in :
         /\ pad.prim = "pad" /\ pad.out[1] = call.in[k]
         /\ e.prim \in ImagePrimitives /\ e.in[1] = call.inner.ins[k]
    \/ \E pad \in Range(call.inner.eqns), e \in Range(p.eqns), k \in DOMAIN call.out :
         /\ pad.prim = "pad" /\ pad.out[1] = call.inner.outs[k]
         /\ pad.in[1] \notin Range(call.inner.ins)
         /\ e.prim \in ImagePrimitives /\ e.in[1] = call.out[k]

ReturnsGiven(p) == Range(p.outs) \cap (Range(p.ins) \cup Range(p.consts)) /= {}

\* A program is refused for four reasons and no other: a primitive without lowering; a
\* split or stack before any handler has defined _dim_val in its jaxpr (importer.py:1936);
\* a padding whose source the reader's jaxpr has no name for (importer.py:955, 1601); a
\* result that is an input or a constant, whose tensor validate_invariants rejects.
RefusedForReason ==
  stage = "raised" => \/ StopsWithoutLowering
                      \/ SplitsUnaided(source.program)
                      \/ PadsAcrossCall(source.program)
                      \/ ReturnsGiven(source.program)
================================================================================
