------------------------------ MODULE GraphBuilder ------------------------------
(***************************************************************************)
(* How a front end adds to a graph what it makes of one operation of the   *)
(* program: a list of steps, in which tensors go by the names they have in *)
(* the handler; "out" is the tensor of the result and "in1", "in2", ...    *)
(* those of the operands.  tensors[name] is the number of such a tensor.   *)
(***************************************************************************)
EXTENDS GraphIR

In(k) == <<"in1", "in2", "in3", "in4", "in5", "in6">>[k]

Ins(n) == [k \in 1 .. n |-> In(k)]

Made(steps) == [steps |-> steps, results |-> <<"out">>]
Known(name) == [steps |-> <<>>, results |-> <<name>>]

\* An operation whose result is a new tensor, unless it is the one of the result.
OpStep(opcode, ins, out, shape, attributes) ==
  [does |-> "op", opcode |-> opcode, ins |-> ins, out |-> out, shape |-> shape,
   attributes |-> attributes, data |-> NoData, dtype |-> "F32"]

\* A constant, which becomes one of the graph's parameters.
ConstStep(name, data) ==
  [OpStep("none", <<>>, name, data.shape, NoAttributes) EXCEPT !.does = "constant", !.data = data]

\* Data that takes the place of a tensor's own.
DataStep(name, data) == [ConstStep(name, data) EXCEPT !.does = "data"]

ConstantScalar(name, value) == ConstStep(name, Scalar(value))

When(condition, step) == IF condition THEN <<step>> ELSE <<>>

AddConstant(g, data, dtype) ==
  AddParameter(g, TensorInfo("constant", data.shape, dtype, "CONSTANT", data))

ActivationOf(shape, dtype) == TensorInfo("t", shape, dtype, "ACTIVATION", NoData)

\* state is [graph, tensors].
NewName(state, name, g) == [graph |-> g, tensors |-> (name :> NewTensorId(state.graph)) @@ state.tensors]

WithOp(state, step) ==
  [state EXCEPT !.graph =
     AddOp(@, step.opcode, [k \in DOMAIN step.ins |-> state.tensors[step.ins[k]]],
           <<state.tensors[step.out]>>, step.attributes)]

Perform(state, step) ==
  CASE step.does = "data" ->
         [state EXCEPT !.graph = WithData(@, state.tensors[step.out], step.data)]
    [] step.does = "constant" ->
         NewName(state, step.out, AddConstant(state.graph, step.data, step.dtype))
    [] step.does = "op" /\ step.out \in DOMAIN state.tensors -> WithOp(state, step)
    [] OTHER -> WithOp(NewName(state, step.out,
                         AddTensor(state.graph, [ActivationOf(step.shape, step.dtype) EXCEPT !.data = step.data])),
                       step)

Performed(state, steps) == FoldLeft(Perform, state, steps)

\* chain_single_axis_reduction: dimensions are reduced one by one and kept, until
\* the last reduction, which drops all of them unless they are to be kept.
ReductionChain(opcode, shape, axes, out, outShape, keepdim) ==
  [k \in 1 .. Len(axes) |->
     OpStep(opcode, <<IF k = 1 THEN "in1" ELSE "reduced" \o ToString(k - 1)>>,
            IF k = Len(axes) THEN out ELSE "reduced" \o ToString(k),
            IF k = Len(axes) THEN outShape
            ELSE [d \in DOMAIN shape |-> IF d - 1 \in {axes[j] : j \in 1 .. k} THEN 1 ELSE shape[d]],
            [dim |-> axes[k], keepdim |-> IF k < Len(axes) \/ keepdim THEN 1 ELSE 0])]
================================================================================
