------------------------------- MODULE AffineBake -------------------------------
(***************************************************************************)
(* The folding of scales and shifts into the weights and biases of linear  *)
(* operations, matrix products and convolutions                            *)
(* (transforms/affine_bake.py): those of a normalization before them, and  *)
(* those of a constant before or after them.                               *)
(***************************************************************************)
EXTENDS LinearFusion

BakedLayoutOps == {"VIEW", "RESHAPE", "SQUEEZE", "UNSQUEEZE", "PERMUTE", "TRANSPOSE", "CONTIGUOUS"}
ConstLayoutOps == BakedLayoutOps \cup {"EXPAND", "REPEAT"}
AffineOps == {"MUL", "DIV", "ADD", "SUB"}
NormOps == {"RMS_NORM", "LAYER_NORM"}
MaxLayoutSteps == 6
MaxRounds == 8

HasStaticData(g, t) == HasTensor(g, t) /\ HasData(g, t) /\ IsStatic(g, t)

IsParameterOfRank(g, t, rank) ==
  HasTensor(g, t) /\ HasData(g, t) /\ ~g.tensors[t].listed
    /\ RankOf(g, t) = rank /\ Storage(g, t) = "PARAMETER"

\* Which operand of a product is the activation and which the weight, and
\* whether the weight has its inputs in the first dimension; NoSpec for others.
NoSpec == [act |-> 0, weight |-> 0, transposed |-> FALSE]

Spec2(act, weight, transposed) == [act |-> act, weight |-> weight, transposed |-> transposed]

LinearSpec(g, node) ==
  LET w == g.tensors[Operand(node, 2)].shape
      x == g.tensors[Operand(node, 1)].shape
      guessed == x /= <<>> /\ w[1] = Last(x) /\ w[2] /= Last(x)
  IN IF ~IsParameterOfRank(g, Operand(node, 2), 2) THEN NoSpec
     ELSE Spec2(1, 2, Attribute(node, "is_addmm", 0) /= 0 \/ guessed)

MatmulSpec(g, node) ==
  LET isWeight(k) == IsParameterOfRank(g, Operand(node, k), 2)
      w == g.tensors[Operand(node, 1)].shape
  IN CASE isWeight(1) = isWeight(2) -> NoSpec
       [] isWeight(2) /\ ~isWeight(1) -> Spec2(1, 2, Attribute(node, "transpose_in1", 0) = 0)
       [] isWeight(1) /\ ~isWeight(2) ->
            Spec2(2, 1, Attribute(node, "transpose_in0", 0) /= 0 /\ w[1] /= w[2])

GemmSpec(g, node) ==
  CASE Len(node.inputs) < 2 -> NoSpec
    [] Len(node.inputs) >= 2 /\ node.opcode = "LINEAR" -> LinearSpec(g, node)
    [] Len(node.inputs) >= 2 /\ node.opcode = "MATMUL" -> MatmulSpec(g, node)
    [] Len(node.inputs) >= 2 /\ node.opcode = "CONV2D" ->
         IF IsParameterOfRank(g, Operand(node, 2), 4) THEN Spec2(1, 2, FALSE) ELSE NoSpec
    [] OTHER -> NoSpec

WeightOf(g, node, spec) == g.tensors[node.inputs[spec.weight]]
InAxis(spec) == IF spec.transposed THEN 1 ELSE 2
OutAxis(spec) == IF spec.transposed THEN 2 ELSE 1
InFeatures(g, node, spec) == WeightOf(g, node, spec).shape[InAxis(spec)]
OutFeatures(g, node, spec) == WeightOf(g, node, spec).shape[OutAxis(spec)]

WeightExclusive(g, t, allowed) ==
  \A n \in Nodes(g) : t \in Range(n.inputs) => n.id \in allowed

\* The dimension of a weight that a vector of n elements scales, or None.
AxisMatching(shape, n, preferIn, transposed) ==
  LET first(ds) == LET fit == SelectSeq(ds, LAMBDA d : shape[d] = n)
                   IN IF fit = <<>> THEN None ELSE fit[1]
      other == IF preferIn THEN 1 ELSE 2   \* of a transposed weight
      usual == IF preferIn THEN 2 ELSE 1
  IN CASE Len(shape) = 4 -> first(<<usual, other>>)
       [] Len(shape) = 2 /\ (transposed \/ (shape[other] = n /\ shape[usual] /= n)) -> first(<<other>>)
       [] OTHER -> first(<<usual>>)

ScaleAxis(w, vec, axis) == Tensor(w.shape, LAMBDA i : (w.at[i] * vec.at[<<i[axis]>>]) % P)

\* The vector summed against a dimension of the weight, flattened.
Contracted(w, vec, axis) ==
  LET rest == RemoveAt(w.shape, axis)
      sums == Tensor(rest, LAMBDA i : SumOf([k \in 0 .. w.shape[axis] - 1 |->
                w.at[InsertAt(i, axis, k)] * vec.at[<<k>>]]) % P)
  IN ReshapeOf(sums, <<NumElements(rest)>>)

HasBias(node) == Len(node.inputs) > 2

CanAddBias(g, node, extra) ==
  HasBias(node) => /\ HasStaticData(g, Operand(node, 3))
                   /\ NumElements(g.tensors[Operand(node, 3)].shape) = extra.shape[1]

Flat(x) == ReshapeOf(x, <<NumElements(x.shape)>>)

\* An operation without a bias gets a new parameter.
AddBias(g, node, extra) ==
  IF HasBias(node) THEN WithData(g, Operand(node, 3), Add(Flat(g.tensors[Operand(node, 3)].data), extra))
  ELSE LET added == AddParameter(g, TensorInfo("baked_bias", extra.shape, "F32", "PARAMETER", extra))
           widened == [node EXCEPT !.inputs = Append(@, NewTensorId(g))]
       IN [added EXCEPT !.nodes = InPlace(@, widened)]

--------------------------------------------------------------------------------
(* Scale and shift of a normalization *)

AllReadersAreGemms(g, node, n) ==
  /\ Consumers(g, node.outputs[1]) /= <<>>
  /\ \A c \in Range(Consumers(g, node.outputs[1])) :
       LET spec == GemmSpec(g, c)
       IN /\ spec /= NoSpec /\ c.inputs[spec.act] = node.outputs[1]
          /\ InFeatures(g, c, spec) = n

\* MUTANT: the scale and the shift stay.
StillWeighted(node) == node

Weightless(node) == [node EXCEPT !.inputs = SubSeq(@, 1, 1)]

BakeNormNode(g, node, opcode) ==
  LET gamma == Flat(g.tensors[Operand(node, 2)].data)
      n == gamma.shape[1]
      hasBeta == opcode = "LAYER_NORM" /\ Len(node.inputs) > 2 /\ HasStaticData(g, Operand(node, 3))
      beta == Flat(g.tensors[Operand(node, 3)].data)
      readers == Consumers(g, node.outputs[1])
      ids == {c.id : c \in Range(readers)}
      axis(c) == LET spec == GemmSpec(g, c)
                 IN AxisMatching(WeightOf(g, c, spec).shape, n, TRUE, spec.transposed)
      extra(c) == Contracted(WeightOf(g, c, GemmSpec(g, c)).data, beta, axis(c))
      isBakable(c) ==
        LET spec == GemmSpec(g, c)
        IN /\ WeightExclusive(g, c.inputs[spec.weight], ids) /\ axis(c) /= None
           /\ hasBeta => /\ extra(c).shape[1] = OutFeatures(g, c, spec)
                         /\ CanAddBias(g, c, extra(c))
      weights == {c.inputs[GemmSpec(g, c).weight] : c \in Range(readers)}
      readerOf(t) == CHOOSE c \in Range(readers) : c.inputs[GemmSpec(g, c).weight] = t
      scaled == [g EXCEPT !.tensors = [t \in DOMAIN @ |->
        IF t \in weights THEN [@[t] EXCEPT !.data = ScaleAxis(@, gamma, axis(readerOf(t)))] ELSE @[t]]]
      shifted == IF hasBeta THEN FoldLeft(LAMBDA h, c : AddBias(h, c, extra(c)), scaled, readers)
                 ELSE scaled
  IN IF /\ node.opcode = opcode /\ Len(node.inputs) >= 2 /\ HasStaticData(g, Operand(node, 2))
        /\ hasBeta => beta.shape[1] = n
        /\ AllReadersAreGemms(g, node, n)
        /\ \A c \in Range(readers) : isBakable(c)
     THEN [shifted EXCEPT !.nodes = InPlace(@, Weightless(node))]
     ELSE g

BakeNorm(g, opcode) == OverNodes(g, LAMBDA h, n : BakeNormNode(h, n, opcode), g)

--------------------------------------------------------------------------------
(* Constants *)

\* The tensor with static data that t is, or is laid out from; None.
StaticTensor(g, t) ==
  LET at[k \in 0 .. 8] ==   \* k layout operations down
        IF k = 0 THEN t
        ELSE LET below == at[k - 1]
                 p == Producer(g, below)
             IN IF ~HasStaticData(g, below) /\ p.opcode \in ConstLayoutOps /\ Len(p.inputs) = 1
                THEN Operand(p, 1) ELSE below
  IN IF HasStaticData(g, at[8]) THEN at[8] ELSE None

\* The operand of an affine operation that is an activation (from 1), or 0.
ActOperand(g, node) ==
  LET static(k) == StaticTensor(g, Operand(node, k)) /= None
  IN CASE Len(node.inputs) = 2 /\ static(2) /\ ~static(1) /\ node.opcode \in AffineOps -> 1
       [] Len(node.inputs) = 2 /\ static(1) /\ ~static(2) /\ node.opcode \in {"MUL", "ADD"} -> 2
       [] OTHER -> 0

ConstantOf(g, node, act) == g.tensors[StaticTensor(g, Other(node, act))].data

\* The constant as a vector of n elements, or NoData.
AffineVector(x, n) ==
  LET wide == {d \in 1 .. Rank(x) : x.shape[d] /= 1}
      only == CHOOSE v \in {x.at[i] : i \in DOMAIN x.at} : TRUE
  IN CASE wide = {} -> Vector([k \in 1 .. n |-> only])
       [] wide /= {} /\ NumElements(x.shape) = n /\ Cardinality(wide) = 1 -> Flat(x)
       [] OTHER -> NoData

\* What a factor multiplies by, what a summand adds: NoData for a division by 0.
Factor(node, vec) ==
  IF node.opcode = "MUL" THEN vec
  ELSE IF 0 \in {vec.at[i] : i \in DOMAIN vec.at} THEN NoData
  ELSE Map2("DIV", Vector([k \in 1 .. vec.shape[1] |-> 1]), vec)

Summand(node, vec) == IF node.opcode = "SUB" THEN Map1("NEG", vec) ELSE vec

IsResidualAdd(g, node) ==
  node.opcode = "ADD" /\ Len(node.inputs) = 2
    /\ \A k \in 1 .. 2 : StaticTensor(g, Operand(node, k)) = None

\* A scale of a normalization that a rotation or a residual sum reads.
NormFusionProtected(g, affine, act) ==
  LET above(node) == IF node.opcode \in BakedLayoutOps THEN Producer(g, node.inputs[1]) ELSE node
  IN /\ above(above(above(Producer(g, affine.inputs[act])))).opcode \in NormOps
     /\ \E c \in Range(Consumers(g, affine.outputs[1])) : c.opcode = "ROPE" \/ IsResidualAdd(g, c)

\* From t up through layout operations read by one operation each: the last
\* tensor of the way, the last layout operation, and the operation there.
ForwardWay(g, t) ==
  LET step(k, way) ==
        LET readers == Consumers(g, way.t)
        IN IF way.done \/ way.t \in Range(g.outputs) \/ Len(readers) /= 1
           THEN [way EXCEPT !.done = TRUE]
           ELSE CASE readers[1].opcode \in AffineOps /\ Len(readers[1].inputs) = 2 ->
                       [way EXCEPT !.affine = readers[1], !.done = TRUE]
                  [] readers[1].opcode \in BakedLayoutOps /\ Len(readers[1].inputs) = 1 ->
                       [way EXCEPT !.last = readers[1], !.t = readers[1].outputs[1]]
                  [] OTHER -> [way EXCEPT !.done = TRUE]
  IN FoldLeft(LAMBDA way, k : step(k, way),
              [t |-> t, last |-> NoNode, affine |-> NoNode, done |-> FALSE],
              [k \in 1 .. MaxLayoutSteps |-> k])

\* The result of the last operation of the way becomes that of affine, which goes.
RewiredAfter(g, gemm, way) ==
  LET source == IF way.last = NoNode THEN CHOOSE n \in Nodes(g) : n.id = gemm.id ELSE way.last
  IN [g EXCEPT !.nodes = WithoutOps(InPlace(@, [source EXCEPT !.outputs = way.affine.outputs]),
                                    {way.affine.id})]

\* The bias b is scaled with the weight.
WithScaledBias(g, b, factor) ==
  IF /\ b /= None /\ HasStaticData(g, b)
     /\ NumElements(g.tensors[b].shape) = factor.shape[1]
  THEN WithData(g, b, Mul(Flat(g.tensors[b].data), factor)) ELSE g

ScaledWeight(g, w, factor, axis) == [g EXCEPT !.tensors[w].data = ScaleAxis(@, factor, axis)]

MultiplyAfter(g, gemm, spec, way, factor, axis) ==
  IF factor = NoData \/ axis = None THEN g
  ELSE RewiredAfter(WithScaledBias(ScaledWeight(g, gemm.inputs[spec.weight], factor, axis),
                                   Operand(gemm, 3), factor), gemm, way)

AddAfter(g, gemm, way, vec) ==
  IF CanAddBias(g, gemm, vec)
  THEN RewiredAfter(AddBias(g, gemm, Summand(way.affine, vec)), gemm, way) ELSE g

ApplyAfter(g, gemm, spec, way, vec) ==
  CASE vec = NoData -> g
    [] vec /= NoData /\ way.affine.opcode \in {"MUL", "DIV"} ->
         MultiplyAfter(g, gemm, spec, way, Factor(way.affine, vec),
                       AxisMatching(WeightOf(g, gemm, spec).shape, OutFeatures(g, gemm, spec),
                                    FALSE, spec.transposed))
    [] OTHER -> AddAfter(g, gemm, way, vec)

\* act is the operand of the affine operation that is an activation. Only the fusion
\* of a convolution and a ReLU sets fused_relu, always together with the
\* fused_activation that the code also looks at (fusion.py, _fuse_conv2d_relu_patterns).
FoldAffineAfter(g, gemm, spec, way, act) ==
  IF /\ act /= 0 /\ way.affine.inputs[act] = way.t
     /\ ~(gemm.opcode = "CONV2D" /\ Attribute(gemm, "fused_relu", FALSE))
     /\ ~NormFusionProtected(g, way.affine, act)
     /\ WeightExclusive(g, gemm.inputs[spec.weight], {gemm.id})
  THEN ApplyAfter(g, gemm, spec, way,
                  AffineVector(ConstantOf(g, way.affine, act), OutFeatures(g, gemm, spec)))
  ELSE g

FoldWayAfter(g, gemm, spec, way) ==
  IF way.affine = NoNode THEN g
  ELSE FoldAffineAfter(g, gemm, spec, way, ActOperand(g, way.affine))

FoldSpecAfter(g, gemm, spec) ==
  IF spec = NoSpec THEN g ELSE FoldWayAfter(g, gemm, spec, ForwardWay(g, gemm.outputs[1]))

\* One operation after gemm: the graph, the same one when it does not apply.
FoldAfter(g, gemm) == FoldSpecAfter(g, gemm, GemmSpec(g, gemm))

\* From an operand back through layout operations that nothing else reads: the
\* first tensor of the way and the layout operation that reads it.
BackwardWay(g, t) ==
  FoldLeft(LAMBDA way, k :
             LET p == Producer(g, way.t)
             IN IF /\ ~way.done /\ p.opcode \in BakedLayoutOps /\ Len(p.inputs) = 1
                   /\ way.t \notin Range(g.outputs) /\ ConsumerCount(g, way.t) = 1
                THEN [way EXCEPT !.t = Operand(p, 1), !.first = p]
                ELSE [way EXCEPT !.done = TRUE],
           [t |-> t, first |-> NoNode, done |-> FALSE], [k \in 1 .. MaxLayoutSteps |-> k])

\* The first operation of the way, or gemm, reads what affine read; affine goes.
RewiredBefore(g, gemm, spec, way, affine, source) ==
  LET here == CHOOSE n \in Nodes(g) : n.id = gemm.id
      reader == IF way.first = NoNode THEN [here EXCEPT !.inputs[spec.act] = source]
                ELSE [way.first EXCEPT !.inputs[1] = source]
  IN [g EXCEPT !.nodes = WithoutOps(InPlace(@, reader), {affine.id})]

MultiplyBefore(g, gemm, spec, way, affine, source, factor, axis) ==
  IF factor = NoData THEN g
  ELSE RewiredBefore(ScaledWeight(g, gemm.inputs[spec.weight], factor, axis),
                     gemm, spec, way, affine, source)

AddBefore(g, gemm, spec, way, affine, source, extra) ==
  IF extra.shape[1] = OutFeatures(g, gemm, spec) /\ CanAddBias(g, gemm, extra)
  THEN RewiredBefore(AddBias(g, gemm, extra), gemm, spec, way, affine, source) ELSE g

ApplyBefore(g, gemm, spec, way, affine, source, vec, axis) ==
  CASE vec = NoData \/ axis = None -> g
    [] vec /= NoData /\ axis /= None /\ affine.opcode \in {"MUL", "DIV"} ->
         MultiplyBefore(g, gemm, spec, way, affine, source, Factor(affine, vec), axis)
    [] OTHER -> AddBefore(g, gemm, spec, way, affine, source,
                  Contracted(WeightOf(g, gemm, spec).data, Summand(affine, vec), axis))

FoldAffineBefore(g, gemm, spec, way, affine, act) ==
  IF /\ act /= 0 /\ affine.opcode \in AffineOps /\ ~NormFusionProtected(g, affine, act)
     /\ WeightExclusive(g, gemm.inputs[spec.weight], {gemm.id})
  THEN ApplyBefore(g, gemm, spec, way, affine, affine.inputs[act],
                   AffineVector(ConstantOf(g, affine, act), InFeatures(g, gemm, spec)),
                   AxisMatching(WeightOf(g, gemm, spec).shape, InFeatures(g, gemm, spec), TRUE,
                                spec.transposed))
  ELSE g

FoldOpBefore(g, gemm, spec, way, affine) ==
  FoldAffineBefore(g, gemm, spec, way, affine, ActOperand(g, affine))

FoldWayBefore(g, gemm, spec, way) == FoldOpBefore(g, gemm, spec, way, Producer(g, way.t))

FoldSpecBefore(g, gemm, spec) ==
  IF spec = NoSpec THEN g
  ELSE FoldWayBefore(g, gemm, spec, BackwardWay(g, gemm.inputs[spec.act]))

\* One operation before gemm.  What else reads it is not asked.
FoldBefore(g, gemm) == FoldSpecBefore(g, gemm, GemmSpec(g, gemm))

\* Each operation, as it is now if it is still there.
FoldAllAfter(g) ==
  OverNodes(g, LAMBDA h, node : FoldLeft(FoldAfter, h, SelectSeq(h.nodes, LAMBDA n : n.id = node.id)), g)

FoldAllBefore(g) ==
  OverNodes(g, LAMBDA h, node : FoldLeft(FoldBefore, h, SelectSeq(h.nodes, LAMBDA n : n.id = node.id)), g)

UnlessFolded(g, after) == IF after /= g THEN after ELSE FoldAllBefore(g)

\* Operations after the products first, those before when there are none; up to
\* eight times.
BakeConstants(g) ==
  LET rounds[k \in 0 .. MaxRounds] ==
        IF k = 0 THEN g
        ELSE LET round(h) == UnlessFolded(h, FoldAllAfter(h)) IN round(rounds[k - 1])
  IN rounds[MaxRounds]
================================================================================
