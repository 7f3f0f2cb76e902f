------------------------------- MODULE NormFusion -------------------------------
(***************************************************************************)
(* The fusions of transforms/fusion.py that recognize rotary embeddings    *)
(* and the two normalizations in what a front end has decomposed.  Every   *)
(* one of them goes over the nodes once: it looks producers up in the      *)
(* graph it was given (g), and collects the new list of nodes.             *)
(*                                                                         *)
(* The state of such a walk: the graph with the tensors added so far, the  *)
(* new list, and the ids of nodes to remove.                               *)
(***************************************************************************)
EXTENDS GraphIR

Walk(g) == [graph |-> g, nodes |-> <<>>, removed |-> {}]

Keep(walk, node) == [walk EXCEPT !.nodes = Append(@, node)]

MarkRemoved(walk, ids) == [walk EXCEPT !.removed = @ \cup ids]

\* The graph of a finished walk.
Walked(walk) == [walk.graph EXCEPT !.nodes = WithoutOps(walk.nodes, walk.removed)]

\* Nodes that were marked before the walk reached them are passed over.
Visit(walk, node, rewritten(_, _)) ==
  IF node.id \in walk.removed THEN walk ELSE rewritten(walk, node)

IsBinary(node, opcode) == node.opcode = opcode /\ Len(node.inputs) = 2

\* The operand of a binary node that is not the k-th.
Other(node, k) == Operand(node, 3 - k)

--------------------------------------------------------------------------------
(* Rotary embedding *)

\* The producer of t, behind operations of skipped, which are followed to their
\* first operand.
ProducerBehind(g, t, skipped) ==
  LET behind[k \in 0 .. Len(g.nodes)] ==
        IF k = 0 THEN Producer(g, t)
        ELSE LET p == behind[k - 1]
             IN IF p.opcode \in skipped /\ p.inputs /= <<>> THEN Producer(g, Operand(p, 1)) ELSE p
  IN behind[Len(g.nodes)]

\* The sum of products x * cos and rotate_half(x) * sin, with cos and sin the
\* given factors; "fits" says whether it is one.
RopeParts(g, cosMul, sinMul) ==
  LET concats == SelectSeq([k \in DOMAIN sinMul.inputs |-> Producer(g, Operand(sinMul, k))],
                           LAMBDA p : p.opcode = "CONCAT")
      rot == IF concats = <<>> THEN NoNode ELSE concats[1]
      isPair == Len(rot.inputs) = 2
      p1 == IF isPair THEN Producer(g, Operand(rot, 1)) ELSE NoNode
      p2 == IF isPair THEN Producer(g, Operand(rot, 2)) ELSE NoNode
      neg == IF p1.opcode = "NEG" THEN p1 ELSE p2
      slice1 == IF p1.opcode = "NEG" THEN p2 ELSE p1
      slice2 == IF neg.opcode = "NEG" THEN Producer(g, Operand(neg, 1)) ELSE NoNode
      fits == /\ neg.opcode = "NEG" /\ slice1.opcode = "SLICE" /\ slice2.opcode = "SLICE"
              /\ Operand(slice1, 1) = Operand(slice2, 1)
              /\ Operand(slice1, 1) \in Range(cosMul.inputs)
      x == IF fits THEN Operand(slice1, 1) ELSE None
  IN [fits |-> fits, rot |-> rot, neg |-> neg, slice1 |-> slice1, slice2 |-> slice2,
      x |-> x, cosMul |-> cosMul, sinMul |-> sinMul,
      cos |-> IF Operand(cosMul, 2) = x THEN Operand(cosMul, 1) ELSE Operand(cosMul, 2)]

\* A vector of data is taken for the frequencies, anything else for the
\* positions.  The frequency base is named by the ratio of the frequencies.
DefaultRatio == 17
PositionNames == {"pos", "positions", "position_ids", "arange"}

IsFrequencies(g, t) == HasData(g, t) /\ RankOf(g, t) = 1 /\ g.tensors[t].shape[1] > 1

RopeAngles(g, cos) ==
  LET cosOp == ProducerBehind(g, cos, {"UNSQUEEZE", "VIEW", "RESHAPE"})
      emb == IF cosOp.opcode = "COS"
             THEN ProducerBehind(g, Operand(cosOp, 1), {"CONCAT", "VIEW", "RESHAPE"}) ELSE NoNode
      factors == IF emb.opcode = "MUL" THEN emb.inputs ELSE <<>>
      actual == [k \in DOMAIN factors |->
                   LET p == Producer(g, factors[k])
                   IN IF p.opcode = "UNSQUEEZE" THEN Operand(p, 1) ELSE factors[k]]
      freqs == SelectSeq(actual, LAMBDA t : IsFrequencies(g, t))
      others == SelectSeq(actual, LAMBDA t : ~IsFrequencies(g, t))
      named == {t \in DOMAIN g.tensors : g.tensors[t].name \in PositionNames}
  IN [ratio |-> IF freqs = <<>> THEN DefaultRatio ELSE g.tensors[Last(freqs)].data.at[<<1>>],
      pos |-> CASE others /= <<>> -> Last(others)
                [] others = <<>> /\ named /= {} -> Min(named)
                [] OTHER -> 0]

\* The heads were transposed before the positions for the pattern.
IsHeadTranspose(node) ==
  /\ node.opcode = "TRANSPOSE" /\ Len(node.inputs) = 1
  /\ {Attribute(node, "dim0", None), Attribute(node, "dim1", None)} = {1, 2}

\* ROPE goes before the transposition.
EmitRope(walk, node, parts) ==
  LET angles == RopeAngles(walk.graph, parts.cos)
      trans == Producer(walk.graph, parts.x)
      pre == Operand(trans, 1)
      rotated == NewTensorId(walk.graph)
      attributes == [freq_base |-> angles.ratio]
      ids == {node.id} \cup {n.id : n \in {parts.cosMul, parts.sinMul, parts.rot, parts.neg,
                                           parts.slice1, parts.slice2}}
      typed == [walk EXCEPT !.graph.tensors[angles.pos].dtype = "I32"]
      id == NewOpId(walk.graph)
  IN IF IsHeadTranspose(trans)
     THEN MarkRemoved([typed EXCEPT
            !.graph = TakeOpId(TakeOpId(AddTensor(@,
               TensorInfo("rope", walk.graph.tensors[pre].shape, "F32", "ACTIVATION", NoData)))),
            !.nodes = @ \o <<Operation(id, "ROPE", <<pre, angles.pos>>, <<rotated>>, attributes),
                             Operation(id + 1, "TRANSPOSE", <<rotated>>, node.outputs,
                                       trans.attributes)>>],
            ids \cup IF ConsumerCount(walk.graph, parts.x) <= 3 THEN {trans.id} ELSE {})
     ELSE MarkRemoved([typed EXCEPT
            !.graph = TakeOpId(@),
            !.nodes = Append(@, Operation(id, "ROPE", <<parts.x, angles.pos>>, node.outputs,
                                          attributes))], ids)

RopeNode(walk, node) ==
  LET g == walk.graph
      p == Producer(g, Operand(node, 1))
      q == Producer(g, Operand(node, 2))
      isSum == IsBinary(node, "ADD") /\ p.opcode = "MUL" /\ q.opcode = "MUL"
      tries == IF isSum THEN SelectSeq(<<RopeParts(g, p, q), RopeParts(g, q, p)>>,
                                       LAMBDA parts : parts.fits)
               ELSE <<>>
  IN IF tries = <<>> THEN Keep(walk, node) ELSE EmitRope(walk, node, tries[1])

FuseRope(g) == Walked(OverNodes(g, LAMBDA w, n : Visit(w, n, RopeNode), Walk(g)))

--------------------------------------------------------------------------------
(* Normalizations *)

\* The last positive constant that the variance is added to.
EpsOf(g, rsqrt) ==
  LET add == Producer(g, Operand(rsqrt, 1))
      consts == IF add.opcode /= "ADD" THEN <<>>
                ELSE SelectSeq(add.inputs, LAMBDA t : IsStatic(g, t) /\ HasData(g, t)
                                                      /\ g.tensors[t].data.at[<<>>] > 0)
  IN IF consts = <<>> THEN DefaultEps ELSE g.tensors[Last(consts)].data.at[<<>>]

\* Within six operations the argument of the root leads back to x, through first
\* operands, and not through a layer.
IsDirectNorm(g, rsqrt, x) ==
  LET direct[k \in 0 .. 6] == \* with k operations left, from t
        [t \in {None} \cup DOMAIN g.tensors |->
           /\ k > 0
           /\ \/ t = x
              \/ LET p == Producer(g, t)
                 IN /\ p /= NoNode /\ p.opcode \notin {"CONV2D", "MATMUL", "LINEAR"}
                    /\ \/ x \in Range(p.inputs)
                       \/ direct[k - 1][Operand(p, 1)]]
  IN direct[6][Operand(rsqrt, 1)]

\* Scale and shift become vectors.
Flattened(g, t) ==
  IF t \in DOMAIN g.tensors /\ RankOf(g, t) > 1 /\ HasData(g, t)
  THEN WithData(g, t, ReshapeOf(g.tensors[t].data, <<NumElements(g.tensors[t].shape)>>))
  ELSE g

\* The product of x and of the product of the reciprocal root and gamma.
ScaledProduct(g, mul) ==
  LET k == IF Producer(g, Operand(mul, 2)).opcode = "MUL" THEN 2 ELSE 1
      rg == Producer(g, Operand(mul, k))
      j == IF Producer(g, Operand(rg, 1)).opcode = "RSQRT" THEN 1 ELSE 2
      rsqrt == Producer(g, Operand(rg, j))
      operand == Other(mul, k)
      sub == Producer(g, operand)
      centred == IsBinary(sub, "SUB")
  IN [fits |-> rg.opcode = "MUL" /\ rsqrt.opcode = "RSQRT", rsqrt |-> rsqrt,
      gamma |-> Other(rg, j),
      x |-> IF centred THEN Operand(sub, 1) ELSE operand]

\* The shift: a parameter, or the parameter of a sum with the centring term.
BetaOf(g, node, k) ==
  LET term == Producer(g, Other(node, k))
      statics == SelectSeq(term.inputs, LAMBDA t : IsStatic(g, t))
  IN CASE term.opcode = "ADD" /\ statics /= <<>> -> Last(statics)
       [] term = NoNode /\ IsStatic(g, Other(node, k)) -> Other(node, k)
       [] OTHER -> None

LayerNormNode(walk, node) ==
  LET g == walk.graph
      k == IF Producer(g, Operand(node, 1)).opcode = "MUL" THEN 1 ELSE 2
      mul == Producer(g, Operand(node, k))
      parts == ScaledProduct(g, mul)
      beta == BetaOf(g, node, k)
      isNorm == /\ IsBinary(node, "ADD") /\ IsBinary(mul, "MUL") /\ parts.fits
                /\ Producer(g, parts.x).opcode \notin {"NEG", "DIV", "SUM", "RSQRT"}
                /\ RankOf(g, parts.x) <= 3
                /\ IsDirectNorm(g, parts.rsqrt, parts.x)
      operands == <<parts.x, parts.gamma>> \o (IF beta = None THEN <<>> ELSE <<beta>>)
  IN IF ~isNorm THEN Keep(walk, node)
     ELSE MarkRemoved(Keep([walk EXCEPT !.graph = TakeOpId(Flattened(Flattened(@, parts.gamma), beta))],
            Operation(NewOpId(g), "LAYER_NORM", operands, node.outputs,
                      [eps |-> EpsOf(g, parts.rsqrt)])), {node.id})

FuseLayerNorm(g) == Walked(OverNodes(g, LAMBDA w, n : Visit(w, n, LayerNormNode), Walk(g)))

\* The factor of a product that is a reciprocal root: [rsqrt, x], or fits FALSE.
RsqrtMulParts(g, mul) ==
  LET ks == IF Len(mul.inputs) /= 2 THEN <<>>
            ELSE SelectSeq(<<1, 2>>, LAMBDA k : Producer(g, Operand(mul, k)).opcode = "RSQRT")
  IN IF ks = <<>> THEN [fits |-> FALSE, rsqrt |-> NoNode, x |-> None]
     ELSE [fits |-> TRUE, rsqrt |-> Producer(g, mul.inputs[ks[1]]), x |-> Other(mul, ks[1])]

IsOnes(x) == x.at /= <<>> /\ \A i \in DOMAIN x.at : x.at[i] = 1

\* The parameter and the ones whose sum is the scale (a scale of 1 + weight).
OnePlusOperands(g, scale) ==
  LET sum == Producer(g, scale)
      holds(storage) == {t \in Range(sum.inputs) : Storage(g, t) = storage /\ HasData(g, t)}
  IN [fits |-> /\ IsBinary(sum, "ADD")
               /\ holds("PARAMETER") /= {} /\ holds("CONSTANT") /= {}
               /\ \A t \in holds("CONSTANT") : IsOnes(g.tensors[t].data),
      weights |-> holds("PARAMETER"), ones |-> holds("CONSTANT")]

\* The sum becomes a parameter of the graph, numbered NewTensorId(g).
MaterializeOnePlusWeight(g, scale) ==
  LET parts == OnePlusOperands(g, scale)
      weight == Max(parts.weights)
      ones == Max(parts.ones)
      flat(t) == ReshapeOf(g.tensors[t].data, <<NumElements(g.tensors[t].shape)>>)
      gamma == Add(flat(weight), flat(ones))
  IN AddParameter(g, TensorInfo("one_plus", gamma.shape, "F32", "PARAMETER", gamma))

RmsNormNode(walk, node) ==
  LET g == walk.graph
      k == IF Producer(g, Operand(node, 1)).opcode = "MUL" THEN 1 ELSE 2
      normed == Producer(g, Operand(node, k))
      parts == RsqrtMulParts(g, normed)
      scale == Other(node, k)
      isScale == IsStatic(g, scale)
      onePlus == ~isScale /\ OnePlusOperands(g, scale).fits
      isNorm == /\ IsBinary(node, "MUL") /\ normed.opcode = "MUL" /\ parts.fits
                /\ isScale \/ onePlus
                /\ RankOf(g, parts.x) <= 4 /\ IsDirectNorm(g, parts.rsqrt, parts.x)
      scaled == IF onePlus THEN MaterializeOnePlusWeight(g, scale) ELSE g
      gamma == IF onePlus THEN NewTensorId(g) ELSE scale
  IN IF ~isNorm THEN Keep(walk, node)
     ELSE MarkRemoved(Keep([walk EXCEPT !.graph = TakeOpId(Flattened(scaled, gamma))],
            Operation(NewOpId(g), "RMS_NORM", <<parts.x, gamma>>, node.outputs,
                      [eps |-> EpsOf(g, parts.rsqrt)])), {node.id})

FuseRmsNorm(g) == Walked(OverNodes(g, LAMBDA w, n : Visit(w, n, RmsNormNode), Walk(g)))
================================================================================
