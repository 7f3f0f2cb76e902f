---------------------------- MODULE ActivationFusion ----------------------------
(***************************************************************************)
(* The fusions of transforms/fusion.py that put activations together:      *)
(* softmax, convolution with its ReLU, SwiGLU, the tanh approximation of   *)
(* GELU, and GELU with a bias.                                             *)
(***************************************************************************)
EXTENDS NormFusion

\* A node is changed in place, also where it was collected already.
InPlace(nodes, node) ==
  [i \in DOMAIN nodes |-> IF nodes[i].id = node.id THEN node ELSE nodes[i]]

\* Removes the marked nodes of a walk that changes nodes in place.
Swept(walk) == [walk.graph EXCEPT !.nodes = WithoutOps(@, walk.removed)]

\* The last element of a sequence that passes a test, or None.
LastWhere(seq, test(_)) ==
  LET found == SelectSeq(seq, test) IN IF found = <<>> THEN None ELSE Last(found)

--------------------------------------------------------------------------------
(* Softmax *)

\* From t down, operations that only lay a tensor out, and the first that does not.
LayoutChain(g, t) ==
  LET chain[k \in 0 .. Len(g.nodes)] ==
        IF k = 0 THEN [ids |-> {}, last |-> Producer(g, t)]
        ELSE LET before == chain[k - 1]
             IN IF before.last.opcode \in LayoutOps
                THEN [ids |-> before.ids \cup {before.last.id},
                      last |-> Producer(g, Operand(before.last, 1))]
                ELSE before
  IN chain[Len(g.nodes)]

SoftmaxParts(g, div) ==
  LET exp == Producer(g, Operand(div, 1))
      sub == Producer(g, Operand(exp, 1))
      denominator == LayoutChain(g, Operand(div, 2))
      maximum == LayoutChain(g, Operand(sub, 2))
  IN [fits |-> /\ exp.opcode = "EXP" /\ denominator.last.opcode = "SUM"
               /\ Operand(denominator.last, 1) = exp.outputs[1],
      x |-> IF sub.opcode = "SUB" THEN Operand(sub, 1) ELSE Operand(exp, 1),
      ids |-> {exp.id, denominator.last.id} \cup denominator.ids
                \cup IF sub = NoNode THEN {}
                     ELSE {sub.id, maximum.last.id} \cup maximum.ids]

SoftmaxNode(walk, node) ==
  LET parts == SoftmaxParts(walk.graph, node)
  IN IF IsBinary(node, "DIV") /\ parts.fits
     THEN MarkRemoved([walk EXCEPT !.graph.nodes = InPlace(@,
            SetAttribute([node EXCEPT !.opcode = "SOFTMAX", !.inputs = <<parts.x>>],
                         "dim", -1))],
            parts.ids)
     ELSE walk

FuseSoftmax(g) == Swept(OverNodes(g, SoftmaxNode, Walk(g)))

--------------------------------------------------------------------------------
(* Convolution and ReLU *)

ConvReluNode(walk, node) ==
  LET g == walk.graph
      conv == Producer(g, Operand(node, 1))
  IN IF /\ node.opcode = "RELU" /\ Len(node.inputs) = 1 /\ conv.opcode = "CONV2D"
        /\ ConsumerCount(g, conv.outputs[1]) <= 1
     THEN MarkRemoved([walk EXCEPT !.graph.nodes = InPlace(@,
            SetAttribute([conv EXCEPT !.outputs = node.outputs], "fused_relu", TRUE))],
            {node.id})
     ELSE walk

FuseConvRelu(g) == Swept(OverNodes(g, ConvReluNode, Walk(g)))

--------------------------------------------------------------------------------
(* SwiGLU *)

\* MUTANT: only the first factor is looked at.
SwigluFirstFactor(walk, node) ==
  LET silu == Producer(walk.graph, Operand(node, 1))
  IN IF IsBinary(node, "MUL") /\ silu.opcode = "SILU"
     THEN MarkRemoved(Keep(walk, [node EXCEPT !.opcode = "SWIGLU",
            !.inputs = <<Operand(silu, 1), Operand(node, 2)>>]), {silu.id})
     ELSE Keep(walk, node)

SwigluNode(walk, node) ==
  LET g == walk.graph
      p == Producer(g, Operand(node, 1))
      q == Producer(g, Operand(node, 2))
      silu == IF p.opcode = "SILU" THEN p ELSE q
      up == IF p.opcode = "SILU" THEN Operand(node, 2) ELSE Operand(node, 1)
      gate == Operand(silu, 1)
      sole == IF ConsumerCount(g, silu.outputs[1]) <= 1 THEN {silu.id} ELSE {}
  IN IF /\ IsBinary(node, "MUL") /\ silu.opcode = "SILU"
        /\ g.tensors[gate].shape = g.tensors[up].shape
        /\ "SIGMOID" \notin {p.opcode, q.opcode}
     THEN MarkRemoved(Keep(walk, [node EXCEPT !.opcode = "SWIGLU", !.inputs = <<gate, up>>]), sole)
     ELSE Keep(walk, node)

FuseSwiglu(g) == Walked(OverNodes(g, LAMBDA w, n : Visit(w, n, SwigluNode), Walk(g)))

--------------------------------------------------------------------------------
(* The tanh approximation of GELU *)

\* float(t.data) of a constant of one element; folded constants are lists,
\* which float refuses.
ConstVal(g, t) ==
  IF /\ IsStatic(g, t) /\ HasData(g, t) /\ ~g.tensors[t].listed
     /\ NumElements(g.tensors[t].shape) = 1
  THEN LET d == g.tensors[t].data IN d.at[CHOOSE i \in DOMAIN d.at : TRUE]
  ELSE None

HasConstant(g, node, v) == \E k \in DOMAIN node.inputs : ConstVal(g, Operand(node, k)) = v

\* The operand that is not the constant v, the last if there are several.
OperandBesides(g, node, v) == LastWhere(node.inputs, LAMBDA t : ConstVal(g, t) /= v)

IsSole(nodes, opcode) == Len(nodes) = 1 /\ nodes[1].opcode = opcode

\* From the hyperbolic tangent up to its argument x and down to the result.
GeluParts(g, tanh) ==
  LET mulC == Producer(g, Operand(tanh, 1))
      sum == Producer(g, OperandBesides(g, mulC, RootTwoOverPi))
      IsProduct(t) == Producer(g, t).opcode = "MUL"
      x == LastWhere(sum.inputs, LAMBDA t : ~IsProduct(t))
      cube == Producer(g, LastWhere(sum.inputs, IsProduct))
      pow == OperandBesides(g, cube, Coefficient)
      plus == Consumers(g, tanh.outputs[1])
      product == Consumers(g, plus[1].outputs[1])
      other == IF product[1].inputs[2] = plus[1].outputs[1]
               THEN product[1].inputs[1] ELSE product[1].inputs[2]
      halved == Producer(g, other)
      outer == Consumers(g, product[1].outputs[1])
      isInner == halved.opcode = "MUL" /\ x \in Range(halved.inputs) /\ HasConstant(g, halved, Half)
      isOuter == halved.opcode /= "MUL" /\ other = x
                   /\ IsSole(outer, "MUL") /\ HasConstant(g, outer[1], Half)
      fits == /\ IsBinary(mulC, "MUL") /\ HasConstant(g, mulC, RootTwoOverPi)
              /\ IsBinary(sum, "ADD") /\ cube /= NoNode /\ x /= None
              /\ HasConstant(g, cube, Coefficient) /\ pow /= None
              /\ IsSole(plus, "ADD") /\ HasConstant(g, plus[1], 1)
              /\ IsSole(product, "MUL")
              /\ isInner \/ isOuter
      final == IF isInner THEN product[1] ELSE outer[1]
      sole == IF ConsumerCount(g, pow) <= 1 THEN {Producer(g, pow).id} ELSE {}
  IN [fits |-> fits, x |-> x,
      final |-> IF fits THEN final ELSE NoNode,
      ids |-> IF ~fits THEN {}
              ELSE {tanh.id, mulC.id, sum.id, cube.id, plus[1].id, product[1].id, final.id}
                     \cup sole \cup IF isInner THEN {halved.id} ELSE {}]

\* MUTANT: the function is applied to the argument of the tangent.
GeluOfPolynomial(walk, node) ==
  LET parts == GeluParts(walk.graph, node)
  IN IF node.opcode = "TANH" /\ parts.fits
     THEN MarkRemoved(Keep([walk EXCEPT !.graph = TakeOpId(@)],
            Operation(NewOpId(walk.graph), "GELU", node.inputs, parts.final.outputs,
                      NoAttributes)), {node.id, parts.final.id})
     ELSE Keep(walk, node)

ApproxGeluNode(walk, node) ==
  LET g == walk.graph
      parts == GeluParts(g, node)
  IN IF node.opcode = "TANH" /\ parts.fits
     THEN MarkRemoved(Keep([walk EXCEPT !.graph = TakeOpId(@)],
            Operation(NewOpId(g), "GELU", <<parts.x>>, parts.final.outputs, NoAttributes)),
            parts.ids)
     ELSE Keep(walk, node)

FuseApproxGelu(g) == Walked(OverNodes(g, LAMBDA w, n : Visit(w, n, ApproxGeluNode), Walk(g)))

--------------------------------------------------------------------------------
(* GELU with a bias *)

IsBias(g, t) == IsStatic(g, t) \/ RankOf(g, t) = 1

BiasGeluNode(walk, node) ==
  LET g == walk.graph
      prod == Producer(g, Operand(node, 1))
      isGelu == node.opcode = "GELU" /\ Len(node.inputs) = 1
      bare == [prod EXCEPT !.inputs = SubSeq(@, 1, 2)]
      ks == SelectSeq(<<2, 1>>, LAMBDA k : IsBias(g, Operand(prod, k)))
      sole == IF ConsumerCount(g, prod.outputs[1]) <= 1 THEN {prod.id} ELSE {}
      fused(inputs) == [node EXCEPT !.opcode = "BIAS_GELU", !.inputs = inputs]
  IN CASE isGelu /\ prod.opcode = "LINEAR" /\ Len(prod.inputs) >= 3 ->
            Keep([walk EXCEPT !.nodes = InPlace(@, bare), !.graph.nodes = InPlace(@, bare)],
                 fused(<<prod.outputs[1], Operand(prod, 3)>>))
       [] isGelu /\ IsBinary(prod, "ADD") /\ ks /= <<>> ->
            MarkRemoved(Keep(walk, fused(<<Other(prod, ks[1]), prod.inputs[ks[1]]>>)), sole)
       [] OTHER -> Keep(walk, node)

FuseBiasGelu(g) == Walked(OverNodes(g, LAMBDA w, n : Visit(w, n, BiasGeluNode), Walk(g)))
================================================================================
