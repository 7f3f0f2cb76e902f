---------------------------- MODULE PassConditions ----------------------------
(***************************************************************************)
(* What a graph has to be for the passes to be right about it: the         *)
(* hypotheses of the theorems about GraphPasses.  A pass may lose a result *)
(* of a graph that is not orderly; the passes keep a graph orderly that is *)
(* tame to begin with.                                                     *)
(***************************************************************************)
EXTENDS GraphPasses

(***************************************************************************)
(* Regular graphs                                                          *)
(***************************************************************************)
Wanted(g) == Range(g.outputs) \cup Range(g.states)
GivenTensors(g) == {t \in DOMAIN g.tensors : t \in Range(g.inputs) \/ HasData(g, t)}

HasFields(g) ==
  \A t \in DOMAIN g.tensors : {"storage", "data", "shape"} \subseteq DOMAIN g.tensors[t]

OpFields == {"id", "opcode", "inputs", "outputs", "attributes"}
IsOp(n) == OpFields \subseteq DOMAIN n /\ IsSequence(n.inputs) /\ IsSequence(n.outputs)

\* Operations whose first operand the passes take for the only one.
UnaryOps == {"UNSQUEEZE", "SQUEEZE", "TRANSPOSE", "PERMUTE", "CAST", "SILU", "RELU"}

IsRegularOp(n) ==
  /\ IsOp(n) /\ Len(n.outputs) = 1
  /\ n.opcode \in UnaryOps => Len(n.inputs) = 1

IsNodeOf(g, n) ==
  IsRegularOp(n) /\ Range(n.inputs) \cup Range(n.outputs) \subseteq DOMAIN g.tensors

\* The graph can run, its tensors and operations are the records they should be, it
\* names no tensor that it does not have, and every operation has one result.
IsRegular(g) ==
  /\ IsExecutable(g) /\ HasFields(g) /\ Wanted(g) \subseteq DOMAIN g.tensors
  /\ \A i \in 1 .. Len(g.nodes) : IsNodeOf(g, g.nodes[i])

(***************************************************************************)
(* Values                                                                  *)
(***************************************************************************)
Val(V, t) == IF t \in DOMAIN V THEN V[t] ELSE Undefined

\* The values that are given are those of inputs.
GivesInputs(env, g) ==
  \A t \in DOMAIN env \cap DOMAIN g.tensors : t \in Range(g.inputs) /\ Storage(g, t) = "INPUT"

IsIntegral(x) == \A i \in Indices(x.shape) : x.at[i] \in Int
IsTensor(x) == x = [shape |-> x.shape, at |-> [i \in Indices(x.shape) |-> x.at[i]]]

\* What is known is a tensor of numbers and has the shape it is declared with.
IsWellShaped(V, g) ==
  \A t \in DOMAIN g.tensors : Val(V, t) # Undefined =>
    /\ g.tensors[t].shape \in Seq(Nat) /\ Val(V, t).shape = g.tensors[t].shape
    /\ IsTensor(Val(V, t)) /\ IsIntegral(Val(V, t))

(***************************************************************************)
(* Who reads what                                                          *)
(***************************************************************************)
Result(g, i) == g.nodes[i].outputs[1]
Readers(g, t) == {k \in 1 .. Len(g.nodes) : t \in Range(g.nodes[k].inputs)}

\* The only reader of an operation's result; 0 if there is no such operation.
SoleReaderOf(g, i) ==
  IF \E m \in 1 .. Len(g.nodes) : Readers(g, Result(g, i)) = {m}
  THEN CHOOSE m \in 1 .. Len(g.nodes) : Readers(g, Result(g, i)) = {m}
  ELSE 0

IsSolelyRead(g, i) ==
  SoleReaderOf(g, i) \in 1 .. Len(g.nodes) /\ Readers(g, Result(g, i)) = {SoleReaderOf(g, i)}

\* What an attention's transposition has to be, and its result not.
IsFoldable(g, c) ==
  LET trans == g.nodes[SoleReaderOf(g, c)]
      r == RankOf(g, Result(g, c))
  IN /\ Result(g, c) \notin Range(g.outputs)
     /\ {Axis(Attribute(trans, "dim0", 0), r), Axis(Attribute(trans, "dim1", 1), r)} = {2, 3}

\* The operation at c can take over the result of the only one that reads its own.
IsPair(g, head, tail, c) ==
  /\ g.nodes[c].opcode = head /\ IsSolelyRead(g, c)
  /\ g.nodes[SoleReaderOf(g, c)].opcode = tail
  /\ head = "SDPA" => IsFoldable(g, c)

NonePairReturned(g, head, tail) ==
  \A c \in 1 .. Len(g.nodes) : IsPair(g, head, tail, c) => Result(g, c) \notin Range(g.outputs)

\* No attention that is transposed does the work of a transposition already.
NoneTransposedTwice(g) ==
  \A c \in 1 .. Len(g.nodes) :
    IsPair(g, "SDPA", "TRANSPOSE", c) => Attribute(g.nodes[c], "fused_transpose", 0) # 1

(***************************************************************************)
(* Dimensions                                                              *)
(***************************************************************************)
\* Concatenations that are folded say along which dimension in both ways.
ConcatsByAxis(g) ==
  \A i \in 1 .. Len(g.nodes) :
    g.nodes[i].opcode = "CONCAT" /\ g.nodes[i] \notin Nodes(ConstantFolding(g)) =>
      Attribute(g.nodes[i], "axis", 0) = Attribute(g.nodes[i], "dim", 0)

\* Dimension k comes from dimension p[k].
IsPermutation(p, n) ==
  /\ \A k \in 1 .. n : p[k] \in 1 .. n
  /\ \A j, k \in 1 .. n : p[j] = p[k] => j = k
  /\ \A d \in 1 .. n : \E k \in 1 .. n : p[k] = d

NamesAxesAt(g, n, r) ==
  /\ n.opcode = "UNSQUEEZE" => /\ r \in Nat /\ Axis(Attribute(n, "dim", 0), r + 1) \in 1 .. r + 1
                               /\ RankOf(g, n.outputs[1]) = r + 1
  /\ n.opcode = "TRANSPOSE" => /\ Axis(Attribute(n, "dim0", 0), r) \in 1 .. r
                               /\ Axis(Attribute(n, "dim1", 1), r) \in 1 .. r
  /\ n.opcode = "PERMUTE" => /\ IsSequence(PermutedDims(n))
                             /\ Len(PermutedDims(n)) = r
                             /\ IsPermutation([k \in 1 .. r |-> Axis(PermutedDims(n)[k], r)], r)

\* The dimensions that operations name are there.
NamesAxes(g) ==
  \A i \in 1 .. Len(g.nodes) : NamesAxesAt(g, g.nodes[i], RankOf(g, Operand(g.nodes[i], 1)))

(***************************************************************************)
(* The pattern of an unsqueeze, a transposition and a squeeze              *)
(***************************************************************************)
MiddleOf(g, c) == SoleReaderOf(g, c)
LastOf(g, c) == SoleReaderOf(g, SoleReaderOf(g, c))

\* The dimensions in the order that the pattern leaves them, and the place of the new one.
PatternDims(g, c) == DimsOfPattern(g, g.nodes[c], g.nodes[MiddleOf(g, c)])
PatternPlace(g, c) == Axis(Attribute(g.nodes[LastOf(g, c)], "dim", 0), Len(PatternDims(g, c)))

IsPattern(dims, s) == dims # <<>> /\ s \in DOMAIN dims /\ dims[s] = -1

IsMatch(g, c) ==
  /\ g.nodes[c].opcode = "UNSQUEEZE" /\ IsSolelyRead(g, c)
  /\ g.nodes[MiddleOf(g, c)].opcode \in {"TRANSPOSE", "PERMUTE"} /\ IsSolelyRead(g, MiddleOf(g, c))
  /\ g.nodes[LastOf(g, c)].opcode = "SQUEEZE"
  /\ IsPattern(PatternDims(g, c), PatternPlace(g, c))

\* No result within a match is one of the graph.
NoneWithinReturned(g) ==
  \A c \in 1 .. Len(g.nodes) : IsMatch(g, c) =>
    Result(g, c) \notin Range(g.outputs) /\ Result(g, MiddleOf(g, c)) \notin Range(g.outputs)

(***************************************************************************)
(* Tame graphs: orderly ones that the passes leave orderly                 *)
(***************************************************************************)
\* Operations that only rearrange their operand.
Movers == {"UNSQUEEZE", "SQUEEZE", "TRANSPOSE", "PERMUTE", "CAST"}

\* The rank of an operation's first operand, and of its result.
RankIn(g, n) == RankOf(g, Operand(n, 1))
RankOut(g, n) == RankOf(g, n.outputs[1])

\* What is declared of a result fits the operand.
KeepsRank(g, n) ==
  /\ n.opcode \in {"TRANSPOSE", "PERMUTE", "CAST"} => RankOut(g, n) = RankIn(g, n)
  /\ n.opcode = "SQUEEZE" => RankOut(g, n) = RankIn(g, n) - 1

\* A transposition that an attention before it may take over.
IsTurn(g, n) ==
  /\ n.opcode = "TRANSPOSE"
  /\ {Axis(Attribute(n, "dim0", 0), RankIn(g, n)), Axis(Attribute(n, "dim1", 1), RankIn(g, n))} = {2, 3}

\* A turned tensor is one that such a transposition gives, or that is moved from one.
GivesTurned(g, n, turned) ==
  \/ IsTurn(g, n)
  \/ n.opcode \in Movers /\ Operand(n, 1) \in turned
  \/ n.opcode = "SDPA" /\ Attribute(n, "fused_transpose", 0) = 1

\* A fixed tensor is a constant, or an operation gives it whose operands are fixed: what
\* constant folding may come to evaluate.
GivesFixed(n, fixed) == Range(n.inputs) \subseteq fixed

IsTameNode(g, n, turned, fixed) ==
  /\ Range(n.inputs) \cap Range(g.outputs) = {}
  /\ NamesAxesAt(g, n, RankIn(g, n)) /\ KeepsRank(g, n)
  /\ GivesTurned(g, n, turned) => n.outputs[1] \in turned
  /\ IsTurn(g, n) => Operand(n, 1) \notin turned
  /\ GivesFixed(n, fixed) => n.outputs[1] \in fixed
  /\ n.opcode = "CONCAT" /\ GivesFixed(n, fixed) =>
       Attribute(n, "axis", 0) = Attribute(n, "dim", 0)

\* Nothing that the graph returns is read in it, what it declares are the ranks of its
\* tensors, nothing is turned twice, and what is concatenated of fixed tensors is so
\* along the dimension that folding takes.
IsTameFor(g, turned, fixed) ==
  /\ \A t \in DOMAIN g.tensors : IsKnownConstant(g, t) => t \in fixed
  /\ \A i \in 1 .. Len(g.nodes) : IsTameNode(g, g.nodes[i], turned, fixed)

IsTame(g) == \E turned, fixed : IsTameFor(g, turned, fixed)

\* The turned and the fixed tensors, found in the order in which the graph runs.
Turned(g) ==
  LET turned[k \in 0 .. Len(g.nodes)] ==
        IF k = 0 THEN {}
        ELSE LET before == turned[k - 1]
             IN before \cup {t \in {Result(g, k)} : GivesTurned(g, g.nodes[k], before)}
  IN turned[Len(g.nodes)]

Fixed(g) ==
  LET fixed[k \in 0 .. Len(g.nodes)] ==
        IF k = 0 THEN {t \in DOMAIN g.tensors : IsKnownConstant(g, t)}
        ELSE LET before == fixed[k - 1]
             IN before \cup {t \in {Result(g, k)} : GivesFixed(g.nodes[k], before)}
  IN fixed[Len(g.nodes)]

(***************************************************************************)
(* Safe cases: the fusions that are enabled ask who else reads a result    *)
(* before they do away with it.                                            *)
(***************************************************************************)
SafeFusions == {"conv2d_relu", "swiglu", "sdpa_transpose"}

IsSafeCase == IsRegular(source.graph) /\ options \subseteq SafeFusions

\* What the passes of a safe case take for granted of the graph besides its being
\* regular.
IsOrderly(g) ==
  /\ ConcatsByAxis(g) /\ NamesAxes(g) /\ NoneWithinReturned(g) /\ NoneTransposedTwice(g)
  /\ NonePairReturned(g, "CONV2D", "RELU") /\ NonePairReturned(g, "SILU", "MUL")

\* The inputs have the values that the source comes with, and what is known of the
\* source has the declared shapes.
IsSourceShaped ==
  /\ GivesInputs(source.env, source.graph)
  /\ IsWellShaped(Values(source.graph, source.env), source.graph)

\* A safe case whose graph is orderly.
InOrder == IsSafeCase /\ IsSourceShaped /\ IsOrderly(graph)

\* No operation reads what the graph returns.
ReadsNoResult(g) == \A n \in Nodes(g) : Range(n.inputs) \cap Range(g.outputs) = {}

\* A safe case whose source is tame.
IsTameCase == IsSafeCase /\ IsSourceShaped /\ IsTame(source.graph)

--------------------------------------------------------------------------------
(* Properties *)

\* Where only safe fusions are enabled every source is regular and of the declared
\* shapes, and no pass leaves a graph that a later one would be wrong about: a
\* convolution or an activation that is returned besides what it is fused with, an
\* attention to be transposed twice, a permutation that is none.  Where the source reads
\* nothing that it returns, it is tame, and no pass leaves a graph that is not.
SafeCasesInOrder ==
  options \subseteq SafeFusions =>
    /\ InOrder
    /\ ReadsNoResult(source.graph) => IsTameFor(graph, Turned(graph), Fixed(graph))
================================================================================
