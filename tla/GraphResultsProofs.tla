-------------------------- MODULE GraphResultsProofs --------------------------
(***************************************************************************)
(* Results about GraphPasses: what the passes compute.                     *)
(*                                                                         *)
(* A pass rewrites a graph into one whose operations compute, one by one,  *)
(* what some operation of the first did, with other operators.  The values *)
(* of the first then solve the second, which has one solution: so both     *)
(* have the same results.  That is shown of each safe fusion, of the       *)
(* replacement of an unsqueeze, a transposition and a squeeze by a         *)
(* permutation, and of the pruning after it, and then of the pipeline.     *)
(* What that asks of a graph on the way is asked of the source alone at    *)
(* the end: a tame source stays tame under every safe pass, and in a tame  *)
(* graph no pass meets a case it does not handle.                          *)
(***************************************************************************)
EXTENDS GraphPassesProofs

--------------------------------------------------------------------------------
(* What a rewritten graph computes.                                             *)

\* A result is not given.
LEMMA ResultNotGiven ==
  ASSUME NEW g, IsRegular(g), NEW env, GivesInputs(env, g), NEW i \in 1 .. Len(g.nodes)
  PROVE  Given(g, env, g.nodes[i].outputs[1]) = Undefined
<1>1. IsExecutable(g)
  BY RegularParts
<1>2. PICK t : t = g.nodes[i].outputs[1]
  OBVIOUS
<1>3. t \in Range(g.nodes[i].outputs)
  BY <1>1, <1>2, FirstResult
<1>4. t \notin GivenTensors(g)
  BY <1>1, <1>3, ExecutableParts, KnownBeforeIs
<1>5. t \in DOMAIN g.tensors => t \notin DOMAIN env /\ ~HasData(g, t)
  BY <1>4 DEF GivesInputs, GivenTensors
<1>6. Given(g, env, t) = Undefined
  BY <1>5 DEF Given, Val, Leaves
<1> QED BY <1>2, <1>6

\* A rewritten graph gives every tensor what it did.
LEMMA RewritingGives ==
  ASSUME NEW g, NEW h, IsRewriting(h, g), NEW env, NEW t
  PROVE  Given(h, env, t) = Given(g, env, t)
<1>1. /\ DOMAIN h.tensors = DOMAIN g.tensors
      /\ \A u \in DOMAIN g.tensors : h.tensors[u].data = g.tensors[u].data
  BY DEF IsRewriting
<1> QED BY <1>1 DEF Given, Val, Leaves, HasData

\* A result that no operation of X computes.
IsLost(g, ops, X, t) == IsResult(g, t) /\ \A i \in X : t # ops[i].outputs[1]

\* The values without those of lost results.
Remainder(V, g, ops, X) == [t \in {t \in DOMAIN V : ~IsLost(g, ops, X, t)} |-> V[t]]

\* Operations that compute the values V.
Computes(V, g, env, ops, X) ==
  \A i \in X : Val(V, ops[i].outputs[1]) = Outcome(V, g, env, ops[i])

\* What an operation that stays reads is not lost.
LEMMA RewritingReadsKept ==
  ASSUME NEW g, IsRegular(g), NEW ops, NEW X, NEW src, Rearranges(g, ops, X, src),
         ReadsBefore(g, ops, X), NEW i \in X, NEW k \in DOMAIN ops[i].inputs
  PROVE  ~IsLost(g, ops, X, ops[i].inputs[k])
<1>1. IsExecutable(g) /\ Len(g.nodes) \in Nat
  BY RegularParts
<1>2. PICK t : t = ops[i].inputs[k]
  OBVIOUS
<1>3. t \in Range(ops[i].inputs)
  BY <1>2 DEF Range
<1>4. CASE t \in GivenTensors(g)
  <2>1. ASSUME NEW j \in 1 .. Len(g.nodes), t = g.nodes[j].outputs[1] PROVE FALSE
    <3>1. t \in Range(g.nodes[j].outputs)
      BY <1>1, <2>1, FirstResult
    <3> QED BY <1>1, <1>4, <3>1, ExecutableParts, KnownBeforeIs
  <2> QED BY <1>2, <2>1 DEF IsLost, IsResult
<1>5. CASE \E j \in X : t \in Range(ops[j].outputs)
  <2>1. PICK j \in X : t \in Range(ops[j].outputs)
    BY <1>5
  <2>2. PICK m \in 1 .. Len(g.nodes) : m = src[j]
    BY DEF Rearranges
  <2>3. ops[j].outputs = g.nodes[m].outputs
    BY <2>2 DEF Rearranges
  <2>4. t = g.nodes[m].outputs[1]
    BY <2>1, <2>3, OneResult
  <2>5. t = ops[j].outputs[1]
    BY <2>3, <2>4
  <2> QED BY <1>2, <2>5 DEF IsLost
<1> QED BY <1>3, <1>4, <1>5 DEF ReadsBefore

\* Then the values of the graph solve the rewritten one.
LEMMA RewritingSolved ==
  ASSUME NEW g, IsRegular(g), NEW h, IsRewriting(h, g), NEW ops, NEW X, NEW src,
         Rearranges(g, ops, X, src), ReadsBefore(g, ops, X),
         NEW env, GivesInputs(env, g), NEW V, Solves(V, g, env), Computes(V, g, env, ops, X),
         NEW W, W = Remainder(V, g, ops, X)
  PROVE  ListSolved(W, h, env, ops, X)
<1>1. \A t : Val(W, t) = IF IsLost(g, ops, X, t) THEN Undefined ELSE Val(V, t)
  BY DEF Remainder, Val
<1>2. ASSUME NEW i \in X PROVE Val(W, ops[i].outputs[1]) = Outcome(W, h, env, ops[i])
  <2>1. PICK n : n = ops[i]
    OBVIOUS
  <2>2. \A k \in DOMAIN n.inputs : ~IsLost(g, ops, X, n.inputs[k])
    BY <2>1, RewritingReadsKept
  <2>3. \A k \in DOMAIN n.inputs : Val(W, n.inputs[k]) = Val(V, n.inputs[k])
    BY <1>1, <2>2
  <2>4. Outcome(W, h, env, n) = Outcome(V, h, env, n)
    BY <2>3, SameOutcome
  <2>5. Outcome(V, h, env, n) = Outcome(V, g, env, n)
    <3>1. Given(h, env, n.outputs[1]) = Given(g, env, n.outputs[1])
      BY RewritingGives
    <3> QED BY <3>1 DEF Outcome
  <2>6. ~IsLost(g, ops, X, n.outputs[1])
    BY <2>1 DEF IsLost
  <2>7. Val(W, n.outputs[1]) = Val(V, n.outputs[1])
    BY <1>1, <2>6
  <2>8. Val(V, n.outputs[1]) = Outcome(V, g, env, n)
    BY <2>1 DEF Computes
  <2> QED BY <2>1, <2>4, <2>5, <2>7, <2>8
<1>3. ASSUME NEW t, \A i \in X : t # ops[i].outputs[1] PROVE Val(W, t) = Given(h, env, t)
  <2>1. Given(h, env, t) = Given(g, env, t)
    BY RewritingGives
  <2>2. CASE IsResult(g, t)
    <3>1. IsLost(g, ops, X, t)
      BY <1>3, <2>2 DEF IsLost
    <3>2. Given(g, env, t) = Undefined
      BY <2>2, ResultNotGiven DEF IsResult
    <3> QED BY <1>1, <2>1, <3>1, <3>2
  <2>3. CASE ~IsResult(g, t)
    <3>1. Val(V, t) = Given(g, env, t)
      BY <2>3 DEF Solves
    <3> QED BY <1>1, <2>1, <2>3, <3>1 DEF IsLost
  <2> QED BY <2>2, <2>3
<1> QED BY <1>2, <1>3 DEF ListSolved

\* A rewritten graph computes the same when its operations compute the values that
\* the operations of g do and no output is lost.
LEMMA RewritingResults ==
  ASSUME NEW g, IsRegular(g), NEW h, IsRewriting(h, g), NEW ops, NEW X, NEW src,
         Rearranges(g, ops, X, src), ReadsBefore(g, ops, X),
         NEW place, IsListing(h.nodes, ops, X, place), \A i \in X : IsNodeOf(g, ops[i]),
         NEW env, GivesInputs(env, g), NEW V, V = Values(g, env), Computes(V, g, env, ops, X),
         \A t \in Range(g.outputs) : ~IsLost(g, ops, X, t)
  PROVE  Results(h, env) = Results(g, env)
<1>1. IsExecutable(g)
  BY RegularParts
<1>2. Solves(V, g, env)
  BY <1>1, ValuesSolve
<1>3. PICK W : W = Remainder(V, g, ops, X)
  OBVIOUS
<1>4. ListSolved(W, h, env, ops, X)
  BY <1>2, <1>3, RewritingSolved
<1>5. Solves(W, h, env)
  BY <1>4, ListedSolves
<1>6. IsExecutable(h)
  BY RewritingRegular, RegularParts
<1>7. Results(g, env) = [k \in DOMAIN g.outputs |-> Val(V, g.outputs[k])]
  BY <1>1, <1>2, ResultsOf
<1>8. Results(h, env) = [k \in DOMAIN h.outputs |-> Val(W, h.outputs[k])]
  BY <1>5, <1>6, ResultsOf
<1>9. h.outputs = g.outputs
  BY DEF IsRewriting
<1>10. \A t \in Range(g.outputs) : Val(W, t) = Val(V, t)
  BY <1>3 DEF Remainder, Val
<1>11. \A k \in DOMAIN g.outputs : Val(W, g.outputs[k]) = Val(V, g.outputs[k])
  BY <1>10 DEF Range
<1> QED BY <1>7, <1>8, <1>9, <1>11

--------------------------------------------------------------------------------
(* What a pass keeps                                                            *)

\* A pass keeps the results, and that what is known has the declared shapes.
Preserves(h, g, env) ==
  /\ Results(h, env) = Results(g, env) /\ GivesInputs(env, h)
  /\ IsWellShaped(Values(g, env), g) => IsWellShaped(Values(h, env), h)

\* What is known of h is known of g, and is declared there as it is here.
KnowsNoMore(h, g, env) ==
  /\ DOMAIN h.tensors \subseteq DOMAIN g.tensors
  /\ \A t \in DOMAIN h.tensors : h.tensors[t].shape = g.tensors[t].shape
  /\ \A t \in DOMAIN h.tensors :
       Val(Values(h, env), t) # Undefined => Val(Values(h, env), t) = Val(Values(g, env), t)

\* What is known stays well shaped.
LEMMA StaysWellShaped ==
  ASSUME NEW h, NEW g, NEW env, KnowsNoMore(h, g, env), IsWellShaped(Values(g, env), g)
  PROVE  IsWellShaped(Values(h, env), h)
BY DEF KnowsNoMore, IsWellShaped

\* What is known of a rewritten graph is what was known of the graph.
LEMMA RewritingValues ==
  ASSUME NEW g, IsRegular(g), NEW h, IsRewriting(h, g), NEW ops, NEW X, NEW src,
         Rearranges(g, ops, X, src), ReadsBefore(g, ops, X),
         NEW place, IsListing(h.nodes, ops, X, place), \A i \in X : IsNodeOf(g, ops[i]),
         NEW env, GivesInputs(env, g), NEW V, V = Values(g, env), Computes(V, g, env, ops, X),
         NEW t, Val(Values(h, env), t) # Undefined
  PROVE  Val(Values(h, env), t) = Val(V, t)
<1>1. Solves(V, g, env)
  BY RegularParts, ValuesSolve
<1>2. PICK W : W = Remainder(V, g, ops, X)
  OBVIOUS
<1>3. ListSolved(W, h, env, ops, X)
  BY <1>1, <1>2, RewritingSolved
<1>4. Solves(W, h, env)
  BY <1>3, ListedSolves
<1>5. IsExecutable(h)
  BY RewritingRegular, RegularParts
<1>6. \A u : Val(Values(h, env), u) = Val(W, u)
  BY <1>4, <1>5, ValuesSolve, SolutionsAgree
<1>7. Val(W, t) = IF IsLost(g, ops, X, t) THEN Undefined ELSE Val(V, t)
  BY <1>2 DEF Remainder, Val
<1> QED BY <1>6, <1>7

\* A rewriting that computes the same preserves the graph.
LEMMA RewritingPreserves ==
  ASSUME NEW g, IsRegular(g), NEW h, IsRewriting(h, g), NEW ops, NEW X, NEW src,
         Rearranges(g, ops, X, src), ReadsBefore(g, ops, X),
         NEW place, IsListing(h.nodes, ops, X, place), \A i \in X : IsNodeOf(g, ops[i]),
         NEW env, GivesInputs(env, g), NEW V, V = Values(g, env), Computes(V, g, env, ops, X),
         \A t \in Range(g.outputs) : ~IsLost(g, ops, X, t)
  PROVE  Preserves(h, g, env)
<1>1. Results(h, env) = Results(g, env)
  BY RewritingResults
<1>2. GivesInputs(env, h)
  BY DEF GivesInputs, IsRewriting, Storage
<1>3. ASSUME NEW t, Val(Values(h, env), t) # Undefined
      PROVE  Val(Values(h, env), t) = Val(Values(g, env), t)
  BY <1>3, RewritingValues
<1>4. KnowsNoMore(h, g, env)
  BY <1>3 DEF KnowsNoMore, IsRewriting
<1>5. IsWellShaped(Values(g, env), g) => IsWellShaped(Values(h, env), h)
  BY <1>4, StaysWellShaped
<1> QED BY <1>1, <1>2, <1>5 DEF Preserves

\* Operations that take over what their readers compute lose nothing.
LEMMA TakenResults ==
  ASSUME NEW g, IsRegular(g), NEW h, NEW C, NEW ops, NEW place, IsTakenGraph(h, g, C, ops, place),
         NEW env, GivesInputs(env, g), NEW V, V = Values(g, env),
         \A c \in C : /\ Result(g, c) \notin Range(g.outputs)
                      /\ Outcome(V, g, env, ops[c]) = Val(V, Result(g, SoleReaderOf(g, c)))
  PROVE  Preserves(h, g, env)
<1>1. PICK last : last = SoleReaders(g, C)
  OBVIOUS
<1>2. PICK Gone : Gone = Tails(g, C)
  OBVIOUS
<1>3. PICK X : X = Remaining(g, Gone)
  OBVIOUS
<1>4. /\ IsRewriting(h, g) /\ IsTakeover(g, C, last, Gone) /\ TakesOver(g, C, last, Gone, ops)
      /\ IsListing(h.nodes, ops, X, place) /\ \A i \in X : IsNodeOf(g, ops[i])
  BY <1>1, <1>2, <1>3 DEF IsTakenGraph
<1>5. \A i \in 1 .. Len(g.nodes) : i \notin C => ops[i] = g.nodes[i]
  BY DEF IsTakenGraph, AreTaken, IsTaken
<1>6. C \subseteq X /\ X \subseteq 1 .. Len(g.nodes)
  BY <1>3, <1>4 DEF IsTakeover, Remaining
<1>7. \A c \in C : ops[c].outputs[1] = Result(g, SoleReaderOf(g, c))
  <2> TAKE c \in C
  <2>1. ops[c].outputs = g.nodes[last[c]].outputs
    BY <1>3, <1>4, <1>6 DEF TakesOver
  <2>2. last[c] = SoleReaderOf(g, c)
    BY <1>1 DEF SoleReaders
  <2> QED BY <2>1, <2>2 DEF Result
<1>8. Solves(V, g, env)
  BY RegularParts, ValuesSolve
<1>9. Computes(V, g, env, ops, X)
  <2>1. ASSUME NEW i \in X PROVE Val(V, ops[i].outputs[1]) = Outcome(V, g, env, ops[i])
    <3>1. CASE i \in C
      BY <1>7, <3>1
    <3>2. CASE i \notin C
      BY <1>5, <1>6, <1>8, <3>2 DEF Solves
    <3> QED BY <3>1, <3>2
  <2> QED BY <2>1 DEF Computes
<1>10. ASSUME NEW t \in Range(g.outputs), IsLost(g, ops, X, t) PROVE FALSE
  <2>1. PICK j \in 1 .. Len(g.nodes) : t = g.nodes[j].outputs[1]
    BY <1>10 DEF IsLost, IsResult
  <2>2. j \notin C
    BY <2>1 DEF Result
  <2>3. j \notin X
    BY <1>5, <1>10, <2>1, <2>2 DEF IsLost
  <2>4. j \in Gone
    BY <1>3, <2>3 DEF Remaining
  <2>5. PICK c \in C : j = SoleReaderOf(g, c)
    BY <1>2, <2>4 DEF Tails
  <2>6. ops[c].outputs[1] = t
    BY <1>7, <2>1, <2>5 DEF Result
  <2> QED BY <1>6, <1>10, <2>6 DEF IsLost
<1>11. PICK src : src = Source(C, last, X)
  OBVIOUS
<1>12. Rearranges(g, ops, X, src)
  BY <1>3, <1>4, <1>11, TakeoverRearranges
<1>13. ReadsBefore(g, ops, X)
  BY <1>3, <1>4, TakeoverReads
<1> QED BY <1>4, <1>9, <1>10, <1>12, <1>13, RewritingPreserves

--------------------------------------------------------------------------------
(* The operators of the fused operations                                        *)

\* The table of a function is the function.
LEMMA TabulatedIs ==
  ASSUME NEW f
  PROVE  Tabulated(f) = f
BY DEF Tabulated

\* What an elementwise operation gives.
LEMMA MapIs ==
  ASSUME NEW opcode, NEW x
  PROVE  /\ Map1(opcode, x).shape = x.shape
         /\ Map1(opcode, x).at = [i \in Indices(x.shape) |-> Unary(opcode, x.at[i])]
         /\ Map1(opcode, x) = [shape |-> x.shape, at |-> [i \in Indices(x.shape) |-> Unary(opcode, x.at[i])]]
BY DEF Map1, Tensor, Tabulated

IsIndexing(upto, shape) ==
  upto = [k \in 0 .. Len(shape) |-> IF k = 0 THEN {<<>>} ELSE Longer(upto[k - 1], shape[k])]

\* The indices of a shape.
LEMMA IndicesAre ==
  ASSUME NEW shape, NEW upto, upto = CHOOSE f : IsIndexing(f, shape)
  PROVE  Indices(shape) = upto[Len(shape)]
BY DEF Indices, IsIndexing

\* There is no index of what is not defined.
LEMMA NoIndices ==
  ASSUME NEW shape, shape = <<-1>>
  PROVE  Indices(shape) = {}
<1>1. Len(shape) = 1 /\ shape[1] = -1
  OBVIOUS
<1>2. 0 .. shape[1] - 1 = {}
  BY <1>1
<1>3. \A upto : IsIndexing(upto, shape) <=> upto = [k \in 0 .. 1 |-> IF k = 0 THEN {<<>>} ELSE {}]
  <2> TAKE upto
  <2>1. ASSUME NEW k \in 0 .. 1, k # 0 PROVE shape[k] = -1
    BY <1>1, <2>1
  <2>2. \A k \in 0 .. 1 : k # 0 => Longer(upto[k - 1], shape[k]) = {}
    BY <2>1 DEF Longer
  <2> QED BY <1>1, <2>2 DEF IsIndexing
<1>4. PICK upto : upto = CHOOSE f : IsIndexing(f, shape)
  OBVIOUS
<1>5. upto = [k \in 0 .. 1 |-> IF k = 0 THEN {<<>>} ELSE {}]
  <2>1. PICK w : w = [k \in 0 .. 1 |-> IF k = 0 THEN {<<>>} ELSE {}]
    OBVIOUS
  <2>2. IsIndexing(w, shape)
    BY <1>3, <2>1
  <2> QED BY <1>3, <1>4, <2>2
<1>6. Indices(shape) = upto[Len(shape)]
  BY <1>4, IndicesAre
<1> QED BY <1>1, <1>5, <1>6

\* Nothing comes of what is not defined.
LEMMA MapOfUndefined ==
  ASSUME NEW opcode
  PROVE  Map1(opcode, Undefined) = Undefined
<1>1. PICK x : x = Undefined
  OBVIOUS
<1>2. x.shape = <<-1>> /\ x = [shape |-> <<-1>>, at |-> <<>>]
  BY <1>1 DEF Undefined
<1>3. Indices(x.shape) = {}
  BY <1>2, NoIndices
<1>4. PICK f : f = [i \in Indices(x.shape) |-> Unary(opcode, x.at[i])]
  OBVIOUS
<1>5. f = <<>>
  BY <1>3, <1>4
<1>6. Map1(opcode, x) = [shape |-> x.shape, at |-> f]
  BY <1>4, MapIs
<1>7. Map1(opcode, x) = x
  BY <1>2, <1>5, <1>6
<1> QED BY <1>1, <1>7

\* A ReLU changes nothing that a ReLU has computed.
LEMMA ReluTwice ==
  ASSUME NEW x
  PROVE  Map1("RELU", Map1("RELU", x)) = Map1("RELU", x)
<1>1. \A v : Unary("RELU", v) = IF v > P \div 2 THEN 0 ELSE v
  BY DEF Unary
<1>2. ~(0 > P \div 2)
  BY DEF P
<1>3. \A v : Unary("RELU", Unary("RELU", v)) = Unary("RELU", v)
  BY <1>1, <1>2
<1>4. PICK y : y = Map1("RELU", x)
  OBVIOUS
<1>5. y.shape = x.shape /\ y.at = [i \in Indices(x.shape) |-> Unary("RELU", x.at[i])]
  BY <1>4, MapIs
<1>6. [i \in Indices(y.shape) |-> Unary("RELU", y.at[i])] = y.at
  BY <1>3, <1>5
<1>7. Map1("RELU", y) = [shape |-> y.shape, at |-> y.at]
  BY <1>6, MapIs
<1>8. Map1("RELU", x) = [shape |-> x.shape, at |-> [i \in Indices(x.shape) |-> Unary("RELU", x.at[i])]]
  BY DEF Map1, Tensor, Tabulated
<1>9. Map1("RELU", x) = [shape |-> y.shape, at |-> y.at]
  BY ONLY <1>5, <1>8
<1> QED BY ONLY <1>4, <1>7, <1>9

\* A convolution without its ReLU.
ConvOf(x) == IF Len(x) >= 3 THEN Add(Conv2dOf(x[1], x[2]), OfChannels(x[3]))
             ELSE Conv2dOf(x[1], x[2])

\* What a convolution computes.
LEMMA ConvComputes ==
  ASSUME NEW n, n.opcode = "CONV2D", NEW x
  PROVE  Compute(n, x) = IF Attribute(n, "fused_relu", FALSE) THEN Map1("RELU", ConvOf(x)) ELSE ConvOf(x)
BY DEF Compute, ConvOf

\* What a ReLU computes.
LEMMA ReluComputes ==
  ASSUME NEW n, n.opcode = "RELU", NEW x
  PROVE  Compute(n, x) = Map1("RELU", x[1])
BY DEF Compute

\* The values of an operation c, of the operation m that reads its result, and of
\* the operation n that takes over what m computes.
PairValues(V, g, env, c, m, n) ==
  /\ Known(V, g.nodes[c]) => /\ Val(V, Result(g, c)) = Compute(g.nodes[c], Args(V, g.nodes[c]))
                             /\ Outcome(V, g, env, n) = Compute(n, Args(V, g.nodes[c]))
  /\ ~Known(V, g.nodes[c]) => Val(V, Result(g, c)) = Undefined /\ Outcome(V, g, env, n) = Undefined
  /\ Val(V, Result(g, c)) = Undefined => Val(V, Result(g, m)) = Undefined
  /\ Val(V, Result(g, c)) # Undefined =>
       \E x : x[1] = Val(V, Result(g, c)) /\ Val(V, Result(g, m)) = Compute(g.nodes[m], x)

\* The values within a pair.
LEMMA PairValuesAre ==
  ASSUME NEW g, IsRegular(g), NEW env, GivesInputs(env, g), NEW V, Solves(V, g, env),
         NEW c \in 1 .. Len(g.nodes), NEW m \in 1 .. Len(g.nodes), m = SoleReaderOf(g, c),
         IsSolelyRead(g, c), g.nodes[m].opcode \in UnaryOps,
         NEW n, n.inputs = g.nodes[c].inputs, n.outputs = g.nodes[m].outputs
  PROVE  PairValues(V, g, env, c, m, n)
<1>1. PICK a : a = g.nodes[c]
  OBVIOUS
<1>2. PICK b : b = g.nodes[m]
  OBVIOUS
<1>3. Given(g, env, a.outputs[1]) = Undefined /\ Given(g, env, b.outputs[1]) = Undefined
  BY <1>1, <1>2, ResultNotGiven
<1>4. Val(V, Result(g, c)) = IF Known(V, a) THEN Compute(a, Args(V, a)) ELSE Undefined
  BY <1>1, <1>3 DEF Solves, Outcome, Result
<1>5. Val(V, Result(g, m)) = IF Known(V, b) THEN Compute(b, Args(V, b)) ELSE Undefined
  BY <1>2, <1>3 DEF Solves, Outcome, Result
<1>6. Known(V, n) <=> Known(V, a)
  BY <1>1 DEF Known
<1>7. Args(V, n) = Args(V, a)
  BY <1>1 DEF Args
<1>8. PICK x : x = Args(V, a)
  OBVIOUS
<1>9. Outcome(V, g, env, n) = IF Known(V, a) THEN Compute(n, x) ELSE Undefined
  <2>1. Given(g, env, n.outputs[1]) = Undefined
    BY <1>2, <1>3
  <2>2. Args(V, n) = x
    BY <1>7, <1>8
  <2> QED BY <1>6, <2>1, <2>2 DEF Outcome
<1>10. DOMAIN b.inputs = {1} /\ b.inputs[1] = Result(g, c)
  <2>1. Len(b.inputs) = 1 /\ IsSequence(b.inputs)
    BY <1>2, RegularNode DEF IsRegularOp
  <2>2. DOMAIN b.inputs = {1}
    BY <2>1 DEF IsSequence
  <2>3. Result(g, c) \in Range(b.inputs)
    BY <1>2 DEF IsSolelyRead, Readers
  <2> QED BY <2>2, <2>3 DEF Range
<1>11. Known(V, b) <=> Val(V, Result(g, c)) # Undefined
  BY <1>10 DEF Known
<1>12. PICK y : y = Args(V, b)
  OBVIOUS
<1>13. y[1] = Val(V, Result(g, c))
  BY <1>10, <1>12 DEF Args
<1>14. Val(V, Result(g, c)) # Undefined =>
         \E z : z[1] = Val(V, Result(g, c)) /\ Val(V, Result(g, m)) = Compute(g.nodes[m], z)
  BY <1>2, <1>5, <1>11, <1>12, <1>13
<1>15. Val(V, Result(g, c)) = Undefined => Val(V, Result(g, m)) = Undefined
  BY <1>5, <1>11
<1>16. Known(V, g.nodes[c]) => /\ Val(V, Result(g, c)) = Compute(g.nodes[c], Args(V, g.nodes[c]))
                               /\ Outcome(V, g, env, n) = Compute(n, Args(V, g.nodes[c]))
  BY <1>1, <1>4, <1>8, <1>9
<1>17. ~Known(V, g.nodes[c]) => Val(V, Result(g, c)) = Undefined /\ Outcome(V, g, env, n) = Undefined
  BY <1>1, <1>4, <1>9
<1> QED BY <1>14, <1>15, <1>16, <1>17 DEF PairValues

\* A convolution that does its ReLU's work computes what the ReLU did.
LEMMA ConvReluValue ==
  ASSUME NEW g, NEW env, NEW V, NEW c, NEW m, NEW n, PairValues(V, g, env, c, m, n),
         g.nodes[c].opcode = "CONV2D", g.nodes[m].opcode = "RELU",
         n.opcode = "CONV2D", n.attributes = With(g.nodes[c].attributes, "fused_relu", TRUE)
  PROVE  Outcome(V, g, env, n) = Val(V, Result(g, m))
<1>1. CASE ~Known(V, g.nodes[c])
  BY <1>1 DEF PairValues
<1>2. CASE Known(V, g.nodes[c])
  <2>1. PICK x : x = Args(V, g.nodes[c])
    OBVIOUS
  <2>2. Val(V, Result(g, c)) = Compute(g.nodes[c], x) /\ Outcome(V, g, env, n) = Compute(n, x)
    BY <1>2, <2>1 DEF PairValues
  <2>3. Attribute(n, "fused_relu", FALSE) = TRUE
    BY DEF Attribute, With
  <2>4. PICK y : y = ConvOf(x)
    OBVIOUS
  <2>5. Compute(n, x) = Map1("RELU", y)
    BY <2>3, <2>4, ConvComputes
  <2>6. Val(V, Result(g, c)) = y \/ Val(V, Result(g, c)) = Map1("RELU", y)
    BY <2>2, <2>4, ConvComputes
  <2>7. Map1("RELU", Val(V, Result(g, c))) = Map1("RELU", y)
    BY <2>6, ReluTwice
  <2>8. CASE Val(V, Result(g, c)) = Undefined
    <3>1. Val(V, Result(g, m)) = Undefined
      BY <2>8 DEF PairValues
    <3>2. Map1("RELU", y) = Undefined
      BY <2>7, <2>8, MapOfUndefined
    <3> QED BY <2>2, <2>5, <3>1, <3>2
  <2>9. CASE Val(V, Result(g, c)) # Undefined
    <3>1. PICK z : z[1] = Val(V, Result(g, c)) /\ Val(V, Result(g, m)) = Compute(g.nodes[m], z)
      BY <2>9 DEF PairValues
    <3>2. Compute(g.nodes[m], z) = Map1("RELU", z[1])
      BY ReluComputes
    <3> QED BY <2>2, <2>5, <2>7, <3>1, <3>2
  <2> QED BY <2>8, <2>9
<1> QED BY <1>1, <1>2

\* The fusion of convolutions with the ReLU after them, on any regular graph that
\* does not return a convolution besides its ReLU.
THEOREM ConvReluCorrect ==
  ASSUME NEW g, IsRegular(g), NonePairReturned(g, "CONV2D", "RELU"), NEW env, GivesInputs(env, g)
  PROVE  Preserves(FuseConvRelu(g), g, env)
<1>1. PICK C, s : ArePairs(g, "CONV2D", "RELU", C) /\ IsTaking(s, g, C) /\ FuseConvRelu(g) = Swept(s)
  BY ConvReluTakes
<1>2. PICK h : h = Swept(s)
  OBVIOUS
<1>3. AreKinds("CONV2D", "RELU")
  BY DEF AreKinds, UnaryOps
<1>4. PICK ops, place : IsTakenGraph(Swept(s), g, C, ops, place)
  BY <1>1, <1>3, TakingLeaves
<1>5. PICK V : V = Values(g, env)
  OBVIOUS
<1>6. Solves(V, g, env)
  BY <1>5, RegularParts, ValuesSolve
<1>7. ASSUME NEW c \in C
      PROVE  /\ Result(g, c) \notin Range(g.outputs)
             /\ Outcome(V, g, env, ops[c]) = Val(V, Result(g, SoleReaderOf(g, c)))
  <2>1. c \in 1 .. Len(g.nodes) /\ IsPair(g, "CONV2D", "RELU", c)
    BY <1>1 DEF ArePairs
  <2>2. PICK m \in 1 .. Len(g.nodes) : m = SoleReaderOf(g, c)
    BY <2>1 DEF IsPair, IsSolelyRead
  <2>3. g.nodes[c].opcode = "CONV2D" /\ g.nodes[m].opcode = "RELU" /\ IsSolelyRead(g, c)
    BY <2>1, <2>2 DEF IsPair
  <2>4. PICK n : n = ops[c]
    OBVIOUS
  <2>5. IsTaken(n, g, C, c)
    BY <1>4, <2>1, <2>4 DEF IsTakenGraph, AreTaken
  <2>6. /\ n.opcode = "CONV2D" /\ n.inputs = g.nodes[c].inputs /\ n.outputs = g.nodes[m].outputs
        /\ n.attributes = With(g.nodes[c].attributes, "fused_relu", TRUE)
    BY <2>2, <2>3, <2>5 DEF IsTaken, KeyOf, ValueOf
  <2>7. g.nodes[m].opcode \in UnaryOps
    BY <2>3 DEF UnaryOps
  <2>8. PairValues(V, g, env, c, m, n)
    BY <1>6, <2>1, <2>2, <2>3, <2>6, <2>7, PairValuesAre
  <2>9. Outcome(V, g, env, n) = Val(V, Result(g, m))
    BY <2>3, <2>6, <2>8, ConvReluValue
  <2> QED BY <2>1, <2>2, <2>4, <2>9 DEF NonePairReturned
<1>8. Preserves(h, g, env)
  BY <1>2, <1>4, <1>5, <1>7, TakenResults
<1> QED BY <1>1, <1>2, <1>8

\* A transposition of dimensions 2 and 3, whichever is named first.
LEMMA TransposeIs ==
  ASSUME NEW x, NEW dim0, NEW dim1, {Axis(dim0, Rank(x)), Axis(dim1, Rank(x))} = {2, 3}
  PROVE  TransposeOf(x, dim0, dim1) = TransposeOf(x, 1, 2)
<1>1. Axis(1, Rank(x)) = 2 /\ Axis(2, Rank(x)) = 3
  BY DEF Axis
<1>2. \A s : SwapAt(s, 2, 3) = SwapAt(s, 3, 2)
  BY DEF SwapAt
<1>3. \/ Axis(dim0, Rank(x)) = 2 /\ Axis(dim1, Rank(x)) = 3
      \/ Axis(dim0, Rank(x)) = 3 /\ Axis(dim1, Rank(x)) = 2
  OBVIOUS
<1>4. PICK d : d = Axis(dim0, Rank(x))
  OBVIOUS
<1>5. PICK e : e = Axis(dim1, Rank(x))
  OBVIOUS
<1>6. \A s : SwapAt(s, d, e) = SwapAt(s, 2, 3)
  BY <1>2, <1>3, <1>4, <1>5
<1>7. TransposeOf(x, dim0, dim1)
        = [shape |-> SwapAt(x.shape, d, e), at |-> [i \in Indices(SwapAt(x.shape, d, e)) |-> x.at[SwapAt(i, d, e)]]]
  BY <1>4, <1>5 DEF TransposeOf, Tensor, Tabulated
<1>8. TransposeOf(x, 1, 2)
        = [shape |-> SwapAt(x.shape, 2, 3), at |-> [i \in Indices(SwapAt(x.shape, 2, 3)) |-> x.at[SwapAt(i, 2, 3)]]]
  BY <1>1 DEF TransposeOf, Tensor, Tabulated
<1>9. PICK shape : shape = SwapAt(x.shape, 2, 3)
  OBVIOUS
<1>10. SwapAt(x.shape, d, e) = shape
  BY <1>6, <1>9
<1>11. [i \in Indices(shape) |-> x.at[SwapAt(i, d, e)]] = [i \in Indices(shape) |-> x.at[SwapAt(i, 2, 3)]]
  BY <1>6
<1> QED BY <1>7, <1>8, <1>9, <1>10, <1>11

\* Nor of transposing it.
LEMMA TransposeOfUndefined == TransposeOf(Undefined, 1, 2) = Undefined
<1>1. PICK x : x = Undefined
  OBVIOUS
<1>2. x.shape = <<-1>> /\ x = [shape |-> <<-1>>, at |-> <<>>]
  BY <1>1 DEF Undefined
<1>3. Axis(1, Rank(x)) = 2 /\ Axis(2, Rank(x)) = 3
  BY DEF Axis
<1>4. PICK s : s = x.shape
  OBVIOUS
<1>5. DOMAIN s = {1} /\ s = [k \in {1} |-> -1]
  BY <1>2, <1>4
<1>6. SwapAt(s, 2, 3) = s
  BY <1>5 DEF SwapAt
<1>7. Indices(s) = {}
  BY <1>2, <1>4, NoIndices
<1>8. PICK f : f = [i \in Indices(s) |-> x.at[SwapAt(i, 2, 3)]]
  OBVIOUS
<1>9. f = <<>>
  BY <1>7, <1>8
<1>10. TransposeOf(x, 1, 2) = [shape |-> s, at |-> f]
  BY <1>3, <1>4, <1>6, <1>8 DEF TransposeOf, Tensor, Tabulated
<1>11. TransposeOf(x, 1, 2) = x
  BY <1>2, <1>4, <1>9, <1>10
<1> QED BY <1>1, <1>11

\* What an attention computes.
LEMMA SdpaComputes ==
  ASSUME NEW n, n.opcode = "SDPA", NEW x
  PROVE  Compute(n, x) = IF Attribute(n, "fused_transpose", 0) = 1
                         THEN TransposeOf(SdpaOf(x[1], x[2], x[3]), 1, 2)
                         ELSE SdpaOf(x[1], x[2], x[3])
BY DEF Compute

\* What a transposition computes.
LEMMA TransposeComputes ==
  ASSUME NEW n, n.opcode = "TRANSPOSE", NEW x
  PROVE  Compute(n, x) = TransposeOf(x[1], Attribute(n, "dim0", 0), Attribute(n, "dim1", 1))
BY DEF Compute

\* An attention that does the work of the transposition after it computes what that
\* did.
LEMMA SdpaValue ==
  ASSUME NEW g, NEW env, NEW V, NEW c, NEW m, NEW n, PairValues(V, g, env, c, m, n),
         g.nodes[c].opcode = "SDPA", g.nodes[m].opcode = "TRANSPOSE", n.opcode = "SDPA",
         m = SoleReaderOf(g, c), IsFoldable(g, c),
         Attribute(g.nodes[c], "fused_transpose", 0) # 1,
         n.attributes = With(g.nodes[c].attributes, "fused_transpose", 1),
         Val(V, Result(g, c)) # Undefined => Rank(Val(V, Result(g, c))) = RankOf(g, Result(g, c))
  PROVE  Outcome(V, g, env, n) = Val(V, Result(g, m))
<1>1. CASE ~Known(V, g.nodes[c])
  BY <1>1 DEF PairValues
<1>2. CASE Known(V, g.nodes[c])
  <2>1. PICK x : x = Args(V, g.nodes[c])
    OBVIOUS
  <2>2. Val(V, Result(g, c)) = Compute(g.nodes[c], x) /\ Outcome(V, g, env, n) = Compute(n, x)
    BY <1>2, <2>1 DEF PairValues
  <2>3. Attribute(n, "fused_transpose", 0) = 1
    BY DEF Attribute, With
  <2>4. PICK y : y = SdpaOf(x[1], x[2], x[3])
    OBVIOUS
  <2>5. Compute(n, x) = TransposeOf(y, 1, 2)
    BY <2>3, <2>4, SdpaComputes
  <2>6. Val(V, Result(g, c)) = y
    BY <2>2, <2>4, SdpaComputes
  <2>7. CASE y = Undefined
    <3>1. Val(V, Result(g, m)) = Undefined
      BY <2>6, <2>7 DEF PairValues
    <3> QED BY <2>2, <2>5, <2>7, <3>1, TransposeOfUndefined
  <2>8. CASE y # Undefined
    <3>1. PICK z : z[1] = y /\ Val(V, Result(g, m)) = Compute(g.nodes[m], z)
      BY <2>6, <2>8 DEF PairValues
    <3>2. PICK dim0 : dim0 = Attribute(g.nodes[m], "dim0", 0)
      OBVIOUS
    <3>3. PICK dim1 : dim1 = Attribute(g.nodes[m], "dim1", 1)
      OBVIOUS
    <3>4. Compute(g.nodes[m], z) = TransposeOf(y, dim0, dim1)
      BY <3>1, <3>2, <3>3, TransposeComputes
    <3>5. {Axis(dim0, Rank(y)), Axis(dim1, Rank(y))} = {2, 3}
      BY <2>6, <2>8, <3>2, <3>3 DEF IsFoldable
    <3>6. TransposeOf(y, dim0, dim1) = TransposeOf(y, 1, 2)
      BY <3>5, TransposeIs
    <3> QED BY <2>2, <2>5, <3>1, <3>4, <3>6
  <2> QED BY <2>7, <2>8
<1> QED BY <1>1, <1>2

\* The folding of the transposition after an attention into it, on any regular graph
\* whose values have the declared shapes and whose transposed attentions have no
\* transposition folded in yet.
THEOREM SdpaCorrect ==
  ASSUME NEW g, IsRegular(g), NoneTransposedTwice(g), NEW env, GivesInputs(env, g),
         IsWellShaped(Values(g, env), g)
  PROVE  Preserves(FuseSdpaTranspose(g), g, env)
<1>1. PICK C, s : ArePairs(g, "SDPA", "TRANSPOSE", C) /\ IsTaking(s, g, C) /\ FuseSdpaTranspose(g) = Swept(s)
  BY SdpaTakes
<1>2. PICK h : h = Swept(s)
  OBVIOUS
<1>3. AreKinds("SDPA", "TRANSPOSE")
  BY DEF AreKinds, UnaryOps
<1>4. PICK ops, place : IsTakenGraph(Swept(s), g, C, ops, place)
  BY <1>1, <1>3, TakingLeaves
<1>5. PICK V : V = Values(g, env)
  OBVIOUS
<1>6. Solves(V, g, env)
  BY <1>5, RegularParts, ValuesSolve
<1>7. ASSUME NEW c \in C
      PROVE  /\ Result(g, c) \notin Range(g.outputs)
             /\ Outcome(V, g, env, ops[c]) = Val(V, Result(g, SoleReaderOf(g, c)))
  <2>1. c \in 1 .. Len(g.nodes) /\ IsPair(g, "SDPA", "TRANSPOSE", c)
    BY <1>1 DEF ArePairs
  <2>2. PICK m \in 1 .. Len(g.nodes) : m = SoleReaderOf(g, c)
    BY <2>1 DEF IsPair, IsSolelyRead
  <2>3. g.nodes[c].opcode = "SDPA" /\ g.nodes[m].opcode = "TRANSPOSE" /\ IsSolelyRead(g, c)
        /\ IsFoldable(g, c)
    BY <2>1, <2>2 DEF IsPair
  <2>4. PICK n : n = ops[c]
    OBVIOUS
  <2>5. IsTaken(n, g, C, c)
    BY <1>4, <2>1, <2>4 DEF IsTakenGraph, AreTaken
  <2>6. /\ n.opcode = "SDPA" /\ n.inputs = g.nodes[c].inputs /\ n.outputs = g.nodes[m].outputs
        /\ n.attributes = With(g.nodes[c].attributes, "fused_transpose", 1)
    BY <2>2, <2>3, <2>5 DEF IsTaken, KeyOf, ValueOf
  <2>7. g.nodes[m].opcode \in UnaryOps
    BY <2>3 DEF UnaryOps
  <2>8. PairValues(V, g, env, c, m, n)
    BY <1>6, <2>1, <2>2, <2>3, <2>6, <2>7, PairValuesAre
  <2>9. Attribute(g.nodes[c], "fused_transpose", 0) # 1
    BY <2>1 DEF NoneTransposedTwice
  <2>10. ASSUME Val(V, Result(g, c)) # Undefined
         PROVE  Rank(Val(V, Result(g, c))) = RankOf(g, Result(g, c))
    <3>1. PICK t : t = Result(g, c)
      OBVIOUS
    <3>2. t \in DOMAIN g.tensors
      <4>1. t \in Range(g.nodes[c].outputs)
        BY <2>1, <3>1, RegularParts, FirstResult DEF Result
      <4> QED BY <2>1, <4>1, RegularNode DEF IsNodeOf
    <3>3. Val(V, t).shape = g.tensors[t].shape
      BY <1>5, <2>10, <3>1, <3>2 DEF IsWellShaped
    <3> QED BY <3>1, <3>3 DEF Rank, RankOf
  <2>11. Outcome(V, g, env, n) = Val(V, Result(g, m))
    BY <2>2, <2>3, <2>6, <2>8, <2>9, <2>10, SdpaValue
  <2> QED BY <2>2, <2>3, <2>4, <2>11 DEF IsFoldable
<1>8. Preserves(h, g, env)
  BY <1>2, <1>4, <1>5, <1>7, TakenResults
<1> QED BY <1>1, <1>2, <1>8

--------------------------------------------------------------------------------
(* The indices of a shape, and products of tensors of one shape                 *)

\* There is such a function.
LEMMA IndexingDefined ==
  ASSUME NEW shape, Len(shape) \in Nat
  PROVE  \E upto : IsIndexing(upto, shape)
<1> DEFINE First(f, k) == f = [i \in 0 .. k |-> IF i = 0 THEN {<<>>} ELSE Longer(f[i - 1], shape[i])]
           S == {k \in Nat : \E f : First(f, k)}
<1>1. 0 \in S
  <2> DEFINE f == [n \in 0 .. 0 |-> {<<>>}]
  <2>1. f = [i \in 0 .. 0 |-> IF i = 0 THEN {<<>>} ELSE Longer(f[i - 1], shape[i])]
    OBVIOUS
  <2> HIDE DEF f
  <2> QED BY <2>1
<1>2. ASSUME NEW k \in Nat, k < Len(shape), k \in S PROVE k + 1 \in S
  <2>1. PICK f : First(f, k)
    BY <1>2
  <2> DEFINE h == [i \in 0 .. (k + 1) |-> IF i = 0 THEN {<<>>} ELSE Longer(f[i - 1], shape[i])]
  <2>2. ASSUME NEW i \in 0 .. (k + 1), i # 0 PROVE f[i - 1] = h[i - 1]
    <3>1. i - 1 \in 0 .. k /\ i - 1 \in 0 .. (k + 1)
      BY <2>2
    <3>2. f[i - 1] = IF i - 1 = 0 THEN {<<>>} ELSE Longer(f[(i - 1) - 1], shape[i - 1])
      BY <2>1, <3>1
    <3>3. h[i - 1] = IF i - 1 = 0 THEN {<<>>} ELSE Longer(f[(i - 1) - 1], shape[i - 1])
      BY <3>1
    <3> QED BY <3>2, <3>3
  <2>3. h = [i \in 0 .. (k + 1) |-> IF i = 0 THEN {<<>>} ELSE Longer(h[i - 1], shape[i])]
    <3>1. \A i \in 0 .. (k + 1) :
            (IF i = 0 THEN {<<>>} ELSE Longer(f[i - 1], shape[i]))
            = (IF i = 0 THEN {<<>>} ELSE Longer(h[i - 1], shape[i]))
      <4> TAKE i \in 0 .. (k + 1)
      <4>1. CASE i = 0
        BY <4>1
      <4>2. CASE i # 0
        <5>1. f[i - 1] = h[i - 1]
          BY <2>2, <4>2
        <5> HIDE DEF h
        <5> QED BY <5>1
      <4> QED BY <4>1, <4>2
    <3> QED BY <3>1
  <2>4. First(h, k + 1)
    BY <2>3
  <2>5. k + 1 \in Nat
    OBVIOUS
  <2> HIDE DEF h, First
  <2> QED BY <2>4, <2>5
<1>3. Len(shape) \in S
  <2>1. \A n \in Nat : n < Len(shape) /\ n \in S => n + 1 \in S
    BY <1>2
  <2>2. Len(shape) \in 0 .. Len(shape)
    OBVIOUS
  <2> HIDE DEF S
  <2> QED BY <1>1, <2>1, <2>2, UpTo
<1>4. PICK f : First(f, Len(shape))
  BY <1>3
<1>5. f = [i \in 0 .. Len(shape) |-> IF i = 0 THEN {<<>>} ELSE Longer(f[i - 1], shape[i])]
  BY <1>4
<1>6. IsIndexing(f, shape)
  BY <1>5 DEF IsIndexing
<1> QED BY <1>6

IsIndexOf(i, shape, n) ==
  i \in Seq(Nat) /\ Len(i) = n /\ \A k \in 1 .. n : i[k] \in 0 .. shape[k] - 1

\* An index has a number below every dimension.
LEMMA IndexIs ==
  ASSUME NEW shape \in Seq(Nat), NEW i \in Indices(shape)
  PROVE  IsIndexOf(i, shape, Len(shape))
<1>1. Len(shape) \in Nat /\ \A k \in 1 .. Len(shape) : shape[k] \in Nat
  OBVIOUS
<1>2. PICK upto : upto = CHOOSE f : IsIndexing(f, shape)
  OBVIOUS
<1>3. IsIndexing(upto, shape)
  BY <1>1, <1>2, IndexingDefined
<1>4. Indices(shape) = upto[Len(shape)]
  BY <1>2, IndicesAre
<1>5. upto[0] = {<<>>} /\ \A k \in 1 .. Len(shape) : upto[k] = Longer(upto[k - 1], shape[k])
  <2>1. upto = [k \in 0 .. Len(shape) |-> IF k = 0 THEN {<<>>} ELSE Longer(upto[k - 1], shape[k])]
    BY <1>3 DEF IsIndexing
  <2>2. upto[0] = {<<>>}
    BY <1>1, <2>1
  <2>3. ASSUME NEW k \in 1 .. Len(shape) PROVE upto[k] = Longer(upto[k - 1], shape[k])
    <3>1. k \in 0 .. Len(shape) /\ k # 0
      BY <1>1
    <3> QED BY <2>1, <3>1
  <2> QED BY <2>2, <2>3
<1> DEFINE Good == {n \in Nat : \A j \in upto[n] : IsIndexOf(j, shape, n)}
<1>6. 0 \in Good
  <2>1. IsIndexOf(<<>>, shape, 0)
    BY DEF IsIndexOf
  <2> QED BY <1>5, <2>1
<1>7. ASSUME NEW n \in Nat, n < Len(shape), n \in Good PROVE n + 1 \in Good
  <2>1. PICK m : m = n + 1
    OBVIOUS
  <2>2. m \in 1 .. Len(shape) /\ m - 1 = n /\ m \in Nat
    BY <1>1, <1>7, <2>1
  <2>3. ASSUME NEW j \in upto[m] PROVE IsIndexOf(j, shape, m)
    <3>1. j \in Longer(upto[n], shape[m])
      BY <1>5, <2>2
    <3>2. PICK a \in upto[n], b \in 0 .. shape[m] - 1 : j = Append(a, b)
      BY <3>1 DEF Longer
    <3>3. IsIndexOf(a, shape, n)
      BY <1>7
    <3>4. a \in Seq(Nat) /\ Len(a) = n /\ \A k \in 1 .. n : a[k] \in 0 .. shape[k] - 1
      BY <3>3 DEF IsIndexOf
    <3>5. b \in Nat
      BY <1>1, <2>2
    <3>6. j \in Seq(Nat) /\ Len(j) = m /\ j[m] = b /\ \A k \in 1 .. n : j[k] = a[k]
      BY <2>1, <3>2, <3>4, <3>5
    <3>7. \A k \in 1 .. m : k \in 1 .. n \/ k = m
      BY <2>1
    <3> QED BY <3>2, <3>4, <3>6, <3>7 DEF IsIndexOf
  <2> QED BY <2>1, <2>2, <2>3
<1>8. Len(shape) \in Good
  <2>1. \A n \in Nat : n < Len(shape) /\ n \in Good => n + 1 \in Good
    BY <1>7
  <2>2. Len(shape) \in 0 .. Len(shape)
    BY <1>1
  <2> HIDE DEF Good
  <2> QED BY <1>1, <1>6, <2>1, <2>2, UpTo
<1> QED BY <1>4, <1>8

\* Tensors of one shape are multiplied index by index.
LEMMA OneShape ==
  ASSUME NEW s \in Seq(Nat)
  PROVE  BroadcastShape(s, s) = s /\ \A i \in Indices(s) : BroadcastIndex(i, s) = i
<1>1. Len(s) \in Nat /\ \A k \in 1 .. Len(s) : s[k] \in Nat
  OBVIOUS
<1>2. PICK n : n = Len(s)
  OBVIOUS
<1>3. BroadcastShape(s, s) = [k \in 1 .. n |-> s[k]]
  <2>1. ASSUME NEW k \in 1 .. n PROVE DimFromEnd(s, n - k) = s[k]
    <3>1. n - k < Len(s) /\ Len(s) - (n - k) = k
      BY <1>1, <1>2
    <3> QED BY <3>1 DEF DimFromEnd
  <2>2. BroadcastShape(s, s) = [k \in 1 .. n |->
          IF DimFromEnd(s, n - k) = 1 THEN DimFromEnd(s, n - k)
          ELSE IF DimFromEnd(s, n - k) \in {1, DimFromEnd(s, n - k)} THEN DimFromEnd(s, n - k) ELSE -1]
    BY <1>1, <1>2 DEF BroadcastShape, Tabulated
  <2> QED BY <2>1, <2>2
<1>4. s = [k \in 1 .. n |-> s[k]]
  BY <1>2
<1>5. ASSUME NEW i \in Indices(s) PROVE BroadcastIndex(i, s) = i
  <2>1. i \in Seq(Nat) /\ Len(i) = n /\ \A k \in 1 .. n : i[k] \in 0 .. s[k] - 1
    BY <1>2, IndexIs DEF IsIndexOf
  <2>2. BroadcastIndex(i, s) = [k \in 1 .. n |-> IF s[k] = 1 THEN 0 ELSE i[k + Len(i) - Len(s)]]
    BY <1>2 DEF BroadcastIndex, Tabulated
  <2>3. \A k \in 1 .. n : (IF s[k] = 1 THEN 0 ELSE i[k + Len(i) - Len(s)]) = i[k]
    BY <1>1, <1>2, <2>1
  <2>4. i = [k \in 1 .. n |-> i[k]]
    BY <2>1
  <2> QED BY <2>2, <2>3, <2>4
<1> QED BY <1>3, <1>4, <1>5

\* The product of tensors of one shape.
LEMMA ProductIs ==
  ASSUME NEW s \in Seq(Nat), NEW x, x.shape = s, NEW y, y.shape = s
  PROVE  Mul(x, y) = [shape |-> s, at |-> [i \in Indices(s) |-> Binary("MUL", x.at[i], y.at[i])]]
<1>1. BroadcastShape(x.shape, y.shape) = s /\ \A i \in Indices(s) : BroadcastIndex(i, s) = i
  BY OneShape
<1>2. ~\E k \in 1 .. Len(s) : s[k] = -1
  OBVIOUS
<1>3. PICK f : f = [i \in Indices(s) |-> Binary("MUL", x.at[BroadcastIndex(i, x.shape)],
                                                       y.at[BroadcastIndex(i, y.shape)])]
  OBVIOUS
<1>4. Mul(x, y) = [shape |-> s, at |-> f]
  BY <1>1, <1>2, <1>3 DEF Mul, Map2, Tensor, Tabulated
<1>5. f = [i \in Indices(s) |-> Binary("MUL", x.at[i], y.at[i])]
  BY <1>1, <1>3
<1> QED BY <1>4, <1>5

\* Tensors of one shape may be multiplied in either order.
LEMMA ProductCommutes ==
  ASSUME NEW s \in Seq(Nat), NEW x, x.shape = s, IsIntegral(x), NEW y, y.shape = s, IsIntegral(y)
  PROVE  Mul(x, y) = Mul(y, x)
<1>1. ASSUME NEW i \in Indices(s) PROVE Binary("MUL", x.at[i], y.at[i]) = Binary("MUL", y.at[i], x.at[i])
  <2>1. PICK a \in Int, b \in Int : a = x.at[i] /\ b = y.at[i]
    BY DEF IsIntegral
  <2>2. Binary("MUL", a, b) = (a * b) % P /\ Binary("MUL", b, a) = (b * a) % P
    BY DEF Binary
  <2>3. a * b = b * a
    BY <2>1
  <2> QED BY <2>1, <2>2, <2>3
<1>2. [i \in Indices(s) |-> Binary("MUL", x.at[i], y.at[i])] = [i \in Indices(s) |-> Binary("MUL", y.at[i], x.at[i])]
  BY <1>1
<1>3. Mul(x, y) = [shape |-> s, at |-> [i \in Indices(s) |-> Binary("MUL", x.at[i], y.at[i])]]
  BY ProductIs
<1>4. Mul(y, x) = [shape |-> s, at |-> [i \in Indices(s) |-> Binary("MUL", y.at[i], x.at[i])]]
  BY ProductIs
<1> QED BY <1>2, <1>3, <1>4

\* An activation has the shape of what it is applied to, and integers.
LEMMA ActivatedIs ==
  ASSUME NEW x, IsIntegral(x)
  PROVE  Map1("SILU", x).shape = x.shape /\ IsIntegral(Map1("SILU", x))
<1>1. PICK y : y = Map1("SILU", x)
  OBVIOUS
<1>2. y.shape = x.shape /\ y.at = [i \in Indices(x.shape) |-> Unary("SILU", x.at[i])]
  BY <1>1, MapIs
<1>3. ASSUME NEW i \in Indices(y.shape) PROVE y.at[i] \in Int
  <2>1. y.at[i] = Unary("SILU", x.at[i])
    BY <1>2
  <2>2. PICK a \in Int : a = x.at[i]
    BY <1>2 DEF IsIntegral
  <2>3. Unary("SILU", a) = Opaque(7, 3, 6, a)
    BY DEF Unary
  <2>4. a * a \in Int
    OBVIOUS
  <2>5. PICK b \in Int : b = a * a
    BY <2>4
  <2>6. 7 * a * a = 7 * b
    BY <2>5
  <2>7. Opaque(7, 3, 6, a) \in Int
    BY <2>6 DEF Opaque, P
  <2> QED BY <2>1, <2>2, <2>3, <2>7
<1>4. IsIntegral(y)
  BY <1>3 DEF IsIntegral
<1> QED BY <1>1, <1>2, <1>4

\* What a gated product computes.
LEMMA SwigluComputes ==
  ASSUME NEW n, n.opcode = "SWIGLU", NEW x, Len(x) = 2
  PROVE  Compute(n, x) = Mul(Map1("SILU", x[1]), x[2])
BY DEF Compute, SwigluOf

\* What an activation computes.
LEMMA SiluComputes ==
  ASSUME NEW n, n.opcode = "SILU", NEW x
  PROVE  Compute(n, x) = Map1("SILU", x[1])
BY DEF Compute

\* What a product computes.
LEMMA MulComputes ==
  ASSUME NEW n, n.opcode = "MUL", NEW x
  PROVE  Compute(n, x) = Mul(x[1], x[2])
BY DEF Compute, Mul

\* A product that gates with what an activation reads computes what it did with the
\* activation.
LEMMA GatedValue ==
  ASSUME NEW g, IsRegular(g), NEW env, GivesInputs(env, g), NEW V, Solves(V, g, env),
         IsWellShaped(V, g), NEW c \in 1 .. Len(g.nodes), NEW p \in 1 .. Len(g.nodes),
         NEW n, IsGated(n, g, c, p)
  PROVE  Outcome(V, g, env, n) = Val(V, Result(g, c))
<1>1. PICK a : a = g.nodes[p]
  OBVIOUS
<1>2. PICK b : b = g.nodes[c]
  OBVIOUS
<1>3. a.opcode = "SILU" /\ b.opcode = "MUL" /\ n.opcode = "SWIGLU" /\ n.outputs = b.outputs
      /\ IsSequence(n.inputs)
  BY <1>1, <1>2 DEF IsGated
<1>4. PICK gate : gate = n.inputs[1]
  OBVIOUS
<1>5. PICK up : up = n.inputs[2]
  OBVIOUS
<1>6. /\ Len(n.inputs) = 2 /\ gate = a.inputs[1] /\ g.tensors[gate].shape = g.tensors[up].shape
      /\ \E j, o \in 1 .. 2 : j # o /\ DOMAIN b.inputs = 1 .. 2 /\ b.inputs[j] = Result(g, p) /\ b.inputs[o] = up
  BY <1>1, <1>2, <1>4, <1>5 DEF IsGated, IsFactor
<1>7. DOMAIN n.inputs = {1, 2} /\ DOMAIN b.inputs = {1, 2}
  BY <1>3, <1>6 DEF IsSequence
<1>8. DOMAIN a.inputs = {1}
  <2>1. IsSequence(a.inputs) /\ Len(a.inputs) = 1
    BY <1>1, <1>3, RegularNode DEF IsRegularOp, UnaryOps
  <2> QED BY <2>1 DEF IsSequence
<1>9. PICK G : G = Val(V, gate)
  OBVIOUS
<1>10. PICK U : U = Val(V, up)
  OBVIOUS
<1>11. PICK S : S = Val(V, Result(g, p))
  OBVIOUS
<1>12. Given(g, env, a.outputs[1]) = Undefined /\ Given(g, env, b.outputs[1]) = Undefined
  BY <1>1, <1>2, ResultNotGiven
<1>13. S = IF Known(V, a) THEN Compute(a, Args(V, a)) ELSE Undefined
  BY <1>1, <1>11, <1>12 DEF Solves, Outcome, Result
<1>14. Val(V, Result(g, c)) = IF Known(V, b) THEN Compute(b, Args(V, b)) ELSE Undefined
  BY <1>2, <1>12 DEF Solves, Outcome, Result
<1>15. Outcome(V, g, env, n) = IF Known(V, n) THEN Compute(n, Args(V, n)) ELSE Undefined
  BY <1>2, <1>3, <1>12 DEF Outcome
<1>16. Known(V, n) <=> G # Undefined /\ U # Undefined
  BY <1>4, <1>5, <1>7, <1>9, <1>10 DEF Known
<1>17. Known(V, a) <=> G # Undefined
  BY <1>6, <1>8, <1>9 DEF Known
<1>18. Known(V, b) <=> S # Undefined /\ U # Undefined
  <2>1. PICK j \in {1, 2}, o \in {1, 2} : j # o /\ b.inputs[j] = Result(g, p) /\ b.inputs[o] = up
    BY <1>6
  <2>2. \A k \in DOMAIN b.inputs : k = j \/ k = o
    BY <1>7, <2>1
  <2>3. j \in DOMAIN b.inputs /\ o \in DOMAIN b.inputs
    BY <1>7
  <2> QED BY <1>10, <1>11, <2>1, <2>2, <2>3 DEF Known
<1>19. CASE G = Undefined \/ U = Undefined
  <2>1. Outcome(V, g, env, n) = Undefined
    BY <1>15, <1>16, <1>19
  <2>2. ~Known(V, b)
    BY <1>13, <1>17, <1>18, <1>19
  <2> QED BY <1>14, <2>1, <2>2
<1>20. CASE G # Undefined /\ U # Undefined
  <2>1. gate \in DOMAIN g.tensors /\ up \in DOMAIN g.tensors
    <3>1. gate \in Range(a.inputs) /\ up \in Range(b.inputs)
      BY <1>6, <1>7, <1>8 DEF Range
    <3>2. IsNodeOf(g, a) /\ IsNodeOf(g, b)
      BY <1>1, <1>2, RegularNode
    <3> QED BY <3>1, <3>2 DEF IsNodeOf
  <2>2. PICK s \in Seq(Nat) : G.shape = s /\ U.shape = s
    <3>1. G.shape = g.tensors[gate].shape /\ U.shape = g.tensors[up].shape /\ g.tensors[gate].shape \in Seq(Nat)
      BY <1>9, <1>10, <1>20, <2>1 DEF IsWellShaped
    <3> QED BY <1>6, <3>1
  <2>3. IsIntegral(G) /\ IsIntegral(U)
    BY <1>9, <1>10, <1>20, <2>1 DEF IsWellShaped
  <2>4. PICK y : y = Map1("SILU", G)
    OBVIOUS
  <2>5. y.shape = s /\ IsIntegral(y)
    BY <2>2, <2>3, <2>4, ActivatedIs
  <2>6. S = y
    <3>1. PICK x : x = Args(V, a)
      OBVIOUS
    <3>2. x[1] = G
      BY <1>6, <1>8, <1>9, <3>1 DEF Args
    <3>3. Compute(a, x) = Map1("SILU", x[1])
      BY <1>3, SiluComputes
    <3> QED BY <1>13, <1>17, <1>20, <2>4, <3>1, <3>2, <3>3
  <2>7. y # Undefined
    <3>1. ASSUME s = <<-1>> PROVE FALSE
      <4>1. Len(s) = 1 /\ s[1] = -1
        BY <3>1
      <4>2. \A k \in 1 .. Len(s) : s[k] \in Nat
        OBVIOUS
      <4>3. 1 \in 1 .. Len(s)
        BY <4>1
      <4> QED BY <4>1, <4>2, <4>3
    <3> QED BY <2>5, <3>1 DEF Undefined
  <2>8. Outcome(V, g, env, n) = Mul(y, U)
    <3>1. PICK x : x = Args(V, n)
      OBVIOUS
    <3>2. x[1] = G /\ x[2] = U
      BY <1>4, <1>5, <1>7, <1>9, <1>10, <3>1 DEF Args
    <3>3. Len(x) = 2
      <4>1. x = [k \in {1, 2} |-> Val(V, n.inputs[k])]
        BY <1>7, <3>1 DEF Args
      <4>2. {1, 2} = 1 .. 2
        OBVIOUS
      <4>3. PICK f : f = [k \in 1 .. 2 |-> Val(V, n.inputs[k])]
        OBVIOUS
      <4>4. f = x
        BY <4>1, <4>2, <4>3
      <4>5. Len(f) = 2
        BY <4>3
      <4> QED BY <4>4, <4>5
    <3>4. Compute(n, x) = Mul(Map1("SILU", x[1]), x[2])
      BY <1>3, <3>3, SwigluComputes
    <3> QED BY <1>15, <1>16, <1>20, <2>4, <3>1, <3>2, <3>4
  <2>9. Val(V, Result(g, c)) = Mul(y, U) \/ Val(V, Result(g, c)) = Mul(U, y)
    <3>1. PICK x : x = Args(V, b)
      OBVIOUS
    <3>2. (x[1] = S /\ x[2] = U) \/ (x[2] = S /\ x[1] = U)
      BY <1>6, <1>7, <1>10, <1>11, <3>1 DEF Args
    <3>3. Compute(b, x) = Mul(x[1], x[2])
      BY <1>3, MulComputes
    <3>4. Known(V, b)
      BY <1>18, <1>20, <2>6, <2>7
    <3> QED BY <1>14, <2>6, <3>1, <3>2, <3>3, <3>4
  <2>10. Mul(y, U) = Mul(U, y)
    BY <2>2, <2>3, <2>5, ProductCommutes
  <2> QED BY <2>8, <2>9, <2>10
<1> QED BY <1>19, <1>20

\* The fusion of the product of a gate and its activation, on any regular graph whose
\* values have the declared shapes and that does not return an activation besides the
\* product.
THEOREM SwigluCorrect ==
  ASSUME NEW g, IsRegular(g), NonePairReturned(g, "SILU", "MUL"), NEW env, GivesInputs(env, g),
         IsWellShaped(Values(g, env), g)
  PROVE  Preserves(FuseSwiglu(g), g, env)
<1>1. PICK h : h = FuseSwiglu(g)
  OBVIOUS
<1>2. PICK C, Gone, ops, place : IsGatedGraph(h, g, C, Gone, ops, place)
  BY <1>1, SwigluGates
<1>3. PICK X : X = Remaining(g, Gone)
  OBVIOUS
<1>4. /\ IsRewriting(h, g) /\ IsInlining(g, C, Gone, ops) /\ AreGated(ops, g, Len(g.nodes), C)
      /\ AreBypassed(ops, g, Len(g.nodes), C, Gone)
      /\ IsListing(h.nodes, ops, X, place) /\ \A i \in X : IsNodeOf(g, ops[i])
  BY <1>2, <1>3 DEF IsGatedGraph
<1>5. PICK V : V = Values(g, env)
  OBVIOUS
<1>6. Solves(V, g, env) /\ IsWellShaped(V, g) /\ Len(g.nodes) \in Nat
  BY <1>5, RegularParts, ValuesSolve
<1>7. ASSUME NEW i \in X PROVE Val(V, ops[i].outputs[1]) = Outcome(V, g, env, ops[i])
  <2>1. i \in 1 .. Len(g.nodes)
    BY <1>3 DEF Remaining
  <2>2. PICK n : n = ops[i]
    OBVIOUS
  <2>3. n.outputs = g.nodes[i].outputs
    BY <1>3, <1>4, <2>2 DEF IsInlining
  <2>4. Val(V, n.outputs[1]) = Val(V, Result(g, i))
    BY <2>3 DEF Result
  <2>5. CASE i \notin C
    <3>1. n = g.nodes[i]
      BY <1>4, <2>1, <2>2, <2>5 DEF AreGated
    <3>2. Val(V, g.nodes[i].outputs[1]) = Outcome(V, g, env, g.nodes[i])
      BY <1>6, <2>1 DEF Solves
    <3> QED BY <2>2, <3>1, <3>2
  <2>6. CASE i \in C
    <3>1. PICK p \in 1 .. i - 1 : IsGated(n, g, i, p)
      BY <1>4, <2>2, <2>6 DEF AreGated
    <3>2. p \in 1 .. Len(g.nodes)
      BY <1>6, <2>1, <3>1
    <3>3. Outcome(V, g, env, n) = Val(V, Result(g, i))
      BY <1>6, <2>1, <3>1, <3>2, GatedValue
    <3> QED BY <2>2, <2>4, <3>3
  <2> QED BY <2>5, <2>6
<1>8. Computes(V, g, env, ops, X)
  BY <1>7 DEF Computes
<1>9. ASSUME NEW t \in Range(g.outputs) PROVE ~IsLost(g, ops, X, t)
  <2>1. SUFFICES ASSUME IsLost(g, ops, X, t) PROVE FALSE
    OBVIOUS
  <2>2. PICK p \in 1 .. Len(g.nodes) : t = g.nodes[p].outputs[1]
    BY <2>1 DEF IsLost, IsResult
  <2>3. p \in Gone
    <3>1. SUFFICES ASSUME p \notin Gone PROVE FALSE
      OBVIOUS
    <3>2. p \in X
      BY <1>3, <3>1 DEF Remaining
    <3>3. ops[p].outputs = g.nodes[p].outputs
      BY <1>3, <1>4, <3>2 DEF IsInlining
    <3> QED BY <2>1, <2>2, <3>2, <3>3 DEF IsLost
  <2>4. g.nodes[p].opcode = "SILU"
    BY <1>4, <2>3 DEF AreBypassed
  <2>5. PICK c \in C : Readers(g, Result(g, p)) = {c}
    BY <1>4, <2>3 DEF AreBypassed
  <2>6. c \in 1 .. Len(g.nodes) /\ g.nodes[c].opcode = "MUL"
    <3>1. c \in 1 .. Len(g.nodes)
      BY <1>4 DEF AreGated
    <3>2. PICK q \in 1 .. c - 1 : IsGated(ops[c], g, c, q)
      BY <1>4 DEF AreGated
    <3> QED BY <3>1, <3>2 DEF IsGated
  <2>7. IsPair(g, "SILU", "MUL", p)
    BY <2>2, <2>4, <2>5, <2>6 DEF IsPair, IsSolelyRead, SoleReaderOf
  <2>8. t = Result(g, p)
    BY <2>2 DEF Result
  <2> QED BY <2>7, <2>8 DEF NonePairReturned
<1>10. PICK src : src = [i \in X |-> i]
  OBVIOUS
<1>11. Rearranges(g, ops, X, src)
  BY <1>3, <1>4, <1>10, InliningRearranges
<1>12. ReadsBefore(g, ops, X)
  BY <1>3, <1>4, InliningReads
<1>13. IsRewriting(h, g) /\ IsListing(h.nodes, ops, X, place)
  BY <1>4
<1>14. \A i \in X : IsNodeOf(g, ops[i])
  BY <1>4
<1>15. \A t \in Range(g.outputs) : ~IsLost(g, ops, X, t)
  BY <1>9
<1>16. Preserves(h, g, env)
  BY <1>5, <1>8, <1>11, <1>12, <1>13, <1>14, <1>15, RewritingPreserves
<1> QED BY <1>1, <1>16

--------------------------------------------------------------------------------
(* Pruning keeps the results                                                    *)

\* Swapping a place with itself.
LEMMA SwapWithItself ==
  ASSUME NEW S, NEW s \in Seq(S), NEW d
  PROVE  SwapAt(s, d, d) = s
<1>1. s = [k \in DOMAIN s |-> s[k]]
  OBVIOUS
<1> QED BY <1>1 DEF SwapAt

\* A tensor is what it has at its indices.
LEMMA SameTensor ==
  ASSUME NEW x, IsTensor(x), NEW f, \A i \in Indices(x.shape) : f[i] = x.at[i],
         f = [i \in Indices(x.shape) |-> f[i]]
  PROVE  [shape |-> x.shape, at |-> f] = x
<1>1. f = [i \in Indices(x.shape) |-> x.at[i]]
  OBVIOUS
<1>2. [shape |-> x.shape, at |-> f] = [shape |-> x.shape, at |-> [i \in Indices(x.shape) |-> x.at[i]]]
  BY <1>1
<1> QED BY <1>2 DEF IsTensor

\* The transposition of a dimension with itself.
LEMMA TransposeWithItself ==
  ASSUME NEW x, IsTensor(x), NEW s \in Seq(Nat), x.shape = s, NEW dim
  PROVE  TransposeOf(x, dim, dim) = x
<1>1. PICK d : d = Axis(dim, Rank(x))
  OBVIOUS
<1>2. SwapAt(s, d, d) = s
  BY SwapWithItself
<1>3. PICK f : f = [i \in Indices(s) |-> x.at[SwapAt(i, d, d)]]
  OBVIOUS
<1>4. TransposeOf(x, dim, dim) = [shape |-> s, at |-> f]
  BY <1>1, <1>2, <1>3 DEF TransposeOf, Tensor, Tabulated
<1>5. ASSUME NEW i \in Indices(s) PROVE SwapAt(i, d, d) = i
  <2>1. i \in Seq(Nat)
    BY IndexIs DEF IsIndexOf
  <2> QED BY <2>1, SwapWithItself
<1>6. \A i \in Indices(s) : f[i] = x.at[i]
  BY <1>3, <1>5
<1>7. f = [i \in Indices(s) |-> f[i]]
  BY <1>3
<1> QED BY <1>4, <1>6, <1>7, SameTensor

\* What a permutation gives, and the index from which it fetches.
Fetched(n, dims, i) == [d \in 1 .. n |-> i[CHOOSE k \in 1 .. n : Axis(dims[k], n) = d]]
TurnedShape(x, n, dims) == [k \in 1 .. n |-> x.shape[Axis(dims[k], n)]]

TurnedAround(x, n, dims, shape) ==
  [shape |-> shape, at |-> [i \in Indices(shape) |-> x.at[Fetched(n, dims, i)]]]

\* It is that.
LEMMA PermuteIs ==
  ASSUME NEW x, NEW n, Rank(x) = n, NEW dims, Len(dims) = n
  PROVE  PermuteOf(x, dims) = TurnedAround(x, n, dims, TurnedShape(x, n, dims))
<1>1. PICK shape : shape = TurnedShape(x, n, dims)
  OBVIOUS
<1>2. PermuteOf(x, dims) =
        [shape |-> Tabulated(shape),
         at |-> Tabulated([i \in Indices(Tabulated(shape)) |-> x.at[Tabulated(Fetched(n, dims, i))]])]
  BY <1>1 DEF PermuteOf, Tensor, Fetched, TurnedShape
<1>3. Tabulated(shape) = shape /\ \A i : Tabulated(Fetched(n, dims, i)) = Fetched(n, dims, i)
  BY TabulatedIs
<1>4. PICK f : f = [i \in Indices(shape) |-> x.at[Tabulated(Fetched(n, dims, i))]]
  OBVIOUS
<1>5. PermuteOf(x, dims) = [shape |-> shape, at |-> f]
  BY <1>2, <1>3, <1>4, TabulatedIs
<1>6. f = [i \in Indices(shape) |-> x.at[Fetched(n, dims, i)]]
  BY <1>3, <1>4
<1> QED BY <1>1, <1>5, <1>6 DEF TurnedAround

\* A permutation that leaves every dimension in its place.
LEMMA PermuteInPlace ==
  ASSUME NEW x, IsTensor(x), NEW s \in Seq(Nat), x.shape = s,
         NEW dims, Len(dims) = Len(s), \A k \in 1 .. Len(s) : dims[k] = k - 1
  PROVE  PermuteOf(x, dims) = x
<1>1. PICK n \in Nat : n = Len(s)
  OBVIOUS
<1>2. \A k \in 1 .. n : dims[k] = k - 1
  BY <1>1
<1>3. ASSUME NEW k \in 1 .. n PROVE Axis(dims[k], n) = k
  <2>1. dims[k] = k - 1 /\ k - 1 >= 0 /\ (k - 1) + 1 = k
    BY <1>2
  <2> QED BY <2>1 DEF Axis
<1>4. Rank(x) = n /\ Len(dims) = n
  BY <1>1 DEF Rank
<1>5. PICK shape : shape = TurnedShape(x, n, dims)
  OBVIOUS
<1>6. shape = s
  <2>1. shape = [k \in 1 .. n |-> s[k]]
    BY <1>3, <1>5 DEF TurnedShape
  <2>2. s = [k \in 1 .. n |-> s[k]]
    BY <1>1
  <2> QED BY <2>1, <2>2
<1>7. PICK f : f = [i \in Indices(s) |-> x.at[Fetched(n, dims, i)]]
  OBVIOUS
<1>8. PermuteOf(x, dims) = [shape |-> s, at |-> f]
  <2>1. PermuteOf(x, dims) = TurnedAround(x, n, dims, shape)
    BY <1>4, <1>5, PermuteIs
  <2> QED BY <1>6, <1>7, <2>1 DEF TurnedAround
<1>9. ASSUME NEW i \in Indices(s) PROVE Fetched(n, dims, i) = i
  <2>1. i \in Seq(Nat) /\ Len(i) = n
    BY <1>1, IndexIs DEF IsIndexOf
  <2>2. i = [d \in 1 .. n |-> i[d]]
    BY <2>1
  <2>3. ASSUME NEW d \in 1 .. n PROVE (CHOOSE k \in 1 .. n : Axis(dims[k], n) = d) = d
    BY <1>3
  <2> QED BY <2>2, <2>3 DEF Fetched
<1>10. \A i \in Indices(s) : f[i] = x.at[i]
  BY <1>7, <1>9
<1>11. f = [i \in Indices(s) |-> f[i]]
  BY <1>7
<1> QED BY <1>8, <1>10, <1>11, SameTensor

\* Every permutation names as many dimensions as there are.
PermutesAll(g) ==
  \A i \in 1 .. Len(g.nodes) : g.nodes[i].opcode = "PERMUTE" =>
    /\ IsSequence(PermutedDims(g.nodes[i]))
    /\ Len(PermutedDims(g.nodes[i])) = RankOf(g, Operand(g.nodes[i], 1))

\* What a permutation computes.
LEMMA PermuteComputes ==
  ASSUME NEW n, n.opcode = "PERMUTE", NEW x
  PROVE  Compute(n, x) = PermuteOf(x[1], PermutedDims(n))
BY DEF Compute

\* What a cast computes.
LEMMA CastComputes ==
  ASSUME NEW n, n.opcode = "CAST", NEW x
  PROVE  Compute(n, x) = x[1]
BY DEF Compute

\* An operation that is pruned computes its operand.
LEMMA IdentityValue ==
  ASSUME NEW g, IsRegular(g), PermutesAll(g), NEW env, GivesInputs(env, g), NEW V, Solves(V, g, env),
         IsWellShaped(V, g), NEW i \in 1 .. Len(g.nodes), NEW h, IsIdentity(h, g.nodes[i])
  PROVE  Val(V, Result(g, i)) = Val(V, Operand(g.nodes[i], 1))
<1>1. PICK n : n = g.nodes[i]
  OBVIOUS
<1>2. n.opcode \in {"TRANSPOSE", "PERMUTE", "CAST"}
  BY <1>1 DEF IsIdentity
<1>3. DOMAIN n.inputs = {1}
  <2>1. IsSequence(n.inputs) /\ Len(n.inputs) = 1
    BY <1>1, <1>2, RegularNode DEF IsRegularOp, UnaryOps
  <2> QED BY <2>1 DEF IsSequence
<1>4. PICK u : u = n.inputs[1]
  OBVIOUS
<1>5. Operand(n, 1) = u /\ u \in DOMAIN g.tensors
  <2>1. u \in Range(n.inputs)
    BY <1>3, <1>4 DEF Range
  <2>2. IsNodeOf(g, n)
    BY <1>1, RegularNode
  <2>3. Operand(n, 1) = u
    BY <1>3, <1>4 DEF Operand
  <2> QED BY <2>1, <2>2, <2>3 DEF IsNodeOf
<1>6. Given(g, env, n.outputs[1]) = Undefined
  BY <1>1, ResultNotGiven
<1>7. Val(V, Result(g, i)) = IF Known(V, n) THEN Compute(n, Args(V, n)) ELSE Undefined
  BY <1>1, <1>6 DEF Solves, Outcome, Result
<1>8. Known(V, n) <=> Val(V, u) # Undefined
  BY <1>3, <1>4 DEF Known
<1>9. PICK x : x = Args(V, n)
  OBVIOUS
<1>10. x[1] = Val(V, u)
  BY <1>3, <1>4, <1>9 DEF Args
<1>11. CASE Val(V, u) = Undefined
  BY <1>1, <1>5, <1>7, <1>8, <1>11
<1>12. CASE Val(V, u) # Undefined
  <2>1. PICK y : y = Val(V, u)
    OBVIOUS
  <2>2. PICK s : s = g.tensors[u].shape
    OBVIOUS
  <2>3. s \in Seq(Nat) /\ y.shape = s /\ IsTensor(y)
    BY <1>5, <1>12, <2>1, <2>2 DEF IsWellShaped
  <2>4. Compute(n, x) = y
    <3>1. CASE n.opcode = "CAST"
      BY <1>10, <2>1, <3>1, CastComputes
    <3>2. CASE n.opcode = "TRANSPOSE"
      <4>1. PICK dim : dim = Attribute(n, "dim0", 0)
        OBVIOUS
      <4>2. dim = Attribute(n, "dim1", 1)
        BY <1>1, <3>2, <4>1 DEF IsIdentity
      <4>3. Compute(n, x) = TransposeOf(y, dim, dim)
        BY <1>10, <2>1, <3>2, <4>1, <4>2, TransposeComputes
      <4> QED BY <2>3, <4>3, TransposeWithItself
    <3>3. CASE n.opcode = "PERMUTE"
      <4>1. PICK dims : dims = PermutedDims(n)
        OBVIOUS
      <4>2. \A k \in DOMAIN dims : dims[k] = k - 1
        BY <1>1, <3>3, <4>1 DEF IsIdentity
      <4>3. IsSequence(dims) /\ Len(dims) = Len(s)
        BY <1>1, <1>5, <2>2, <3>3, <4>1 DEF PermutesAll, RankOf
      <4>4. \A k \in 1 .. Len(s) : dims[k] = k - 1
        BY <4>2, <4>3 DEF IsSequence
      <4>5. Compute(n, x) = PermuteOf(y, dims)
        BY <1>10, <2>1, <3>3, <4>1, PermuteComputes
      <4>6. PermuteOf(y, dims) = y
        BY <2>3, <4>3, <4>4, PermuteInPlace
      <4> QED BY <4>5, <4>6
    <3> QED BY <1>2, <3>1, <3>2, <3>3
  <2> QED BY <1>1, <1>5, <1>7, <1>8, <1>9, <1>12, <2>1, <2>4
<1> QED BY <1>11, <1>12

\* The names of pruned results lead to the same values.
IsFaithful(V, remap) == \A t \in DOMAIN remap : Val(V, remap[t]) = Val(V, t)

\* Any name does, if those do.
LEMMA FaithfulNames ==
  ASSUME NEW V, NEW remap, IsFaithful(V, remap), NEW u
  PROVE  Val(V, Renamed(remap, u)) = Val(V, u)
BY DEF IsFaithful, Renamed

\* All names of the walk do.
LEMMA RemapsFaithful ==
  ASSUME NEW g, IsRegular(g), PermutesAll(g), NEW env, GivesInputs(env, g), NEW V, Solves(V, g, env),
         IsWellShaped(V, g), NEW prune, IsPrune(prune, g)
  PROVE  \A k \in 0 .. Len(g.nodes) : IsFaithful(V, prune[k].remap)
<1>1. Len(g.nodes) \in Nat
  BY RegularParts
<1> DEFINE Good == {k \in Nat : IsFaithful(V, prune[k].remap)}
<1>2. 0 \in Good
  <2>1. prune[0] = PruneStart(g)
    BY PruneSteps
  <2>2. DOMAIN prune[0].remap = {}
    BY <2>1 DEF PruneStart
  <2> QED BY <2>2 DEF IsFaithful
<1>3. ASSUME NEW n \in Nat, n < Len(g.nodes), n \in Good PROVE n + 1 \in Good
  <2>1. PICK k : k = n + 1
    OBVIOUS
  <2>2. k \in 1 .. Len(g.nodes) /\ k - 1 = n /\ k \in Nat
    BY <1>1, <1>3, <2>1
  <2>3. /\ IsPrunedAt(prune, g, k) => IsPrunedTo(prune[k - 1], g.nodes[k], prune[k])
        /\ ~IsPrunedAt(prune, g, k) => IsKeptTo(prune[k - 1], g.nodes[k], prune[k])
    BY <2>2, PruneStep
  <2>4. PICK before : before = prune[n].remap
    OBVIOUS
  <2>5. PICK after : after = prune[k].remap
    OBVIOUS
  <2>6. IsFaithful(V, before)
    BY <1>3, <2>4
  <2>7. CASE ~IsPrunedAt(prune, g, k)
    <3>1. after = before
      BY <2>2, <2>3, <2>4, <2>5, <2>7 DEF IsKeptTo
    <3> QED BY <2>1, <2>2, <2>5, <2>6, <3>1
  <2>8. CASE IsPrunedAt(prune, g, k)
    <3>1. PICK o : o = g.nodes[k].outputs[1]
      OBVIOUS
    <3>2. PICK u : u = Operand(g.nodes[k], 1)
      OBVIOUS
    <3>3. after = With(before, o, Renamed(before, u))
      BY <2>2, <2>3, <2>4, <2>5, <2>8, <3>1, <3>2 DEF IsPrunedTo
    <3>4. /\ DOMAIN after = DOMAIN before \cup {o} /\ after[o] = Renamed(before, u)
          /\ \A t \in DOMAIN before : t # o => after[t] = before[t]
      BY <3>3 DEF With
    <3>5. IsIdentity(prune[k - 1].graph, g.nodes[k])
      BY <2>8 DEF IsPrunedAt
    <3>6. Val(V, Result(g, k)) = Val(V, Operand(g.nodes[k], 1))
      BY <2>2, <3>5, IdentityValue
    <3>7. Val(V, o) = Val(V, u)
      BY <3>1, <3>2, <3>6 DEF Result
    <3>8. Val(V, Renamed(before, u)) = Val(V, u)
      BY <2>6, FaithfulNames
    <3>9. IsFaithful(V, after)
      BY <2>6, <3>4, <3>7, <3>8 DEF IsFaithful
    <3> QED BY <2>1, <2>2, <2>5, <3>9
  <2> QED BY <2>7, <2>8
<1>4. \A n \in 0 .. Len(g.nodes) : n \in Good
  <2>1. \A n \in Nat : n < Len(g.nodes) /\ n \in Good => n + 1 \in Good
    BY <1>3
  <2> HIDE DEF Good
  <2> QED BY <1>1, <1>2, <2>1, UpTo
<1> QED BY <1>4

\* The same operation computes the same.
LEMMA ComputeSame ==
  ASSUME NEW n, NEW r, r.opcode = n.opcode, r.attributes = n.attributes, NEW x
  PROVE  Compute(r, x) = Compute(n, x)
<1>1. \A key, default : Attribute(r, key, default) = Attribute(n, key, default)
  BY DEF Attribute
<1> QED BY <1>1 DEF Compute

\* An operation with renamed operands computes what it did.
LEMMA RenamedOutcome ==
  ASSUME NEW n, IsRegularOp(n), NEW V, NEW remap, IsFaithful(V, remap), NEW g, NEW env
  PROVE  Outcome(V, g, env, RenamedNode(remap, n)) = Outcome(V, g, env, n)
<1>1. PICK r : r = RenamedNode(remap, n)
  OBVIOUS
<1>2. OpFields \subseteq DOMAIN n
  BY DEF IsRegularOp, IsOp
<1>3. /\ r.outputs = n.outputs /\ r.opcode = n.opcode /\ r.attributes = n.attributes
      /\ r.inputs = [k \in DOMAIN n.inputs |-> Renamed(remap, n.inputs[k])]
  BY <1>1, <1>2 DEF RenamedNode, OpFields
<1>4. DOMAIN r.inputs = DOMAIN n.inputs
  BY <1>3
<1>5. \A k \in DOMAIN n.inputs : Val(V, r.inputs[k]) = Val(V, n.inputs[k])
  BY <1>3, FaithfulNames
<1>6. Args(V, r) = Args(V, n)
  BY <1>4, <1>5 DEF Args
<1>7. Known(V, r) <=> Known(V, n)
  BY <1>4, <1>5 DEF Known
<1>8. PICK x : x = Args(V, n)
  OBVIOUS
<1>9. Compute(r, x) = Compute(n, x)
  BY <1>3, ComputeSame
<1>10. Outcome(V, g, env, r) = Outcome(V, g, env, n)
  BY <1>3, <1>6, <1>7, <1>8, <1>9 DEF Outcome
<1> QED BY <1>1, <1>10

\* The pruning of casts and permutations that change nothing, on any regular graph
\* whose values have the declared shapes.
LEMMA PruningCorrect ==
  ASSUME NEW g, IsRegular(g), PermutesAll(g), NEW env, GivesInputs(env, g),
         IsWellShaped(Values(g, env), g)
  PROVE  Preserves(PrunedGraph(g), g, env)
<1>1. PICK h : h = PrunedGraph(g)
  OBVIOUS
<1>2. PICK prune, ops, X, src, place : IsPrunedGraph(h, g, prune, ops, X, src, place)
  BY <1>1, PruningIs
<1>3. IsPrune(prune, g) /\ IsRewriting(h, g) /\ X = Unpruned(prune, g)
  BY <1>2 DEF IsPrunedGraph
<1>4. PICK remap : remap = prune[Len(g.nodes)].remap
  OBVIOUS
<1>5. ops = RenamedOps(remap, g.nodes)
  BY <1>2, <1>4 DEF IsPrunedGraph
<1>6. Rearranges(g, ops, X, src) /\ ReadsBefore(g, ops, X) /\ IsListing(h.nodes, ops, X, place)
  BY <1>2 DEF IsPrunedGraph
<1>7. \A i \in X : IsNodeOf(g, ops[i])
  BY <1>2 DEF IsPrunedGraph
<1>8. PICK V : V = Values(g, env)
  OBVIOUS
<1>9. Solves(V, g, env) /\ IsWellShaped(V, g) /\ Len(g.nodes) \in Nat /\ DOMAIN g.nodes = 1 .. Len(g.nodes)
  BY <1>8, RegularParts, ValuesSolve
<1>10. IsFaithful(V, remap)
  <2>1. Len(g.nodes) \in 0 .. Len(g.nodes)
    BY <1>9
  <2> QED BY <1>3, <1>4, <1>9, <2>1, RemapsFaithful
<1>11. ASSUME NEW i \in X
       PROVE  /\ Val(V, ops[i].outputs[1]) = Outcome(V, g, env, ops[i])
              /\ ops[i].outputs = g.nodes[i].outputs
  <2>1. i \in 1 .. Len(g.nodes)
    BY <1>3 DEF Unpruned
  <2>2. ops[i] = RenamedNode(remap, g.nodes[i])
    BY <1>5, <1>9, <2>1 DEF RenamedOps
  <2>3. IsRegularOp(g.nodes[i])
    BY <2>1, RegularNode
  <2>4. Outcome(V, g, env, ops[i]) = Outcome(V, g, env, g.nodes[i])
    BY <1>10, <2>2, <2>3, RenamedOutcome
  <2>5. ops[i].outputs = g.nodes[i].outputs
    BY <2>2, <2>3, RenamedParts DEF IsRenaming
  <2>6. Val(V, g.nodes[i].outputs[1]) = Outcome(V, g, env, g.nodes[i])
    BY <1>9, <2>1 DEF Solves
  <2> QED BY <2>4, <2>5, <2>6
<1>12. Computes(V, g, env, ops, X)
  BY <1>11 DEF Computes
<1>13. ASSUME NEW t \in Range(g.outputs) PROVE ~IsLost(g, ops, X, t)
  <2>1. SUFFICES ASSUME IsLost(g, ops, X, t) PROVE FALSE
    OBVIOUS
  <2>2. PICK i \in 1 .. Len(g.nodes) : t = g.nodes[i].outputs[1]
    BY <2>1 DEF IsLost, IsResult
  <2>3. IsPrunedAt(prune, g, i)
    <3>1. SUFFICES ASSUME ~IsPrunedAt(prune, g, i) PROVE FALSE
      OBVIOUS
    <3>2. i \in X
      BY <1>3, <3>1 DEF Unpruned
    <3> QED BY <1>11, <2>1, <2>2, <3>2 DEF IsLost
  <2>4. ~IsOutputOrState(prune[i - 1].graph, t)
    BY <2>2, <2>3 DEF IsPrunedAt
  <2>5. IsPruneState(prune[i - 1], g)
    <3>1. i - 1 \in 0 .. Len(g.nodes)
      BY <1>9
    <3> QED BY <1>3, <3>1, PruneStates
  <2>6. prune[i - 1].graph.outputs = g.outputs
    BY <2>5 DEF IsPruneState, IsRewriting
  <2> QED BY <2>4, <2>6 DEF IsOutputOrState
<1>14. \A t \in Range(g.outputs) : ~IsLost(g, ops, X, t)
  BY <1>13
<1>15. Preserves(h, g, env)
  BY <1>3, <1>6, <1>7, <1>8, <1>12, <1>14, RewritingPreserves
<1> QED BY <1>1, <1>15

--------------------------------------------------------------------------------
(* What an unsqueeze, a transposition and a squeeze amount to                   *)

\* An index with one number more, below the dimension.
LEMMA LongerHas ==
  ASSUME NEW S, NEW d, NEW a \in S, NEW b \in 0 .. d - 1
  PROVE  Append(a, b) \in Longer(S, d)
BY DEF Longer

\* Numbers below the dimensions make an index.
LEMMA IndexFound ==
  ASSUME NEW shape \in Seq(Nat), NEW i, IsIndexOf(i, shape, Len(shape))
  PROVE  i \in Indices(shape)
<1>1. Len(shape) \in Nat
  OBVIOUS
<1>2. PICK upto : upto = CHOOSE f : IsIndexing(f, shape)
  OBVIOUS
<1>3. IsIndexing(upto, shape)
  BY <1>1, <1>2, IndexingDefined
<1>4. Indices(shape) = upto[Len(shape)]
  BY <1>2, IndicesAre
<1>5. upto[0] = {<<>>} /\ \A k \in 1 .. Len(shape) : upto[k] = Longer(upto[k - 1], shape[k])
  <2>1. upto = [k \in 0 .. Len(shape) |-> IF k = 0 THEN {<<>>} ELSE Longer(upto[k - 1], shape[k])]
    BY <1>3 DEF IsIndexing
  <2>2. upto[0] = {<<>>}
    BY <1>1, <2>1
  <2>3. ASSUME NEW k \in 1 .. Len(shape) PROVE upto[k] = Longer(upto[k - 1], shape[k])
    <3>1. k \in 0 .. Len(shape) /\ k # 0
      BY <1>1
    <3> QED BY <2>1, <3>1
  <2> QED BY <2>2, <2>3
<1> DEFINE Good == {n \in Nat : \A j : IsIndexOf(j, shape, n) => j \in upto[n]}
<1>6. 0 \in Good
  <2>1. ASSUME NEW j, IsIndexOf(j, shape, 0) PROVE j \in upto[0]
    <3>1. j \in Seq(Nat) /\ Len(j) = 0
      BY <2>1 DEF IsIndexOf
    <3>2. j = <<>>
      BY <3>1
    <3> QED BY <1>5, <3>2
  <2> QED BY <2>1
<1>7. ASSUME NEW n \in Nat, n < Len(shape), n \in Good PROVE n + 1 \in Good
  <2>1. PICK m : m = n + 1
    OBVIOUS
  <2>2. m \in 1 .. Len(shape) /\ m - 1 = n /\ m \in Nat
    BY <1>1, <1>7, <2>1
  <2>3. ASSUME NEW j, IsIndexOf(j, shape, m) PROVE j \in upto[m]
    <3>1. j \in Seq(Nat) /\ Len(j) = m /\ \A k \in 1 .. m : j[k] \in 0 .. shape[k] - 1
      BY <2>3 DEF IsIndexOf
    <3>2. PICK a : a = SubSeq(j, 1, n)
      OBVIOUS
    <3>3. a \in Seq(Nat) /\ Len(a) = n /\ \A k \in 1 .. n : a[k] = j[k]
      BY <2>1, <3>1, <3>2
    <3>4. \A k \in 1 .. n : k \in 1 .. m
      BY <2>1
    <3>5. IsIndexOf(a, shape, n)
      BY <3>1, <3>3, <3>4 DEF IsIndexOf
    <3>6. a \in upto[n]
      BY <1>7, <3>5
    <3>7. PICK b : b = j[m]
      OBVIOUS
    <3>8. m \in 1 .. m
      BY <2>2
    <3>9. b \in 0 .. shape[m] - 1
      BY <3>1, <3>7, <3>8
    <3>10. j = Append(a, b)
      BY <2>1, <3>1, <3>2, <3>7
    <3>11. j \in Longer(upto[n], shape[m])
      BY <3>6, <3>9, <3>10, LongerHas
    <3>12. upto[m] = Longer(upto[m - 1], shape[m])
      BY <1>5, <2>2
    <3> QED BY <2>2, <3>11, <3>12
  <2> QED BY <2>1, <2>2, <2>3
<1>8. \A n \in 0 .. Len(shape) : n \in Good
  <2>1. \A n \in Nat : n < Len(shape) /\ n \in Good => n + 1 \in Good
    BY <1>7
  <2> HIDE DEF Good
  <2> QED BY <1>1, <1>6, <2>1, UpTo
<1>9. Len(shape) \in Good
  <2>1. Len(shape) \in 0 .. Len(shape)
    BY <1>1
  <2> HIDE DEF Good
  <2> QED BY <1>8, <2>1
<1>10. \A j : IsIndexOf(j, shape, Len(shape)) => j \in upto[Len(shape)]
  BY <1>9
<1> QED BY <1>4, <1>10

\* Places beside a new one, and places when one is gone.
Open(s, k) == IF k < s THEN k ELSE k + 1
Closed(u, j) == IF j < u THEN j ELSE j - 1

\* A place beside the new one, and back.
LEMMA OpenIs ==
  ASSUME NEW n \in Nat, NEW u \in 1 .. n + 1, NEW k \in 1 .. n
  PROVE  Open(u, k) \in 1 .. n + 1 /\ Open(u, k) # u /\ Closed(u, Open(u, k)) = k
BY DEF Open, Closed

\* A place without the one that goes, and back.
LEMMA ClosedIs ==
  ASSUME NEW n \in Nat, NEW u \in 1 .. n + 1, NEW j \in 1 .. n + 1, j # u
  PROVE  Closed(u, j) \in 1 .. n /\ Open(u, Closed(u, j)) = j
BY DEF Open, Closed

WithOneLess(s, n, d) == [k \in 1 .. n |-> s[Open(d, k)]]

\* RemoveAt and the places beside the one that goes.
LEMMA RemoveAtIs ==
  ASSUME NEW S, NEW s \in Seq(S), NEW n \in Nat, Len(s) = n + 1, NEW d \in 1 .. n + 1
  PROVE  RemoveAt(s, d) = WithOneLess(s, n, d)
<1>1. PICK a : a = SubSeq(s, 1, d - 1)
  OBVIOUS
<1>2. PICK b : b = SubSeq(s, d + 1, Len(s))
  OBVIOUS
<1>3. a \in Seq(S) /\ Len(a) = d - 1 /\ \A k \in 1 .. d - 1 : a[k] = s[k]
  BY <1>1
<1>4. b \in Seq(S) /\ Len(b) = n + 1 - d /\ \A k \in 1 .. n + 1 - d : b[k] = s[d + k]
  BY SMTT(40), <1>2
<1>5. PICK c : c = a \o b
  OBVIOUS
<1>6. c \in Seq(S) /\ Len(c) = n
  <2>1. c \in Seq(S) /\ Len(c) = Len(a) + Len(b)
    BY <1>3, <1>4, <1>5, ConcatLen
  <2> QED BY <1>3, <1>4, <2>1
<1>7. ASSUME NEW k \in 1 .. n PROVE c[k] = s[Open(d, k)]
  <2>1. CASE k < d
    <3>1. k \in 1 .. d - 1
      BY <2>1
    <3>2. c[k] = a[k]
      BY <1>3, <1>4, <1>5, <3>1, ConcatLeft
    <3> QED BY <1>3, <2>1, <3>1, <3>2 DEF Open
  <2>2. CASE ~(k < d)
    <3>1. PICK j : j = k - (d - 1)
      OBVIOUS
    <3>2. j \in 1 .. n + 1 - d /\ k = Len(a) + j /\ d + j = k + 1
      BY <1>3, <2>2, <3>1
    <3>3. c[k] = b[j]
      BY <1>3, <1>4, <1>5, <3>2, ConcatRight
    <3> QED BY <1>4, <2>2, <3>2, <3>3 DEF Open
  <2> QED BY <2>1, <2>2
<1>8. c = [k \in 1 .. n |-> c[k]]
  BY <1>6
<1>9. RemoveAt(s, d) = c
  BY <1>1, <1>2, <1>5 DEF RemoveAt
<1> QED BY <1>7, <1>8, <1>9 DEF WithOneLess

WithOneMore(s, n, d, e) == [k \in 1 .. n + 1 |-> IF k = d THEN e ELSE s[Closed(d, k)]]

\* InsertAt and the places beside the new one.
LEMMA InsertAtIs ==
  ASSUME NEW S, NEW s \in Seq(S), NEW n \in Nat, Len(s) = n, NEW d \in 1 .. n + 1, NEW e \in S
  PROVE  InsertAt(s, d, e) = WithOneMore(s, n, d, e)
<1>1. PICK a : a = SubSeq(s, 1, d - 1)
  OBVIOUS
<1>2. PICK b : b = SubSeq(s, d, Len(s))
  OBVIOUS
<1>3. a \in Seq(S) /\ Len(a) = d - 1 /\ \A k \in 1 .. d - 1 : a[k] = s[k]
  BY <1>1
<1>4. b \in Seq(S) /\ Len(b) = n + 1 - d /\ \A k \in 1 .. n + 1 - d : b[k] = s[d + k - 1]
  BY <1>2
<1>5. PICK m : m = <<e>>
  OBVIOUS
<1>6. m \in Seq(S) /\ Len(m) = 1 /\ m[1] = e
  BY <1>5
<1>7. PICK am : am = a \o m
  OBVIOUS
<1>8. am \in Seq(S) /\ Len(am) = d /\ am[d] = e /\ \A k \in 1 .. d - 1 : am[k] = a[k]
  <2>1. am \in Seq(S) /\ Len(am) = Len(a) + Len(m)
    BY <1>3, <1>6, <1>7, ConcatLen
  <2>2. \A k \in 1 .. Len(a) : am[k] = a[k]
    BY <1>3, <1>6, <1>7, ConcatLeft
  <2>3. am[Len(a) + 1] = m[1]
    <3>1. PICK one : one = 1
      OBVIOUS
    <3>2. one \in 1 .. Len(m)
      BY <1>6, <3>1
    <3>3. am[Len(a) + one] = m[one]
      BY <1>3, <1>6, <1>7, <3>2, ConcatRight
    <3> QED BY <3>1, <3>3
  <2>4. Len(a) + 1 = d
    BY <1>3
  <2> QED BY <1>3, <1>6, <2>1, <2>2, <2>3, <2>4
<1>9. PICK c : c = am \o b
  OBVIOUS
<1>10. c \in Seq(S) /\ Len(c) = n + 1
  <2>1. c \in Seq(S) /\ Len(c) = Len(am) + Len(b)
    BY <1>4, <1>8, <1>9, ConcatLen
  <2> QED BY <1>4, <1>8, <2>1
<1>11. ASSUME NEW k \in 1 .. n + 1 PROVE c[k] = IF k = d THEN e ELSE s[Closed(d, k)]
  <2>1. CASE k < d
    <3>1. k \in 1 .. d - 1 /\ k \in 1 .. Len(am)
      BY <1>8, <2>1
    <3>2. c[k] = am[k]
      BY <1>4, <1>8, <1>9, <3>1, ConcatLeft
    <3> QED BY <1>3, <1>8, <2>1, <3>1, <3>2 DEF Closed
  <2>2. CASE k = d
    <3>1. k \in 1 .. Len(am)
      BY <1>8, <2>2
    <3>2. c[k] = am[k]
      BY <1>4, <1>8, <1>9, <3>1, ConcatLeft
    <3> QED BY <1>8, <2>2, <3>2
  <2>3. CASE k > d
    <3>1. PICK j : j = k - d
      OBVIOUS
    <3>2. j \in 1 .. n + 1 - d /\ k = Len(am) + j /\ d + j - 1 = k - 1
      BY <1>8, <2>3, <3>1
    <3>3. c[k] = b[j]
      BY <1>4, <1>8, <1>9, <3>2, ConcatRight
    <3> QED BY <1>4, <2>3, <3>2, <3>3 DEF Closed
  <2> QED BY <2>1, <2>2, <2>3
<1>12. c = [k \in 1 .. n + 1 |-> c[k]]
  BY <1>10
<1>13. InsertAt(s, d, e) = c
  BY <1>1, <1>2, <1>5, <1>7, <1>9 DEF InsertAt
<1> QED BY <1>11, <1>12, <1>13 DEF WithOneMore

Whence(p, n, d) == CHOOSE k \in 1 .. n : p[k] = d
Moved(p, n, i) == [d \in 1 .. n |-> i[Whence(p, n, d)]]
MovedShape(p, n, s) == [k \in 1 .. n |-> s[p[k]]]
MovedBy(p, n, x) ==
  [shape |-> MovedShape(p, n, x.shape),
   at |-> [i \in Indices(MovedShape(p, n, x.shape)) |-> x.at[Moved(p, n, i)]]]

\* Whence a place comes.
LEMMA WhenceIs ==
  ASSUME NEW n, NEW p, IsPermutation(p, n), NEW d \in 1 .. n
  PROVE  Whence(p, n, d) \in 1 .. n /\ p[Whence(p, n, d)] = d
BY DEF IsPermutation, Whence

\* And that it leads back.
LEMMA WhenceBack ==
  ASSUME NEW n, NEW p, IsPermutation(p, n), NEW k \in 1 .. n, NEW d \in 1 .. n, p[k] = d
  PROVE  Whence(p, n, d) = k
BY WhenceIs DEF IsPermutation

\* The order of the dimensions without the new one, which comes to place s from
\* place u.
Squeezed(p, n, u, s) == [k \in 1 .. n |-> Closed(u, p[Open(s, k)])]

\* Without one dimension, a permutation is one of the rest.
LEMMA SqueezedPermutes ==
  ASSUME NEW n \in Nat, NEW p, IsPermutation(p, n + 1), NEW s \in 1 .. n + 1, NEW u, u = p[s]
  PROVE  /\ u \in 1 .. n + 1 /\ IsPermutation(Squeezed(p, n, u, s), n)
         /\ \A k \in 1 .. n : /\ Open(s, k) \in 1 .. n + 1 /\ p[Open(s, k)] # u
                              /\ Open(u, Squeezed(p, n, u, s)[k]) = p[Open(s, k)]
<1>1. u \in 1 .. n + 1 /\ \A k \in 1 .. n + 1 : p[k] \in 1 .. n + 1
  BY DEF IsPermutation
<1>2. PICK q : q = Squeezed(p, n, u, s)
  OBVIOUS
<1>3. \A k \in 1 .. n : q[k] = Closed(u, p[Open(s, k)])
  BY <1>2 DEF Squeezed
<1>4. \A k \in 1 .. n : Open(s, k) \in 1 .. n + 1 /\ Open(s, k) # s /\ Closed(s, Open(s, k)) = k
  BY OpenIs
<1>5. \A k \in 1 .. n : p[Open(s, k)] \in 1 .. n + 1 /\ p[Open(s, k)] # u
  BY <1>1, <1>4 DEF IsPermutation
<1>6. \A k \in 1 .. n : q[k] \in 1 .. n /\ Open(u, q[k]) = p[Open(s, k)]
  <2> TAKE k \in 1 .. n
  <2>1. PICK j \in 1 .. n + 1 : j = p[Open(s, k)]
    BY <1>5
  <2>2. j # u
    BY <1>5, <2>1
  <2>3. Closed(u, j) \in 1 .. n /\ Open(u, Closed(u, j)) = j
    BY <1>1, <2>2, ClosedIs
  <2> QED BY <1>3, <2>1, <2>3
<1>7. ASSUME NEW j \in 1 .. n, NEW k \in 1 .. n, q[j] = q[k] PROVE j = k
  <2>1. p[Open(s, j)] = p[Open(s, k)]
    BY <1>6, <1>7
  <2>2. Open(s, j) = Open(s, k)
    BY <1>4, <2>1 DEF IsPermutation
  <2> QED BY <1>4, <2>2
<1>8. ASSUME NEW d \in 1 .. n PROVE \E k \in 1 .. n : q[k] = d
  <2>1. Open(u, d) \in 1 .. n + 1 /\ Open(u, d) # u /\ Closed(u, Open(u, d)) = d
    BY <1>1, OpenIs
  <2>2. PICK r \in 1 .. n + 1 : p[r] = Open(u, d)
    BY <2>1 DEF IsPermutation
  <2>3. r # s
    BY <2>1, <2>2
  <2>4. Closed(s, r) \in 1 .. n /\ Open(s, Closed(s, r)) = r
    BY <2>3, ClosedIs
  <2>5. q[Closed(s, r)] = d
    BY <1>3, <2>1, <2>2, <2>4
  <2> QED BY <2>4, <2>5
<1>9. IsPermutation(q, n)
  BY <1>6, <1>7, <1>8 DEF IsPermutation
<1> QED BY <1>1, <1>2, <1>4, <1>5, <1>6, <1>9

\* A tensor with a dimension of 1 more at place d, and with one less.
Opened(x, n, d) ==
  [shape |-> WithOneMore(x.shape, n, d, 1),
   at |-> [i \in Indices(WithOneMore(x.shape, n, d, 1)) |-> x.at[RemoveAt(i, d)]]]

\* What an unsqueeze gives.
LEMMA UnsqueezeIs ==
  ASSUME NEW x, NEW n \in Nat, x.shape \in Seq(Nat), Len(x.shape) = n,
         NEW dim, NEW d \in 1 .. n + 1, d = Axis(dim, n + 1)
  PROVE  UnsqueezeOf(x, dim) = Opened(x, n, d)
<1>1. PICK s \in Seq(Nat) : s = x.shape
  OBVIOUS
<1>2. InsertAt(s, d, 1) = WithOneMore(s, n, d, 1)
  <2>1. PICK e \in Nat : e = 1
    OBVIOUS
  <2>2. InsertAt(s, d, e) = WithOneMore(s, n, d, e)
    BY <1>1, InsertAtIs
  <2> QED BY <2>1, <2>2
<1>3. PICK t : t = InsertAt(s, d, 1)
  OBVIOUS
<1>4. UnsqueezeOf(x, dim) = [shape |-> t, at |-> [i \in Indices(t) |-> x.at[RemoveAt(i, d)]]]
  BY <1>1, <1>3 DEF UnsqueezeOf, Rank, Tensor, Tabulated
<1>5. t = WithOneMore(x.shape, n, d, 1)
  BY <1>1, <1>2, <1>3
<1> QED BY <1>4, <1>5 DEF Opened

Shut(x, n, d) ==
  [shape |-> WithOneLess(x.shape, n, d),
   at |-> [i \in Indices(WithOneLess(x.shape, n, d)) |-> x.at[InsertAt(i, d, 0)]]]

\* What a squeeze gives.
LEMMA SqueezeIs ==
  ASSUME NEW x, NEW n \in Nat, x.shape \in Seq(Nat), Len(x.shape) = n + 1,
         NEW dim, NEW d \in 1 .. n + 1, d = Axis(dim, n + 1), x.shape[d] = 1
  PROVE  SqueezeOf(x, dim) = Shut(x, n, d)
<1>1. PICK s \in Seq(Nat) : s = x.shape
  OBVIOUS
<1>2. RemoveAt(s, d) = WithOneLess(s, n, d)
  BY <1>1, RemoveAtIs
<1>3. PICK e : e = Axis(dim, Rank(x))
  OBVIOUS
<1>4. e = d /\ x.shape[e] = 1
  BY <1>3 DEF Rank
<1>5. SqueezeOf(x, dim) = [shape |-> RemoveAt(s, d), at |-> [i \in Indices(RemoveAt(s, d)) |-> x.at[InsertAt(i, d, 0)]]]
  BY <1>1, <1>3, <1>4 DEF SqueezeOf, Tensor, Tabulated
<1> QED BY <1>1, <1>2, <1>5 DEF Shut

\* A function of the first n numbers is a sequence.
LEMMA SequenceIs ==
  ASSUME NEW S, NEW n \in Nat, NEW s, s = [k \in 1 .. n |-> s[k]], \A k \in 1 .. n : s[k] \in S
  PROVE  s \in Seq(S) /\ Len(s) = n
OBVIOUS

\* A tensor y of n dimensions that has been given one more, at u, and moved by p,
\* which leaves that dimension at s.
IsOpenedAndMoved(y, n, p, s, u, x, z, dim) ==
  /\ y.shape \in Seq(Nat) /\ Len(y.shape) = n /\ n \in Nat
  /\ IsPermutation(p, n + 1) /\ s \in 1 .. n + 1 /\ u = p[s]
  /\ x = Opened(y, n, u) /\ z = MovedBy(p, n + 1, x) /\ s = Axis(dim, n + 1)

\* To add a dimension, move all, and take it away is to move the others.
LEMMA SqueezedMove ==
  ASSUME NEW y, NEW n, NEW p, NEW s, NEW u, NEW x, NEW z, NEW dim,
         IsOpenedAndMoved(y, n, p, s, u, x, z, dim)
  PROVE  SqueezeOf(z, dim) = MovedBy(Squeezed(p, n, u, s), n, y)
<1>0. /\ y.shape \in Seq(Nat) /\ Len(y.shape) = n /\ n \in Nat
      /\ IsPermutation(p, n + 1) /\ s \in 1 .. n + 1 /\ u = p[s]
      /\ x = Opened(y, n, u) /\ z = MovedBy(p, n + 1, x) /\ s = Axis(dim, n + 1)
  BY DEF IsOpenedAndMoved
<1>1. PICK q : q = Squeezed(p, n, u, s)
  BY <1>0
<1>2. /\ u \in 1 .. n + 1 /\ IsPermutation(q, n)
      /\ \A k \in 1 .. n : /\ Open(s, k) \in 1 .. n + 1 /\ p[Open(s, k)] # u
                           /\ Open(u, q[k]) = p[Open(s, k)]
  BY <1>0, <1>1, SqueezedPermutes
<1>3. PICK a \in Seq(Nat) : a = y.shape
  BY <1>0
<1>4. Len(a) = n /\ \A k \in 1 .. n : a[k] \in Nat
  BY <1>0, <1>3
<1>5. PICK b : b = x.shape
  BY <1>0
<1>6. b = WithOneMore(a, n, u, 1)
  BY <1>0, <1>3, <1>5 DEF Opened
<1>7. ASSUME NEW k \in 1 .. n + 1
      PROVE  b[k] \in Nat /\ (k = u => b[k] = 1) /\ (k # u => b[k] = a[Closed(u, k)])
  <2>1. b[k] = IF k = u THEN 1 ELSE a[Closed(u, k)]
    BY <1>0, <1>6 DEF WithOneMore
  <2>2. CASE k = u
    BY <1>0, <2>1, <2>2
  <2>3. CASE k # u
    <3>1. Closed(u, k) \in 1 .. n
      BY <1>0, <1>2, <2>3, ClosedIs
    <3> QED BY <1>0, <1>4, <2>1, <2>3, <3>1
  <2> QED BY <1>0, <2>2, <2>3
<1>8. b \in Seq(Nat) /\ Len(b) = n + 1
  <2>1. b = [k \in 1 .. n + 1 |-> b[k]]
    BY <1>0, <1>6 DEF WithOneMore
  <2>2. \A k \in 1 .. n + 1 : b[k] \in Nat
    BY <1>0, <1>7
  <2>3. PICK N \in Nat : N = n + 1
    BY <1>0
  <2>4. b = [k \in 1 .. N |-> b[k]] /\ \A k \in 1 .. N : b[k] \in Nat
    BY <1>0, <2>1, <2>2, <2>3
  <2>5. b \in Seq(Nat) /\ Len(b) = N
    BY <1>0, <2>4, SequenceIs
  <2> QED BY <1>0, <2>3, <2>5
<1>9. PICK c : c = z.shape
  BY <1>0
<1>10. c = [k \in 1 .. n + 1 |-> b[p[k]]]
  BY <1>0, <1>5, <1>9 DEF MovedBy, MovedShape
<1>11. \A k \in 1 .. n + 1 : p[k] \in 1 .. n + 1 /\ c[k] = b[p[k]] /\ c[k] \in Nat
  BY <1>0, <1>7, <1>10 DEF IsPermutation
<1>12. c \in Seq(Nat) /\ Len(c) = n + 1
  <2>1. c = [k \in 1 .. n + 1 |-> c[k]]
    BY <1>0, <1>10
  <2>3. PICK N \in Nat : N = n + 1
    BY <1>0
  <2>4. c = [k \in 1 .. N |-> c[k]] /\ \A k \in 1 .. N : c[k] \in Nat
    BY <1>0, <1>11, <2>1, <2>3
  <2>5. c \in Seq(Nat) /\ Len(c) = N
    BY <1>0, <2>4, SequenceIs
  <2> QED BY <1>0, <2>3, <2>5
<1>13. c[s] = 1
  <2>1. b[u] = 1
    BY <1>0, <1>2, <1>7
  <2>2. c[s] = b[p[s]]
    BY <1>0, <1>11
  <2> QED BY <1>0, <2>1, <2>2
<1>14. PICK t : t = WithOneLess(c, n, s)
  BY <1>0
<1>15. SqueezeOf(z, dim) = [shape |-> t, at |-> [i \in Indices(t) |-> z.at[InsertAt(i, s, 0)]]]
  <2>1. z.shape \in Seq(Nat)
    BY <1>0, <1>9, <1>12
  <2>3. Len(z.shape) = n + 1
    BY <1>0, <1>9, <1>12
  <2>4. z.shape[s] = 1
    BY <1>0, <1>9, <1>13
  <2>5. n \in Nat /\ s \in 1 .. n + 1
    BY <1>0
  <2>6. s = Axis(dim, n + 1)
    BY <1>0
  <2>2. SqueezeOf(z, dim) = Shut(z, n, s)
    BY ONLY <2>1, <2>3, <2>4, <2>5, <2>6, SqueezeIs
  <2> QED BY <1>0, <1>9, <1>14, <2>2 DEF Shut
<1>16. ASSUME NEW k \in 1 .. n PROVE t[k] = a[q[k]] /\ t[k] = c[Open(s, k)] /\ t[k] \in Nat
  <2>1. t[k] = c[Open(s, k)]
    BY <1>0, <1>14 DEF WithOneLess
  <2>2. PICK j \in 1 .. n + 1 : j = p[Open(s, k)]
    BY <1>0, <1>2, <1>11
  <2>3. c[Open(s, k)] = b[j]
    BY <1>0, <1>2, <1>11, <2>2
  <2>4. b[j] = a[Closed(u, j)]
    BY <1>0, <1>2, <1>7, <2>2
  <2>5. q[k] = Closed(u, j)
    BY <1>0, <1>1, <2>2 DEF Squeezed
  <2>6. q[k] \in 1 .. n
    BY <1>0, <1>2 DEF IsPermutation
  <2> QED BY <1>0, <1>4, <2>1, <2>3, <2>4, <2>5, <2>6
<1>17. t = MovedShape(q, n, a)
  <2>1. t = [k \in 1 .. n |-> t[k]]
    BY <1>0, <1>14 DEF WithOneLess
  <2> QED BY <1>0, <1>16, <2>1 DEF MovedShape
<1>18. t \in Seq(Nat) /\ Len(t) = n
  <2>1. t = [k \in 1 .. n |-> t[k]]
    BY <1>0, <1>14 DEF WithOneLess
  <2>2. \A k \in 1 .. n : t[k] \in Nat
    BY <1>0, <1>16
  <2> QED BY <1>0, <2>1, <2>2, SequenceIs
<1>19. ASSUME NEW i \in Indices(t) PROVE z.at[InsertAt(i, s, 0)] = y.at[Moved(q, n, i)]
  <2>1. i \in Seq(Nat) /\ Len(i) = n /\ \A k \in 1 .. n : i[k] \in 0 .. t[k] - 1
    BY <1>0, <1>18, IndexIs DEF IsIndexOf
  <2>2. PICK j : j = InsertAt(i, s, 0)
    BY <1>0
  <2>3. j = WithOneMore(i, n, s, 0)
    <3>1. PICK e \in Nat : e = 0
      BY <1>0
    <3>2. InsertAt(i, s, e) = WithOneMore(i, n, s, e)
      BY <1>0, <2>1, InsertAtIs
    <3> QED BY <1>0, <2>2, <3>1, <3>2
  <2>4. ASSUME NEW k \in 1 .. n + 1
        PROVE  /\ j[k] \in 0 .. c[k] - 1 /\ j[k] \in Nat
               /\ k # s => j[k] = i[Closed(s, k)] /\ Closed(s, k) \in 1 .. n
    <3>1. j[k] = IF k = s THEN 0 ELSE i[Closed(s, k)]
      BY <1>0, <2>3 DEF WithOneMore
    <3>2. CASE k = s
      BY <1>0, <1>13, <3>1, <3>2
    <3>3. CASE k # s
      <4>1. PICK m \in 1 .. n : m = Closed(s, k) /\ Open(s, m) = k
        BY <1>0, <3>3, ClosedIs
      <4>2. i[m] \in 0 .. t[m] - 1 /\ t[m] = c[k]
        BY <1>0, <1>16, <2>1, <4>1
      <4>3. c[k] \in Nat
        BY <1>0, <1>11
      <4> QED BY <1>0, <3>1, <3>3, <4>1, <4>2, <4>3
    <3> QED BY <1>0, <3>2, <3>3
  <2>5. IsIndexOf(j, c, n + 1)
    <3>1. j = [k \in 1 .. n + 1 |-> j[k]]
      BY <1>0, <2>3 DEF WithOneMore
    <3>2. \A k \in 1 .. n + 1 : j[k] \in Nat
      BY <1>0, <2>4
    <3>3. j \in Seq(Nat) /\ Len(j) = n + 1
      <4>1. PICK N \in Nat : N = n + 1
        BY <1>0
      <4>2. j = [k \in 1 .. N |-> j[k]] /\ \A k \in 1 .. N : j[k] \in Nat
        BY <1>0, <3>1, <3>2, <4>1
      <4>3. j \in Seq(Nat) /\ Len(j) = N
        BY <1>0, <4>2, SequenceIs
      <4> QED BY <1>0, <4>1, <4>3
    <3> QED BY <1>0, <2>4, <3>3 DEF IsIndexOf
  <2>6. j \in Indices(c)
    BY <1>0, <1>12, <2>5, IndexFound
  <2>7. PICK m : m = Moved(p, n + 1, j)
    BY <1>0
  <2>8. z.at[j] = x.at[m]
    BY <1>0, <1>5, <1>9, <2>6, <2>7 DEF MovedBy
  <2>9. ASSUME NEW d \in 1 .. n + 1
        PROVE  /\ Whence(p, n + 1, d) \in 1 .. n + 1 /\ p[Whence(p, n + 1, d)] = d
               /\ m[d] = j[Whence(p, n + 1, d)] /\ m[d] \in 0 .. b[d] - 1 /\ m[d] \in Nat
    <3>1. PICK r : r = Whence(p, n + 1, d)
      BY <1>0
    <3>2. r \in 1 .. n + 1 /\ p[r] = d
      BY <1>0, <3>1, WhenceIs
    <3>3. m[d] = j[r]
      BY <1>0, <2>7, <3>1 DEF Moved
    <3>4. c[r] = b[d]
      BY <1>0, <1>11, <3>2
    <3> QED BY <1>0, <2>4, <3>1, <3>2, <3>3, <3>4
  <2>10. m = [d \in 1 .. n + 1 |-> m[d]]
    BY <1>0, <2>7 DEF Moved
  <2>11. m \in Seq(Nat) /\ Len(m) = n + 1
    <3>1. \A d \in 1 .. n + 1 : m[d] \in Nat
      BY <1>0, <2>9
    <3>2. PICK N \in Nat : N = n + 1
      BY <1>0
    <3>3. m = [k \in 1 .. N |-> m[k]] /\ \A k \in 1 .. N : m[k] \in Nat
      BY <1>0, <2>10, <3>1, <3>2
    <3>4. m \in Seq(Nat) /\ Len(m) = N
      BY <1>0, <3>3, SequenceIs
    <3> QED BY <1>0, <3>2, <3>4
  <2>12. m \in Indices(b)
    <3>1. IsIndexOf(m, b, n + 1)
      BY <1>0, <2>9, <2>11 DEF IsIndexOf
    <3> QED BY <1>0, <1>8, <3>1, IndexFound
  <2>13. x.at[m] = y.at[RemoveAt(m, u)]
    BY <1>0, <1>3, <1>5, <1>6, <2>12 DEF Opened
  <2>14. RemoveAt(m, u) = WithOneLess(m, n, u)
    BY <1>0, <1>2, <2>11, RemoveAtIs
  <2>15. ASSUME NEW d \in 1 .. n PROVE m[Open(u, d)] = i[Whence(q, n, d)]
    <3>1. PICK k : k = Whence(q, n, d)
      BY <1>0
    <3>2. k \in 1 .. n /\ q[k] = d
      <4>1. Whence(q, n, d) \in 1 .. n /\ q[Whence(q, n, d)] = d
        BY <1>0, <1>2, WhenceIs
      <4> QED BY <1>0, <3>1, <4>1
    <3>3. PICK r : r = Open(s, k)
      BY <1>0
    <3>4. r \in 1 .. n + 1 /\ r # s /\ Closed(s, r) = k
      BY <1>0, <3>2, <3>3, OpenIs
    <3>5. p[r] = Open(u, d) /\ Open(u, d) \in 1 .. n + 1
      BY <1>0, <1>2, <1>11, <3>2, <3>3, <3>4
    <3>6. Whence(p, n + 1, Open(u, d)) = r
      <4>1. PICK N : N = n + 1
        OBVIOUS
      <4>2. IsPermutation(p, N) /\ r \in 1 .. N /\ Open(u, d) \in 1 .. N
        BY <1>0, <3>4, <3>5, <4>1
      <4>3. Whence(p, N, Open(u, d)) = r
        BY ONLY <3>5, <4>2, WhenceBack
      <4> QED BY <4>1, <4>3
    <3>7. m[Open(u, d)] = j[r]
      BY <1>0, <2>9, <3>5, <3>6
    <3>8. j[r] = i[k]
      BY <1>0, <2>4, <3>4
    <3> QED BY <1>0, <3>1, <3>7, <3>8
  <2>16. WithOneLess(m, n, u) = Moved(q, n, i)
    BY <1>0, <2>15 DEF WithOneLess, Moved
  <2> QED BY <1>0, <2>2, <2>8, <2>13, <2>14, <2>16
<1>20. MovedBy(q, n, y) = [shape |-> t, at |-> [i \in Indices(t) |-> y.at[Moved(q, n, i)]]]
  BY <1>0, <1>3, <1>17 DEF MovedBy
<1>21. [i \in Indices(t) |-> z.at[InsertAt(i, s, 0)]] = [i \in Indices(t) |-> y.at[Moved(q, n, i)]]
  BY <1>0, <1>19
<1> QED BY <1>0, <1>1, <1>15, <1>20, <1>21

\* A permutation moves so.
LEMMA PermuteMoves ==
  ASSUME NEW x, NEW n \in Nat, Rank(x) = n, NEW dims, Len(dims) = n,
         NEW p, p = [k \in 1 .. n |-> Axis(dims[k], n)]
  PROVE  PermuteOf(x, dims) = MovedBy(p, n, x)
<1>1. PICK shape : shape = MovedShape(p, n, x.shape)
  OBVIOUS
<1>2. shape = [k \in 1 .. n |-> x.shape[Axis(dims[k], n)]]
  BY <1>1 DEF MovedShape
<1>3. \A i : Moved(p, n, i) = Fetched(n, dims, i)
  <2>1. \A d : Whence(p, n, d) = CHOOSE k \in 1 .. n : Axis(dims[k], n) = d
    BY DEF Whence
  <2>2. \A i : Moved(p, n, i) = [d \in 1 .. n |-> i[CHOOSE k \in 1 .. n : Axis(dims[k], n) = d]]
    BY ZenonT(40), <2>1 DEF Moved
  <2> QED BY <2>2 DEF Fetched
<1>4. PermuteOf(x, dims) = [shape |-> shape, at |-> [i \in Indices(shape) |-> x.at[Moved(p, n, i)]]]
  <2>1. shape = TurnedShape(x, n, dims)
    BY <1>2 DEF TurnedShape
  <2>2. PermuteOf(x, dims) = TurnedAround(x, n, dims, shape)
    BY <2>1, PermuteIs
  <2> QED BY <1>3, <2>2 DEF TurnedAround
<1> QED BY <1>1, <1>4 DEF MovedBy

\* Two dimensions that change places.
Swap(n, d, e) == [k \in 1 .. n |-> IF k = d THEN e ELSE IF k = e THEN d ELSE k]

\* A swap is a permutation.
LEMMA SwapPermutes ==
  ASSUME NEW n \in Nat, NEW d \in 1 .. n, NEW e \in 1 .. n
  PROVE  IsPermutation(Swap(n, d, e), n)
<1>1. PICK p : p = Swap(n, d, e)
  OBVIOUS
<1>2. \A k \in 1 .. n : p[k] = IF k = d THEN e ELSE IF k = e THEN d ELSE k
  BY <1>1 DEF Swap
<1>3. \A k \in 1 .. n : p[k] \in 1 .. n /\ p[p[k]] = k
  BY <1>2
<1> QED BY <1>1, <1>3 DEF IsPermutation

\* Swapping two elements.
LEMMA SwapAtIs ==
  ASSUME NEW s, NEW n \in Nat, s = [k \in 1 .. n |-> s[k]], NEW d \in 1 .. n, NEW e \in 1 .. n
  PROVE  SwapAt(s, d, e) = MovedShape(Swap(n, d, e), n, s)
<1>1. \A k \in 1 .. n : Swap(n, d, e)[k] = IF k = d THEN e ELSE IF k = e THEN d ELSE k
  BY DEF Swap
<1>2. PICK t : t = SwapAt(s, d, e)
  OBVIOUS
<1>3. t = [[s EXCEPT ![d] = s[e]] EXCEPT ![e] = s[d]] /\ DOMAIN s = 1 .. n
  BY <1>2 DEF SwapAt
<1>4. t = [k \in 1 .. n |-> t[k]]
  BY <1>3
<1>5. \A k \in 1 .. n : t[k] = IF k = e THEN s[d] ELSE IF k = d THEN s[e] ELSE s[k]
  BY <1>3
<1>6. \A k \in 1 .. n : t[k] = s[Swap(n, d, e)[k]]
  BY <1>1, <1>5
<1> QED BY <1>2, <1>4, <1>6 DEF MovedShape

\* A transposition moves so.
LEMMA TransposeMoves ==
  ASSUME NEW x, NEW n \in Nat, x.shape \in Seq(Nat), Len(x.shape) = n, NEW dim0, NEW dim1,
         NEW d \in 1 .. n, NEW e \in 1 .. n, d = Axis(dim0, n), e = Axis(dim1, n)
  PROVE  TransposeOf(x, dim0, dim1) = MovedBy(Swap(n, d, e), n, x)
<1>1. PICK p : p = Swap(n, d, e)
  OBVIOUS
<1>2. IsPermutation(p, n) /\ \A k \in 1 .. n : p[k] = IF k = d THEN e ELSE IF k = e THEN d ELSE k
  BY <1>1, SwapPermutes DEF Swap
<1>3. \A k \in 1 .. n : Whence(p, n, k) = p[k]
  <2>1. \A k \in 1 .. n : p[k] \in 1 .. n /\ p[p[k]] = k
    BY <1>2
  <2>2. ASSUME NEW k \in 1 .. n PROVE Whence(p, n, k) = p[k]
    <3>1. PICK j \in 1 .. n : j = p[k] /\ p[j] = k
      BY <2>1
    <3>2. Whence(p, n, k) = j
      BY <1>2, <3>1, WhenceBack
    <3> QED BY <3>1, <3>2
  <2> QED BY <2>2
<1>4. PICK s \in Seq(Nat) : s = x.shape
  OBVIOUS
<1>5. SwapAt(s, d, e) = MovedShape(p, n, s)
  <2>1. s \in [1 .. n -> Nat]
    BY <1>4
  <2>2. s = [k \in 1 .. n |-> s[k]]
    BY ONLY <2>1
  <2> QED BY <1>1, <2>2, SwapAtIs
<1>6. PICK t : t = MovedShape(p, n, s)
  OBVIOUS
<1>7. t \in Seq(Nat) /\ Len(t) = n
  <2>1. t = [k \in 1 .. n |-> s[p[k]]] /\ \A k \in 1 .. n : s[p[k]] \in Nat
    BY <1>2, <1>4, <1>6 DEF MovedShape
  <2> QED BY <2>1
<1>8. ASSUME NEW i \in Indices(t) PROVE SwapAt(i, d, e) = Moved(p, n, i)
  <2>1. i \in Seq(Nat) /\ Len(i) = n
    BY <1>7, IndexIs DEF IsIndexOf
  <2>2. i = [k \in 1 .. n |-> i[k]]
    <3>1. i \in [1 .. n -> Nat]
      BY <2>1
    <3> QED BY ONLY <3>1
  <2>3. SwapAt(i, d, e) = [k \in 1 .. n |-> i[p[k]]]
    <3>1. SwapAt(i, d, e) = MovedShape(p, n, i)
      BY SMTT(40), <1>1, <2>2, SwapAtIs
    <3> QED BY <3>1 DEF MovedShape
  <2> QED BY <1>3, <2>3 DEF Moved
<1>9. TransposeOf(x, dim0, dim1) = [shape |-> t, at |-> [i \in Indices(t) |-> x.at[SwapAt(i, d, e)]]]
  BY <1>4, <1>5, <1>6 DEF TransposeOf, Rank, Tensor, Tabulated
<1>10. [i \in Indices(t) |-> x.at[SwapAt(i, d, e)]] = [i \in Indices(t) |-> x.at[Moved(p, n, i)]]
  BY <1>8
<1> QED BY <1>1, <1>4, <1>6, <1>9, <1>10 DEF MovedBy

\* Where dimensions are there, permutations name as many as there are.
LEMMA NamesAxesPermutes ==
  ASSUME NEW g, NamesAxes(g)
  PROVE  PermutesAll(g)
BY DEF NamesAxes, NamesAxesAt, PermutesAll

\* Whence the dimensions come that a transposition of r dimensions moves.
Order(n, r) ==
  IF n.opcode = "TRANSPOSE"
  THEN Swap(r, Axis(Attribute(n, "dim0", 0), r), Axis(Attribute(n, "dim1", 1), r))
  ELSE [k \in 1 .. r |-> Axis(PermutedDims(n)[k], r)]

\* That order is a permutation.
LEMMA OrderPermutes ==
  ASSUME NEW g, NEW n, n.opcode \in {"TRANSPOSE", "PERMUTE"}, NEW r \in Nat, NamesAxesAt(g, n, r)
  PROVE  IsPermutation(Order(n, r), r)
<1>1. CASE n.opcode = "TRANSPOSE"
  <2>1. PICK d : d = Axis(Attribute(n, "dim0", 0), r)
    OBVIOUS
  <2>2. PICK e : e = Axis(Attribute(n, "dim1", 1), r)
    OBVIOUS
  <2>3. d \in 1 .. r /\ e \in 1 .. r
    BY <1>1, <2>1, <2>2 DEF NamesAxesAt
  <2>4. IsPermutation(Swap(r, d, e), r)
    BY <2>3, SwapPermutes
  <2> QED BY <1>1, <2>1, <2>2, <2>4 DEF Order
<1>2. CASE n.opcode = "PERMUTE"
  BY <1>2 DEF Order, NamesAxesAt
<1> QED BY <1>1, <1>2

\* What the move computes.
LEMMA MoveComputes ==
  ASSUME NEW g, NEW n, n.opcode \in {"TRANSPOSE", "PERMUTE"}, NEW r \in Nat, NamesAxesAt(g, n, r),
         NEW x, NEW y, x[1] = y, y.shape \in Seq(Nat), Len(y.shape) = r
  PROVE  Compute(n, x) = MovedBy(Order(n, r), r, y)
<1>1. CASE n.opcode = "TRANSPOSE"
  <2>1. PICK dim0 : dim0 = Attribute(n, "dim0", 0)
    OBVIOUS
  <2>2. PICK dim1 : dim1 = Attribute(n, "dim1", 1)
    OBVIOUS
  <2>3. PICK d \in 1 .. r : d = Axis(dim0, r)
    BY <1>1, <2>1 DEF NamesAxesAt
  <2>4. PICK e \in 1 .. r : e = Axis(dim1, r)
    BY <1>1, <2>2 DEF NamesAxesAt
  <2>5. Compute(n, x) = TransposeOf(y, dim0, dim1)
    BY <1>1, <2>1, <2>2, TransposeComputes
  <2>6. TransposeOf(y, dim0, dim1) = MovedBy(Swap(r, d, e), r, y)
    BY <2>3, <2>4, TransposeMoves
  <2> QED BY <1>1, <2>1, <2>2, <2>3, <2>4, <2>5, <2>6 DEF Order
<1>2. CASE n.opcode = "PERMUTE"
  <2>1. PICK dims : dims = PermutedDims(n)
    OBVIOUS
  <2>2. PICK p : p = [k \in 1 .. r |-> Axis(dims[k], r)]
    OBVIOUS
  <2>3. Len(dims) = r
    BY <1>2, <2>1 DEF NamesAxesAt
  <2>4. Rank(y) = r
    BY DEF Rank
  <2>5. Compute(n, x) = PermuteOf(y, dims)
    BY <1>2, <2>1, PermuteComputes
  <2>6. PermuteOf(y, dims) = MovedBy(p, r, y)
    BY <2>2, <2>3, <2>4, PermuteMoves
  <2>7. p = Order(n, r)
    BY <1>2, <2>1, <2>2 DEF Order
  <2> QED BY <2>5, <2>6, <2>7
<1> QED BY <1>1, <1>2

\* The dimensions of the pattern: a new one at place u, and then all moved.
LEMMA DimsMoved ==
  ASSUME NEW g, NEW a, NEW m, m.opcode \in {"TRANSPOSE", "PERMUTE"},
         NEW n \in Nat, n = RankOf(g, Operand(a, 1)), NamesAxesAt(g, m, n + 1),
         NEW u \in 1 .. n + 1, u = Axis(Attribute(a, "dim", 0), n + 1),
         NEW k \in 1 .. n + 1, NEW p, p = Order(m, n + 1)
  PROVE  /\ Len(DimsOfPattern(g, a, m)) = n + 1 /\ IsSequence(DimsOfPattern(g, a, m))
         /\ p[k] = u => DimsOfPattern(g, a, m)[k] = -1
         /\ p[k] # u => DimsOfPattern(g, a, m)[k] = Closed(u, p[k]) - 1
<1>1. PICK N \in Nat : N = n + 1
  OBVIOUS
<1>2. PICK id : id = [j \in 1 .. n |-> j - 1]
  OBVIOUS
<1>3. id \in Seq(Int) /\ Len(id) = n
  BY <1>2
<1>4. PICK e \in Int : e = -1
  OBVIOUS
<1>5. PICK inserted : inserted = InsertAt(id, u, e)
  OBVIOUS
<1>6. inserted = WithOneMore(id, n, u, e)
  BY <1>3, <1>5, InsertAtIs
<1>7. IsPermutation(p, N)
  BY <1>1, OrderPermutes
<1>8. ASSUME NEW j \in 1 .. N
      PROVE  /\ inserted[j] \in Int /\ (j = u => inserted[j] = -1)
             /\ (j # u => inserted[j] = Closed(u, j) - 1)
  <2>1. inserted[j] = IF j = u THEN e ELSE id[Closed(u, j)]
    BY <1>1, <1>6 DEF WithOneMore
  <2>2. CASE j = u
    BY <1>4, <2>1, <2>2
  <2>3. CASE j # u
    <3>1. j \in 1 .. n + 1
      BY <1>1
    <3>2. PICK i \in 1 .. n : i = Closed(u, j)
      BY <2>3, <3>1, ClosedIs
    <3>3. id[i] = i - 1
      BY <1>2
    <3> QED BY <2>1, <2>3, <3>2, <3>3
  <2> QED BY <2>2, <2>3
<1>9. inserted = [j \in 1 .. N |-> inserted[j]]
  BY <1>1, <1>6 DEF WithOneMore
<1>10. PICK dims : dims = MovedShape(p, N, inserted)
  OBVIOUS
<1>11. DimsOfPattern(g, a, m) = dims
  <2>1. CASE m.opcode = "TRANSPOSE"
    <3>1. PICK d \in 1 .. N : d = Axis(Attribute(m, "dim0", 0), N)
      BY <1>1, <2>1 DEF NamesAxesAt
    <3>2. PICK f \in 1 .. N : f = Axis(Attribute(m, "dim1", 1), N)
      BY <1>1, <2>1 DEF NamesAxesAt
    <3>3. p = Swap(N, d, f)
      BY <1>1, <2>1, <3>1, <3>2 DEF Order
    <3>4. SwapAt(inserted, d, f) = MovedShape(p, N, inserted)
      BY <1>9, <3>3, SwapAtIs
    <3>5. d <= N /\ f <= N
      OBVIOUS
    <3>6. DimsOfPattern(g, a, m) = SwapAt(inserted, d, f)
      BY <1>1, <1>2, <1>4, <1>5, <2>1, <3>1, <3>2, <3>5 DEF DimsOfPattern, OriginalDims
    <3> QED BY <1>10, <3>4, <3>6
  <2>2. CASE m.opcode = "PERMUTE"
    <3>1. PICK order : order = PermutedDims(m)
      OBVIOUS
    <3>2. Len(order) = N
      BY <1>1, <2>2, <3>1 DEF NamesAxesAt
    <3>3. \A j \in 1 .. N : p[j] = Axis(order[j], N)
      BY <1>1, <2>2, <3>1 DEF Order
    <3>4. DimsOfPattern(g, a, m) = [j \in 1 .. N |-> inserted[Axis(order[j], N)]]
      BY <1>1, <1>2, <1>4, <1>5, <2>2, <3>1, <3>2 DEF DimsOfPattern, OriginalDims
    <3> QED BY <1>10, <3>3, <3>4 DEF MovedShape
  <2> QED BY <2>1, <2>2
<1>12. \A j \in 1 .. N : p[j] \in 1 .. N /\ dims[j] = inserted[p[j]]
  BY <1>7, <1>10 DEF IsPermutation, MovedShape
<1>13. dims \in Seq(Int) /\ Len(dims) = N
  <2>1. dims = [j \in 1 .. N |-> dims[j]]
    BY <1>10 DEF MovedShape
  <2>2. \A j \in 1 .. N : dims[j] \in Int
    BY <1>8, <1>12
  <2> QED BY <2>1, <2>2, SequenceIs
<1>14. IsSequence(dims)
  BY <1>13, SequenceOfRange
<1>15. k \in 1 .. N
  BY <1>1
<1> QED BY <1>1, <1>8, <1>11, <1>12, <1>13, <1>14, <1>15

\* The operand of an operation that has one and reads t.
LEMMA SoleOperand ==
  ASSUME NEW g, IsRegular(g), NEW m \in 1 .. Len(g.nodes), g.nodes[m].opcode \in UnaryOps,
         NEW t, t \in Range(g.nodes[m].inputs)
  PROVE  Operand(g.nodes[m], 1) = t
<1>1. PICK n : n = g.nodes[m]
  OBVIOUS
<1>2. Len(n.inputs) = 1 /\ IsSequence(n.inputs)
  BY <1>1, RegularNode DEF IsRegularOp
<1>3. DOMAIN n.inputs = {1}
  BY <1>2 DEF IsSequence
<1>4. Operand(n, 1) = n.inputs[1] /\ t = n.inputs[1]
  BY <1>1, <1>3 DEF Operand, Range
<1> QED BY <1>1, <1>4

\* The numbers of a match: n dimensions and a new one at place u, which the order p
\* brings to place s; without it, the order is q and the permutation is dims.
IsResolved(g, c, n, u, s, p, q, dims) ==
  /\ n \in Nat /\ n = RankOf(g, Operand(g.nodes[c], 1))
  /\ u \in 1 .. n + 1 /\ u = Axis(Attribute(g.nodes[c], "dim", 0), n + 1)
  /\ p = Order(g.nodes[MiddleOf(g, c)], n + 1) /\ IsPermutation(p, n + 1)
  /\ NamesAxesAt(g, g.nodes[MiddleOf(g, c)], n + 1)
  /\ s \in 1 .. n + 1 /\ s = Axis(Attribute(g.nodes[LastOf(g, c)], "dim", 0), n + 1) /\ p[s] = u
  /\ q = Squeezed(p, n, u, s) /\ IsPermutation(q, n)
  /\ dims = RemoveAt(PatternDims(g, c), PatternPlace(g, c))
  /\ IsSequence(dims) /\ Len(dims) = n /\ [k \in 1 .. n |-> Axis(dims[k], n)] = q

\* Every match of such a graph has these numbers.
LEMMA MatchResolved ==
  ASSUME NEW g, IsRegular(g), NamesAxes(g), NEW c \in 1 .. Len(g.nodes), IsMatch(g, c)
  PROVE  \E n, u, s, p, q, dims : IsResolved(g, c, n, u, s, p, q, dims)
<1>1. PICK m \in 1 .. Len(g.nodes) : m = MiddleOf(g, c)
  BY MatchPlaces
<1>2. PICK a : a = g.nodes[c]
  OBVIOUS
<1>3. PICK b : b = g.nodes[m]
  OBVIOUS
<1>4. PICK n : n = RankOf(g, Operand(a, 1))
  OBVIOUS
<1>5. PICK u : u = Axis(Attribute(a, "dim", 0), n + 1)
  OBVIOUS
<1>6. a.opcode = "UNSQUEEZE" /\ b.opcode \in {"TRANSPOSE", "PERMUTE"} /\ IsSolelyRead(g, c)
  BY <1>1, <1>2, <1>3 DEF IsMatch
<1>7. n \in Nat /\ u \in 1 .. n + 1 /\ RankOf(g, Result(g, c)) = n + 1
  BY <1>2, <1>4, <1>5, <1>6 DEF NamesAxes, NamesAxesAt, Result
<1>8. Operand(b, 1) = Result(g, c)
  <2>1. Result(g, c) \in Range(g.nodes[m].inputs)
    BY <1>1, <1>6, NextIsLater DEF MiddleOf
  <2>2. g.nodes[m].opcode \in UnaryOps
    BY <1>3, <1>6 DEF UnaryOps
  <2> QED BY <1>3, <2>1, <2>2, SoleOperand
<1>9. NamesAxesAt(g, b, n + 1)
  BY <1>3, <1>7, <1>8 DEF NamesAxes
<1>10. PICK N \in Nat : N = n + 1
  BY <1>7
<1>11. PICK p : p = Order(b, N)
  OBVIOUS
<1>12. IsPermutation(p, N)
  BY <1>6, <1>9, <1>10, <1>11, OrderPermutes
<1>13. PICK all : all = PatternDims(g, c)
  OBVIOUS
<1>14. all = DimsOfPattern(g, a, b)
  BY <1>1, <1>2, <1>3, <1>13 DEF PatternDims
<1>15. ASSUME NEW k \in 1 .. N
       PROVE  /\ Len(all) = N /\ IsSequence(all) /\ (p[k] = u => all[k] = -1)
              /\ (p[k] # u => all[k] = Closed(u, p[k]) - 1)
  <2>1. k \in 1 .. n + 1 /\ p = Order(b, n + 1)
    BY <1>10, <1>11
  <2>2. /\ Len(DimsOfPattern(g, a, b)) = n + 1 /\ IsSequence(DimsOfPattern(g, a, b))
        /\ p[k] = u => DimsOfPattern(g, a, b)[k] = -1
        /\ p[k] # u => DimsOfPattern(g, a, b)[k] = Closed(u, p[k]) - 1
    BY <1>4, <1>5, <1>6, <1>7, <1>9, <2>1, DimsMoved
  <2> QED BY <1>10, <1>14, <2>2
<1>16. Len(all) = N /\ IsSequence(all) /\ DOMAIN all = 1 .. N
  <2>1. 1 \in 1 .. N
    BY <1>7, <1>10
  <2>2. Len(all) = N /\ IsSequence(all)
    BY <1>15, <2>1
  <2> QED BY <2>2 DEF IsSequence
<1>17. PICK s : s = PatternPlace(g, c)
  OBVIOUS
<1>18. s \in 1 .. N /\ all[s] = -1
  BY <1>13, <1>16, <1>17 DEF IsMatch, IsPattern
<1>19. s = Axis(Attribute(g.nodes[LastOf(g, c)], "dim", 0), N)
  BY <1>13, <1>16, <1>17 DEF PatternPlace
<1>20. p[s] = u
  <2>1. SUFFICES ASSUME p[s] # u PROVE FALSE
    OBVIOUS
  <2>2. PICK j \in 1 .. n + 1 : j = p[s]
    BY <1>10, <1>12, <1>18 DEF IsPermutation
  <2>3. Closed(u, j) \in 1 .. n
    BY <1>7, <2>1, <2>2, ClosedIs
  <2>4. all[s] = Closed(u, j) - 1
    BY <1>15, <1>18, <2>1, <2>2
  <2> QED BY <1>7, <1>18, <2>3, <2>4
<1>21. PICK q : q = Squeezed(p, n, u, s)
  OBVIOUS
<1>22. /\ IsPermutation(q, n)
       /\ \A k \in 1 .. n : Open(s, k) \in 1 .. n + 1 /\ p[Open(s, k)] # u
  BY <1>7, <1>10, <1>12, <1>18, <1>20, <1>21, SqueezedPermutes
<1>23. PICK dims : dims = RemoveAt(all, s)
  OBVIOUS
<1>24. dims = WithOneLess(all, n, s)
  <2>1. all \in Seq(Range(all))
    BY <1>16 DEF IsSequence
  <2> QED BY <1>7, <1>10, <1>16, <1>18, <1>23, <2>1, RemoveAtIs
<1>25. ASSUME NEW k \in 1 .. n PROVE dims[k] = q[k] - 1 /\ q[k] \in 1 .. n
  <2>1. PICK j \in 1 .. N : j = Open(s, k)
    BY <1>10, <1>22
  <2>2. dims[k] = all[j]
    BY <1>24, <2>1 DEF WithOneLess
  <2>3. all[j] = Closed(u, p[j]) - 1
    BY <1>15, <1>22, <2>1
  <2>4. q[k] = Closed(u, p[j])
    BY <1>21, <2>1 DEF Squeezed
  <2> QED BY <1>22, <2>2, <2>3, <2>4 DEF IsPermutation
<1>26. dims \in Seq(Int) /\ Len(dims) = n
  <2>1. dims = [k \in 1 .. n |-> dims[k]]
    BY <1>24 DEF WithOneLess
  <2>2. \A k \in 1 .. n : dims[k] \in Int
    BY <1>7, <1>25
  <2> QED BY <1>7, <2>1, <2>2, SequenceIs
<1>27. IsSequence(dims)
  BY <1>26, SequenceOfRange
<1>28. [k \in 1 .. n |-> Axis(dims[k], n)] = q
  <2>1. q = [k \in 1 .. n |-> q[k]]
    BY <1>21 DEF Squeezed
  <2>2. ASSUME NEW k \in 1 .. n PROVE Axis(dims[k], n) = q[k]
    <3>1. ~(dims[k] < 0) /\ dims[k] + 1 = q[k]
      BY SMTT(40), <1>7, <1>25
    <3> QED BY <3>1 DEF Axis
  <2> QED BY <2>1, <2>2
<1>29. IsResolved(g, c, n, u, s, p, q, dims)
  BY <1>1, <1>2, <1>3, <1>4, <1>5, <1>7, <1>9, <1>10, <1>11, <1>12, <1>13, <1>17, <1>18, <1>19,
     <1>20, <1>21, <1>22, <1>23, <1>26, <1>27, <1>28 DEF IsResolved
<1> QED BY <1>29

\* What an operation with one operand computes.
LEMMA UnaryOutcome ==
  ASSUME NEW g, NEW env, NEW V, NEW n, IsSequence(n.inputs), Len(n.inputs) = 1,
         NEW u, u = Operand(n, 1), Given(g, env, n.outputs[1]) = Undefined
  PROVE  /\ Val(V, u) = Undefined => Outcome(V, g, env, n) = Undefined
         /\ Val(V, u) # Undefined => \E x : x[1] = Val(V, u) /\ Outcome(V, g, env, n) = Compute(n, x)
<1>1. DOMAIN n.inputs = {1}
  BY DEF IsSequence
<1>2. u = n.inputs[1]
  BY <1>1 DEF Operand
<1>3. Outcome(V, g, env, n) = IF Known(V, n) THEN Compute(n, Args(V, n)) ELSE Undefined
  BY DEF Outcome
<1>4. Known(V, n) <=> Val(V, u) # Undefined
  BY <1>1, <1>2 DEF Known
<1>5. Args(V, n)[1] = Val(V, u)
  BY <1>1, <1>2 DEF Args
<1> QED BY <1>3, <1>4, <1>5

\* And what its result is.
LEMMA UnaryValue ==
  ASSUME NEW g, IsRegular(g), NEW env, GivesInputs(env, g), NEW V, Solves(V, g, env),
         NEW i \in 1 .. Len(g.nodes), g.nodes[i].opcode \in UnaryOps,
         NEW u, u = Operand(g.nodes[i], 1)
  PROVE  /\ Val(V, u) = Undefined => Val(V, Result(g, i)) = Undefined
         /\ Val(V, u) # Undefined =>
              \E x : x[1] = Val(V, u) /\ Val(V, Result(g, i)) = Compute(g.nodes[i], x)
<1>1. PICK n : n = g.nodes[i]
  OBVIOUS
<1>2. Len(n.inputs) = 1 /\ IsSequence(n.inputs)
  BY <1>1, RegularNode DEF IsRegularOp
<1>3. Given(g, env, n.outputs[1]) = Undefined
  BY <1>1, ResultNotGiven
<1>4. Val(V, Result(g, i)) = Outcome(V, g, env, n)
  BY <1>1 DEF Solves, Result
<1>5. /\ Val(V, u) = Undefined => Outcome(V, g, env, n) = Undefined
      /\ Val(V, u) # Undefined => \E x : x[1] = Val(V, u) /\ Outcome(V, g, env, n) = Compute(n, x)
  BY <1>1, <1>2, <1>3, UnaryOutcome
<1> QED BY <1>1, <1>4, <1>5

\* What an unsqueeze computes.
LEMMA UnsqueezeComputes ==
  ASSUME NEW n, n.opcode = "UNSQUEEZE", NEW x
  PROVE  Compute(n, x) = UnsqueezeOf(x[1], Attribute(n, "dim", 0))
BY DEF Compute

\* What a squeeze computes.
LEMMA SqueezeComputes ==
  ASSUME NEW n, n.opcode = "SQUEEZE", NEW x
  PROVE  Compute(n, x) = SqueezeOf(x[1], Attribute(n, "dim", 0))
BY DEF Compute

\* A shape with a dimension of 1 is that of a value.
LEMMA NotUndefined ==
  ASSUME NEW x, NEW k \in DOMAIN x.shape, x.shape[k] = 1
  PROVE  x # Undefined
<1>1. SUFFICES ASSUME x = Undefined PROVE FALSE
  OBVIOUS
<1>2. x.shape = <<-1>>
  BY <1>1 DEF Undefined
<1>3. PICK s : s = x.shape
  OBVIOUS
<1>4. DOMAIN s = {1} /\ s[1] = -1
  BY <1>2, <1>3
<1> QED BY <1>3, <1>4

\* The permutation computes what the operations of its match did.
LEMMA PatternValue ==
  ASSUME NEW g, IsRegular(g), NamesAxes(g), NEW env, GivesInputs(env, g), NEW V, Solves(V, g, env),
         IsWellShaped(V, g), NEW c \in 1 .. Len(g.nodes), IsMatch(g, c),
         NEW perm, IsPermutationAt(perm, g, c)
  PROVE  Outcome(V, g, env, perm) = Val(V, Result(g, LastOf(g, c)))
<1>1. PICK m \in 1 .. Len(g.nodes) : m = MiddleOf(g, c)
  BY MatchPlaces
<1>2. PICK l \in 1 .. Len(g.nodes) : l = LastOf(g, c)
  BY MatchPlaces
<1>3. /\ g.nodes[c].opcode = "UNSQUEEZE" /\ g.nodes[m].opcode \in {"TRANSPOSE", "PERMUTE"}
      /\ g.nodes[l].opcode = "SQUEEZE" /\ IsSolelyRead(g, c) /\ IsSolelyRead(g, m)
      /\ m = SoleReaderOf(g, c) /\ l = SoleReaderOf(g, m)
  BY <1>1, <1>2 DEF IsMatch, MiddleOf, LastOf
<1>4. g.nodes[c].opcode \in UnaryOps /\ g.nodes[m].opcode \in UnaryOps /\ g.nodes[l].opcode \in UnaryOps
  BY <1>3 DEF UnaryOps
<1>5. Operand(g.nodes[m], 1) = Result(g, c)
  BY <1>3, <1>4, NextIsLater, SoleOperand
<1>6. Operand(g.nodes[l], 1) = Result(g, m)
  BY <1>3, <1>4, NextIsLater, SoleOperand
<1>7. PICK n, u, s, p, q, dims : IsResolved(g, c, n, u, s, p, q, dims)
  BY MatchResolved
<1>8. PICK w : w = Operand(g.nodes[c], 1)
  OBVIOUS
<1>9. /\ perm.opcode = "PERMUTE" /\ perm.inputs = g.nodes[c].inputs
      /\ perm.outputs = g.nodes[l].outputs /\ perm.attributes = [dims |-> dims]
  BY <1>2, <1>7 DEF IsPermutationAt, IsResolved
<1>10. Len(perm.inputs) = 1 /\ IsSequence(perm.inputs) /\ w = Operand(perm, 1)
       /\ w \in DOMAIN g.tensors
  <2>1. Len(g.nodes[c].inputs) = 1 /\ IsSequence(g.nodes[c].inputs)
    BY <1>4, RegularNode DEF IsRegularOp
  <2>2. DOMAIN g.nodes[c].inputs = {1}
    BY <2>1 DEF IsSequence
  <2>3. w = g.nodes[c].inputs[1]
    BY <1>8, <2>2 DEF Operand
  <2>4. w \in Range(g.nodes[c].inputs)
    BY <2>2, <2>3 DEF Range
  <2>5. IsNodeOf(g, g.nodes[c])
    BY RegularNode
  <2>6. w \in DOMAIN g.tensors
    BY <2>4, <2>5 DEF IsNodeOf
  <2> QED BY <1>8, <1>9, <2>1, <2>6 DEF Operand
<1>11. Given(g, env, perm.outputs[1]) = Undefined
  BY <1>9, ResultNotGiven
<1>12. /\ Val(V, w) = Undefined => Outcome(V, g, env, perm) = Undefined
       /\ Val(V, w) # Undefined =>
            \E x : x[1] = Val(V, w) /\ Outcome(V, g, env, perm) = Compute(perm, x)
  BY <1>10, <1>11, UnaryOutcome
<1>13. PICK y : y = Val(V, w)
  OBVIOUS
<1>14. PICK y1 : y1 = Val(V, Result(g, c))
  OBVIOUS
<1>15. PICK y2 : y2 = Val(V, Result(g, m))
  OBVIOUS
<1>16. /\ y = Undefined => y1 = Undefined
       /\ y # Undefined => \E x : x[1] = y /\ y1 = Compute(g.nodes[c], x)
  BY <1>4, <1>8, <1>13, <1>14, UnaryValue
<1>17. /\ y1 = Undefined => y2 = Undefined
       /\ y1 # Undefined => \E x : x[1] = y1 /\ y2 = Compute(g.nodes[m], x)
  BY <1>4, <1>5, <1>14, <1>15, UnaryValue
<1>18. /\ y2 = Undefined => Val(V, Result(g, l)) = Undefined
       /\ y2 # Undefined => \E x : x[1] = y2 /\ Val(V, Result(g, l)) = Compute(g.nodes[l], x)
  BY <1>4, <1>6, <1>15, UnaryValue
<1>19. CASE y = Undefined
  BY <1>2, <1>12, <1>13, <1>16, <1>17, <1>18, <1>19
<1>20. CASE y # Undefined
  <2>1. /\ n \in Nat /\ n = RankOf(g, w) /\ u \in 1 .. n + 1 /\ IsPermutation(p, n + 1)
        /\ u = Axis(Attribute(g.nodes[c], "dim", 0), n + 1) /\ p = Order(g.nodes[m], n + 1)
        /\ NamesAxesAt(g, g.nodes[m], n + 1) /\ s \in 1 .. n + 1 /\ p[s] = u
        /\ s = Axis(Attribute(g.nodes[l], "dim", 0), n + 1)
        /\ q = Squeezed(p, n, u, s) /\ IsPermutation(q, n)
        /\ Len(dims) = n /\ [k \in 1 .. n |-> Axis(dims[k], n)] = q
    BY SMTT(40), <1>1, <1>2, <1>7, <1>8 DEF IsResolved
  <2>2. y.shape \in Seq(Nat) /\ Len(y.shape) = n
    BY <1>10, <1>13, <1>20, <2>1 DEF IsWellShaped, RankOf
  <2>3. PICK dim : dim = Attribute(g.nodes[c], "dim", 0)
    OBVIOUS
  <2>4. y1 = UnsqueezeOf(y, dim)
    BY <1>3, <1>16, <1>20, <2>3, UnsqueezeComputes
  <2>5. UnsqueezeOf(y, dim) = Opened(y, n, u)
    BY <2>1, <2>2, <2>3, UnsqueezeIs
  <2>6. y1.shape = WithOneMore(y.shape, n, u, 1)
    BY <2>4, <2>5 DEF Opened
  <2>7. y1.shape[u] = 1
    BY <2>1, <2>6 DEF WithOneMore
  <2>8. y1 # Undefined
    BY <2>1, <2>6, <2>7, NotUndefined DEF WithOneMore
  <2>9. PICK t : t = Result(g, c)
    OBVIOUS
  <2>10. t \in DOMAIN g.tensors /\ RankOf(g, t) = n + 1
    <3>1. t \in Range(g.nodes[c].outputs)
      BY <2>9, RegularParts, FirstResult DEF Result
    <3>2. t \in DOMAIN g.tensors
      BY <3>1, RegularNode DEF IsNodeOf
    <3> QED BY <1>3, <1>8, <2>1, <2>9, <3>2 DEF NamesAxes, NamesAxesAt, Result
  <2>11. y1.shape \in Seq(Nat) /\ Len(y1.shape) = n + 1
    BY <1>14, <2>8, <2>9, <2>10 DEF IsWellShaped, RankOf
  <2>12. y2 = MovedBy(p, n + 1, y1)
    <3>1. PICK x : x[1] = y1 /\ y2 = Compute(g.nodes[m], x)
      BY <1>17, <2>8
    <3>2. PICK N \in Nat : N = n + 1
      BY <2>1
    <3>3. NamesAxesAt(g, g.nodes[m], N) /\ Len(y1.shape) = N /\ p = Order(g.nodes[m], N)
      BY <2>1, <2>11, <3>2
    <3>4. Compute(g.nodes[m], x) = MovedBy(Order(g.nodes[m], N), N, y1)
      BY <1>3, <2>11, <3>1, <3>3, MoveComputes
    <3> QED BY <3>1, <3>2, <3>3, <3>4
  <2>13. y2.shape[s] = 1 /\ s \in DOMAIN y2.shape
    <3>1. y2.shape = MovedShape(p, n + 1, y1.shape)
      BY <2>12 DEF MovedBy
    <3> QED BY <2>1, <2>7, <3>1 DEF MovedShape
  <2>14. y2 # Undefined
    BY <2>1, <2>13, NotUndefined
  <2>15. PICK last : last = Attribute(g.nodes[l], "dim", 0)
    OBVIOUS
  <2>16. Val(V, Result(g, l)) = SqueezeOf(y2, last)
    BY <1>3, <1>18, <2>14, <2>15, SqueezeComputes
  <2>17. y1 = Opened(y, n, u)
    BY <2>4, <2>5
  <2>18. SqueezeOf(y2, last) = MovedBy(q, n, y)
    <3>1. IsOpenedAndMoved(y, n, p, s, u, y1, y2, last)
      BY <2>1, <2>2, <2>12, <2>15, <2>17 DEF IsOpenedAndMoved
    <3>2. SqueezeOf(y2, last) = MovedBy(Squeezed(p, n, u, s), n, y)
      BY <3>1, SqueezedMove
    <3> QED BY <2>1, <3>2
  <2>19. PICK x : x[1] = y /\ Outcome(V, g, env, perm) = Compute(perm, x)
    BY <1>12, <1>13, <1>20
  <2>20. PermutedDims(perm) = dims
    BY <1>9 DEF Attribute, PermutedDims
  <2>21. Compute(perm, x) = PermuteOf(y, dims)
    BY <1>9, <2>19, <2>20, PermuteComputes
  <2>22. PermuteOf(y, dims) = MovedBy(q, n, y)
    BY <2>1, <2>2, PermuteMoves DEF Rank
  <2> QED BY SMTT(40), <1>2, <2>16, <2>18, <2>19, <2>21, <2>22
<1> QED BY <1>19, <1>20

\* The operations with the permutations compute the values that those of g do.
LEMMA PatternComputes ==
  ASSUME NEW g, IsRegular(g), NamesAxes(g), NEW env, GivesInputs(env, g),
         NEW V, V = Values(g, env), IsWellShaped(V, g), NEW s, IsPatternState(s, g),
         NEW ops, ops = PermutedOps(g, s), NEW X, X \subseteq 1 .. Len(g.nodes)
  PROVE  Computes(V, g, env, ops, X)
<1>1. Solves(V, g, env)
  BY RegularParts, ValuesSolve
<1>2. ASSUME NEW i \in X PROVE Val(V, ops[i].outputs[1]) = Outcome(V, g, env, ops[i])
  <2>1. i \in 1 .. Len(g.nodes)
    OBVIOUS
  <2>2. CASE i \in Matched(s, g)
    <3>1. ops[i] = s.perms[g.nodes[i].id]
      BY <2>1, <2>2 DEF PermutedOps, Matched
    <3>2. IsMatch(g, i) /\ IsPermutationAt(ops[i], g, i)
      BY <2>2, <3>1 DEF IsPatternState
    <3>3. Outcome(V, g, env, ops[i]) = Val(V, Result(g, LastOf(g, i)))
      BY <1>1, <2>1, <3>2, PatternValue
    <3>4. ops[i].outputs[1] = Result(g, LastOf(g, i))
      BY <3>2 DEF IsPermutationAt, Result
    <3> QED BY <3>3, <3>4
  <2>3. CASE i \notin Matched(s, g)
    <3>1. ops[i] = g.nodes[i]
      BY <2>1, <2>3 DEF PermutedOps, Matched
    <3> QED BY <1>1, <2>1, <3>1 DEF Solves
  <2> QED BY <2>2, <2>3
<1> QED BY <1>2 DEF Computes

\* The permutations that replace matches name as many dimensions as there are.
LEMMA PatternPermutes ==
  ASSUME NEW g, IsRegular(g), NamesAxes(g), NEW h, NEW s, NEW ops, NEW place,
         IsPatternGraph(h, g, s, ops, place)
  PROVE  PermutesAll(h)
<1>1. PICK X : X = Remaining(g, Superfluous(g, Matched(s, g)))
  OBVIOUS
<1>2. IsListing(h.nodes, ops, X, place) /\ h.tensors = g.tensors /\ IsPatternState(s, g)
      /\ ops = PermutedOps(g, s) /\ X \subseteq 1 .. Len(g.nodes)
  BY <1>1 DEF IsPatternGraph, Remaining
<1>3. ASSUME NEW i \in X, ops[i].opcode = "PERMUTE"
      PROVE  /\ IsSequence(PermutedDims(ops[i]))
             /\ Len(PermutedDims(ops[i])) = RankOf(g, Operand(ops[i], 1))
  <2>1. i \in 1 .. Len(g.nodes)
    BY <1>2
  <2>2. CASE i \in Matched(s, g)
    <3>1. ops[i] = s.perms[g.nodes[i].id]
      BY <1>2, <2>1, <2>2 DEF PermutedOps, Matched
    <3>2. IsMatch(g, i) /\ IsPermutationAt(ops[i], g, i)
      BY <1>2, <2>2, <3>1 DEF IsPatternState
    <3>3. PICK n, u, t, p, q, dims : IsResolved(g, i, n, u, t, p, q, dims)
      BY <2>1, <3>2, MatchResolved
    <3>4. /\ IsSequence(dims) /\ Len(dims) = n /\ n = RankOf(g, Operand(g.nodes[i], 1))
          /\ dims = RemoveAt(PatternDims(g, i), PatternPlace(g, i))
      BY <3>3 DEF IsResolved
    <3>5. ops[i].attributes = [dims |-> dims] /\ ops[i].inputs = g.nodes[i].inputs
      BY <3>2, <3>4 DEF IsPermutationAt
    <3>6. PermutedDims(ops[i]) = dims
      BY <3>5 DEF Attribute, PermutedDims
    <3>7. Operand(ops[i], 1) = Operand(g.nodes[i], 1)
      BY <3>5 DEF Operand
    <3> QED BY <3>4, <3>6, <3>7
  <2>3. CASE i \notin Matched(s, g)
    <3>1. ops[i] = g.nodes[i]
      BY <1>2, <2>1, <2>3 DEF PermutedOps, Matched
    <3>2. PermutesAll(g)
      BY NamesAxesPermutes
    <3> QED BY <1>3, <2>1, <3>1, <3>2 DEF PermutesAll
  <2> QED BY <2>2, <2>3
<1>4. ASSUME NEW k \in 1 .. Len(h.nodes), h.nodes[k].opcode = "PERMUTE"
      PROVE  /\ IsSequence(PermutedDims(h.nodes[k]))
             /\ Len(PermutedDims(h.nodes[k])) = RankOf(h, Operand(h.nodes[k], 1))
  <2>1. PICK i \in X : place[i] = k
    BY <1>2 DEF IsListing
  <2>2. h.nodes[k] = ops[i]
    BY <1>2, <2>1 DEF IsListing
  <2>3. \A t : RankOf(h, t) = RankOf(g, t)
    BY <1>2 DEF RankOf
  <2> QED BY <1>3, <1>4, <2>2, <2>3
<1> QED BY <1>4 DEF PermutesAll

\* What the replacement of matches leaves: as good a graph, with the same results.
IsAsGood(h, g, env) == IsRegular(h) /\ PermutesAll(h) /\ Preserves(h, g, env)

\* The replacement of matches keeps the results.
LEMMA PatternCorrect ==
  ASSUME NEW g, IsRegular(g), NamesAxes(g), NoneWithinReturned(g), NEW env, GivesInputs(env, g),
         IsWellShaped(Values(g, env), g)
  PROVE  IsAsGood(FuseUnsqueezeTransposeSqueeze(g), g, env)
<1>1. PICK h : h = FuseUnsqueezeTransposeSqueeze(g)
  OBVIOUS
<1>2. PICK s, ops, place : IsPatternGraph(h, g, s, ops, place)
  BY <1>1, PatternIs
<1>3. PICK C : C = Matched(s, g)
  OBVIOUS
<1>4. PICK Gone : Gone = Superfluous(g, C)
  OBVIOUS
<1>5. PICK tail : tail = Lasts(g, C)
  OBVIOUS
<1>6. PICK X : X = Remaining(g, Gone)
  OBVIOUS
<1>7. /\ IsRewriting(h, g) /\ IsTakeover(g, C, tail, Gone) /\ TakesOver(g, C, tail, Gone, ops)
      /\ IsListing(h.nodes, ops, X, place) /\ \A i \in X : IsNodeOf(g, ops[i])
  BY <1>2, <1>3, <1>4, <1>5, <1>6 DEF IsPatternGraph, Remaining
<1>8. h.tensors = g.tensors /\ IsPatternState(s, g) /\ ops = PermutedOps(g, s)
  BY <1>2 DEF IsPatternGraph
<1>9. PICK V : V = Values(g, env)
  OBVIOUS
<1>10. X \subseteq 1 .. Len(g.nodes) /\ C \subseteq X
  BY <1>6, <1>7 DEF Remaining, IsTakeover
<1>11. Computes(V, g, env, ops, X)
  BY <1>8, <1>9, <1>10, PatternComputes
<1>12. PICK src : src = Source(C, tail, X)
  OBVIOUS
<1>13. Rearranges(g, ops, X, src)
  BY <1>6, <1>7, <1>12, TakeoverRearranges
<1>14. ReadsBefore(g, ops, X)
  BY <1>6, <1>7, TakeoverReads
<1>15. ASSUME NEW t \in Range(g.outputs), IsLost(g, ops, X, t) PROVE FALSE
  <2>1. PICK j \in 1 .. Len(g.nodes) : t = Result(g, j)
    BY <1>15 DEF IsLost, IsResult, Result
  <2>2. ASSUME NEW c \in C
        PROVE  /\ c \in 1 .. Len(g.nodes) /\ IsMatch(g, c) /\ ops[c].outputs[1] = Result(g, LastOf(g, c))
    <3>1. c \in 1 .. Len(g.nodes)
      BY <1>10
    <3>2. IsMatch(g, c) /\ c \in Matched(s, g)
      BY <1>3, <1>8 DEF IsPatternState
    <3>3. ops[c].outputs = g.nodes[LastOf(g, c)].outputs
      BY <1>5, <1>7, <1>10, <1>6 DEF TakesOver, Lasts
    <3> QED BY <3>1, <3>2, <3>3 DEF Result
  <2>3. j \notin C
    BY <2>1, <2>2 DEF NoneWithinReturned
  <2>4. j \notin X
    <3>1. SUFFICES ASSUME j \in X PROVE FALSE
      OBVIOUS
    <3>2. ops[j].outputs = g.nodes[j].outputs
      BY <1>6, <1>7, <2>3, <3>1 DEF TakesOver
    <3> QED BY <1>15, <2>1, <3>1, <3>2 DEF IsLost, Result
  <2>5. j \in Gone
    BY <1>6, <2>4 DEF Remaining
  <2>6. PICK c \in C : j = MiddleOf(g, c) \/ j = LastOf(g, c)
    BY <1>4, <2>5 DEF Superfluous
  <2>7. j # MiddleOf(g, c)
    BY <2>1, <2>2 DEF NoneWithinReturned
  <2>8. ops[c].outputs[1] = t
    BY <2>1, <2>2, <2>6, <2>7
  <2> QED BY <1>10, <1>15, <2>8 DEF IsLost
<1>16. \A t \in Range(g.outputs) : ~IsLost(g, ops, X, t)
  BY <1>15
<1>17. Preserves(h, g, env)
  BY <1>7, <1>9, <1>11, <1>13, <1>14, <1>16, RewritingPreserves
<1>18. IsRegular(h)
  BY <1>1, PatternRegular
<1>19. PermutesAll(h)
  BY <1>2, PatternPermutes
<1> QED BY <1>1, <1>17, <1>18, <1>19 DEF IsAsGood

\* The replacement of an unsqueeze, a transposition and a squeeze by a permutation, and
\* then the pruning of casts and permutations that change nothing.
THEOREM RedundantCorrect ==
  ASSUME NEW g, IsRegular(g), NamesAxes(g), NoneWithinReturned(g), NEW env, GivesInputs(env, g),
         IsWellShaped(Values(g, env), g)
  PROVE  Preserves(RedundantCastPruner(g), g, env)
<1>1. PICK h : h = FuseUnsqueezeTransposeSqueeze(g)
  OBVIOUS
<1>2. IsAsGood(h, g, env)
  BY <1>1, PatternCorrect
<1>3. IsRegular(h) /\ PermutesAll(h) /\ Preserves(h, g, env)
  BY <1>2 DEF IsAsGood
<1>4. GivesInputs(env, h) /\ IsWellShaped(Values(h, env), h)
  BY <1>3 DEF Preserves
<1>5. Preserves(PrunedGraph(h), h, env)
  BY <1>3, <1>4, PruningCorrect
<1>6. Preserves(PrunedGraph(h), g, env)
  BY <1>3, <1>5 DEF Preserves
<1> QED BY <1>1, <1>6 DEF RedundantCastPruner

--------------------------------------------------------------------------------
(* The pipeline in a safe case                                                  *)

\* Constant folding keeps what is known of every tensor.
LEMMA FoldingPreserves ==
  ASSUME NEW g, IsRegular(g), ConcatsByAxis(g), NEW env, GivesInputs(env, g)
  PROVE  Preserves(ConstantFolding(g), g, env)
<1>1. IsExecutable(g) /\ IsTyped(g) /\ NamesExist(g) /\ Len(g.nodes) \in Nat
  BY RegularParts
<1>2. PICK fold : IsFolding(fold, g) /\ ConstantFolding(g) = fold[Len(g.nodes)]
  BY <1>1, FoldingDefined DEF IsExecutable
<1>3. IsFoldingOf(fold, g)
  BY <1>1, <1>2 DEF IsFoldingOf
<1>4. PICK h : h = fold[Len(g.nodes)]
  OBVIOUS
<1>5. IsExecutable(h) /\ Results(h, env) = Results(g, env)
  BY <1>1, <1>2, <1>4, ConstantFoldingCorrect
<1>6. IsFoldedGraph(fold, g, Len(g.nodes))
  BY <1>3, FoldedAll
<1>7. h.inputs = g.inputs /\ DOMAIN h.tensors = DOMAIN g.tensors
  BY <1>3, <1>4, FoldedFields
<1>8. \A t \in DOMAIN h.tensors : h.tensors[t].shape = g.tensors[t].shape
  BY <1>4, <1>6, <1>7 DEF IsFoldedGraph
<1>9. ASSUME NEW t \in DOMAIN g.tensors, t \in Range(g.inputs) PROVE h.tensors[t] = g.tensors[t]
  <2>1. FoldedTensor(fold, g, Len(g.nodes), t)
    BY <1>6 DEF IsFoldedGraph
  <2>2. t \in GivenTensors(g)
    BY <1>9 DEF GivenTensors
  <2>3. ASSUME NEW i \in 1 .. Len(g.nodes) PROVE t # g.nodes[i].outputs[1]
    <3>1. PICK u : u = g.nodes[i].outputs[1]
      OBVIOUS
    <3>2. u \in Range(g.nodes[i].outputs)
      BY <1>1, <3>1, FirstResult
    <3>3. u \notin GivenTensors(g)
      BY <1>1, <3>2, ExecutableParts, KnownBeforeIs
    <3> QED BY <2>2, <3>1, <3>3
  <2> QED BY <1>4, <2>1, <2>3 DEF FoldedTensor
<1>10. GivesInputs(env, h)
  BY <1>7, <1>9 DEF GivesInputs, Storage
<1>11. PICK V : V = Values(g, env)
  OBVIOUS
<1>12. Solves(V, g, env)
  BY <1>1, <1>11, ValuesSolve
<1>13. Solves(V, h, env)
  <2>1. PICK place : IsListing(h.nodes, g.nodes, Left(fold, g), place)
    BY <1>3, <1>4, FoldedListing
  <2>2. ListSolved(V, h, env, g.nodes, Left(fold, g))
    BY <1>2, <1>3, <1>4, <1>12, FoldedSolves, FoldsByAxisToo
  <2> QED BY <2>1, <2>2, ListedSolves
<1>14. \A t : Val(Values(h, env), t) = Val(V, t)
  BY <1>5, <1>13, ValuesSolve, SolutionsAgree
<1>15. KnowsNoMore(h, g, env)
  BY <1>7, <1>8, <1>11, <1>14 DEF KnowsNoMore
<1>16. IsWellShaped(Values(g, env), g) => IsWellShaped(Values(h, env), h)
  BY <1>15, StaysWellShaped
<1> QED BY <1>2, <1>4, <1>5, <1>10, <1>16 DEF Preserves

\* So does dead code elimination of every tensor that it leaves.
LEMMA DeadCodePreserves ==
  ASSUME NEW g, IsRegular(g), NEW env, GivesInputs(env, g)
  PROVE  Preserves(DeadCodeElimination(g), g, env)
<1>1. IsExecutable(g) /\ Len(g.nodes) \in Nat
  BY RegularParts
<1>2. PICK L : L = LiveTensors(g)
  OBVIOUS
<1>3. PICK K : K = L \cup AlwaysKept(g)
  OBVIOUS
<1>4. PICK h : h = Retain(g, L, K)
  OBVIOUS
<1>5. h = DeadCodeElimination(g)
  BY <1>2, <1>3, <1>4 DEF DeadCodeElimination
<1>6. PICK upto : IsRetained(h, g, L, K, upto)
  BY <1>1, <1>4, Retains
<1>7. IsRemoval(h, g, L, K, upto)
  BY <1>1, <1>2, <1>3, <1>6, LiveSet DEF IsRemoval
<1>8. IsExecutable(h) /\ Results(h, env) = Results(g, env)
  BY <1>1, <1>5, DeadCodeCorrect
<1>9. h.tensors = [t \in DOMAIN g.tensors \cap K |-> g.tensors[t]]
      /\ Range(h.inputs) = Range(g.inputs) \cap K
  BY <1>6 DEF IsRetained
<1>10. DOMAIN h.tensors = DOMAIN g.tensors \cap K
       /\ \A t \in DOMAIN h.tensors : h.tensors[t] = g.tensors[t]
  BY <1>9
<1>11. GivesInputs(env, h)
  BY <1>9, <1>10 DEF GivesInputs, Storage
<1>12. Solves(Values(g, env), g, env) /\ Solves(Values(h, env), h, env)
  BY <1>1, <1>8, ValuesSolve
<1>13. ASSUME NEW t \in DOMAIN h.tensors, Val(Values(h, env), t) # Undefined
       PROVE  Val(Values(h, env), t) = Val(Values(g, env), t)
  <2>1. CASE t \in L
    BY <1>7, <2>1, RemovalAgrees DEF Agree, Val
  <2>2. CASE t \notin L
    <3>1. ~IsResult(h, t)
      <4>1. SUFFICES ASSUME NEW l \in 1 .. Len(h.nodes), t = h.nodes[l].outputs[1] PROVE FALSE
        BY DEF IsResult
      <4>2. PICK i \in 1 .. Len(g.nodes) : h.nodes[l] = g.nodes[i] /\ Range(g.nodes[i].outputs) \cap L # {}
        BY <1>7, <4>1, PlaceOfLive
      <4>3. Range(g.nodes[i].outputs) = {g.nodes[i].outputs[1]}
        BY RegularNode
      <4> QED BY <2>2, <4>1, <4>2, <4>3
    <3>2. Val(Values(h, env), t) = Given(h, env, t)
      BY <1>12, <3>1 DEF Solves
    <3>3. Given(h, env, t) = Given(g, env, t)
      BY <1>10 DEF Given, Val, Leaves, HasData
    <3>4. ~IsResult(g, t)
      BY <1>13, <3>2, <3>3, ResultNotGiven DEF IsResult
    <3>5. Val(Values(g, env), t) = Given(g, env, t)
      BY <1>12, <3>4 DEF Solves
    <3> QED BY <3>2, <3>3, <3>5
  <2> QED BY <2>1, <2>2
<1>14. KnowsNoMore(h, g, env)
  BY <1>10, <1>13 DEF KnowsNoMore
<1>15. IsWellShaped(Values(g, env), g) => IsWellShaped(Values(h, env), h)
  BY <1>14, StaysWellShaped
<1> QED BY <1>5, <1>8, <1>11, <1>15 DEF Preserves

\* A stage of a safe case keeps what an orderly graph computes.
LEMMA StagePreserves ==
  ASSUME options \subseteq SafeFusions, NEW stage \in StageNames, NEW g, IsRegular(g), IsOrderly(g),
         NEW env, GivesInputs(env, g), IsWellShaped(Values(g, env), g),
         NEW h, h = IF IsEnabled(stage) THEN Rewritten(stage, g) ELSE g
  PROVE  Preserves(h, g, env)
<1>1. CASE ~IsEnabled(stage)
  BY <1>1 DEF Preserves
<1>2. CASE IsEnabled(stage)
  <2>1. h = Rewritten(stage, g)
    BY <1>2
  <2>2. CASE stage = "constant_folding"
    <3>1. h = ConstantFolding(g)
      BY <2>1, <2>2 DEF Rewritten
    <3>2. ConcatsByAxis(g)
      BY DEF IsOrderly
    <3> QED BY <3>1, <3>2, FoldingPreserves
  <2>3. CASE stage = "conv2d_relu"
    <3>1. h = FuseConvRelu(g)
      BY <2>1, <2>3 DEF Rewritten
    <3>2. NonePairReturned(g, "CONV2D", "RELU")
      BY DEF IsOrderly
    <3> QED BY <3>1, <3>2, ConvReluCorrect
  <2>4. CASE stage = "swiglu"
    <3>1. h = FuseSwiglu(g)
      BY <2>1, <2>4 DEF Rewritten
    <3>2. NonePairReturned(g, "SILU", "MUL")
      BY DEF IsOrderly
    <3> QED BY <3>1, <3>2, SwigluCorrect
  <2>5. CASE stage = "sdpa_transpose"
    <3>1. h = FuseSdpaTranspose(g)
      BY <2>1, <2>5 DEF Rewritten
    <3>2. NoneTransposedTwice(g)
      BY DEF IsOrderly
    <3> QED BY <3>1, <3>2, SdpaCorrect
  <2>6. CASE stage = "redundant"
    <3>1. h = RedundantCastPruner(g)
      BY <2>1, <2>6 DEF Rewritten
    <3>2. NamesAxes(g) /\ NoneWithinReturned(g)
      BY DEF IsOrderly
    <3> QED BY <3>1, <3>2, RedundantCorrect
  <2>7. CASE stage = "dead_code"
    <3>1. h = DeadCodeElimination(g)
      BY <2>1, <2>7 DEF Rewritten
    <3> QED BY <3>1, DeadCodePreserves
  <2> QED BY <1>2, <2>2, <2>3, <2>4, <2>5, <2>6, <2>7, OnlySafeEnabled
<1> QED BY <1>1, <1>2

\* The inductive invariant: the graph computes what the source does, the inputs are
\* inputs still, and what is known has the declared shapes.
ComputesSource ==
  /\ at \in Nat
  /\ IsSourceShaped =>
       /\ Results(graph, source.env) = Results(source.graph, source.env)
       /\ GivesInputs(source.env, graph)
       /\ IsWellShaped(Values(graph, source.env), graph)

\* It holds at first.
LEMMA ComputesSourceInit == Init => ComputesSource
<1> SUFFICES ASSUME Init PROVE ComputesSource
  OBVIOUS
<1>1. graph = source.graph /\ at = 0
  BY DEF Init
<1> QED BY <1>1 DEF ComputesSource, IsSourceShaped

\* Every step from an orderly graph keeps it.
LEMMA ComputesSourceNext ==
  StaysRegular /\ InOrder /\ ComputesSource /\ [Next]_vars => ComputesSource'
<1> SUFFICES ASSUME StaysRegular, InOrder, ComputesSource, [Next]_vars PROVE ComputesSource'
  OBVIOUS
<1>1. CASE RunStage
  <2>1. PICK stage : /\ stage = Stages[at + 1]
                     /\ graph' = IF IsEnabled(stage) THEN Rewritten(stage, graph) ELSE graph
    BY <1>1 DEF RunStage
  <2>2. at < Len(Stages) /\ at' = at + 1 /\ source' = source /\ at \in Nat
    BY <1>1 DEF RunStage, StaysRegular
  <2>3. at + 1 \in 1 .. Len(Stages)
    BY <2>2, StagesNamed
  <2>4. stage \in StageNames
    BY <2>1, <2>3, StagesNamed
  <2>5. options \subseteq SafeFusions /\ IsRegular(graph) /\ IsOrderly(graph)
    BY DEF InOrder, IsSafeCase, StaysRegular
  <2>6. PICK env : env = source.env
    OBVIOUS
  <2>7. /\ Results(graph, env) = Results(source.graph, env)
        /\ GivesInputs(env, graph) /\ IsWellShaped(Values(graph, env), graph)
    BY <2>6 DEF InOrder, ComputesSource
  <2>8. PICK h : h = graph'
    OBVIOUS
  <2>9. h = IF IsEnabled(stage) THEN Rewritten(stage, graph) ELSE graph
    BY <2>1, <2>8
  <2>10. Preserves(h, graph, env)
    BY <2>4, <2>5, <2>7, <2>9, StagePreserves
  <2>11. /\ Results(h, env) = Results(source.graph, env)
         /\ GivesInputs(env, h) /\ IsWellShaped(Values(h, env), h)
    BY <2>7, <2>10 DEF Preserves
  <2>12. at' \in Nat
    BY <2>2
  <2> QED BY <2>2, <2>6, <2>8, <2>11, <2>12 DEF ComputesSource
<1>2. CASE UNCHANGED vars
  BY <1>2 DEF vars, ComputesSource, IsSourceShaped
<1> QED BY <1>1, <1>2 DEF Next, Finished

\* In a safe case whose graph is orderly whenever a stage is to rewrite it, every
\* stage leaves a graph that computes from the inputs what the source computes.
THEOREM SafeCasesSameResults == Spec /\ []InOrder => SameResults
<1> DEFINE Step == ~raised' => Results(graph', source.env) = Results(source.graph, source.env)
<1>1. ComputesSource' /\ InOrder /\ [Next]_vars => [Step]_vars
  <2> SUFFICES ASSUME ComputesSource', InOrder, [Next]_vars, vars' # vars PROVE Step
    OBVIOUS
  <2>1. source' = source
    BY DEF Next, RunStage, Finished
  <2> QED BY <2>1 DEF ComputesSource, InOrder, IsSourceShaped
<1>2. Spec /\ []InOrder => []ComputesSource
  BY ComputesSourceInit, ComputesSourceNext, StaysRegularTheorem, PTL DEF Spec
<1>3. SameResults <=> [][Step]_vars
  BY DEF SameResults
<1> HIDE DEF Step
<1> QED BY <1>1, <1>2, <1>3, PTL DEF Spec

--------------------------------------------------------------------------------
(* Tame graphs                                                                  *)

\* Whether an operation is tame depends on the results of the graph and the ranks of
\* what the operation reads and gives.
SameRanks(g, h, n) == \A t \in Range(n.inputs) \cup Range(n.outputs) : RankOf(h, t) = RankOf(g, t)

\* So it is as tame in another graph with the same.
LEMMA TameIn ==
  ASSUME NEW g, NEW h, NEW n, IsRegularOp(n), h.outputs = g.outputs, SameRanks(g, h, n),
         NEW turned, NEW fixed, IsTameNode(g, n, turned, fixed)
  PROVE  IsTameNode(h, n, turned, fixed)
<1>1. IsSequence(n.inputs) /\ IsSequence(n.outputs) /\ Len(n.outputs) = 1
  BY DEF IsRegularOp, IsOp
<1>2. RankOut(h, n) = RankOut(g, n)
  <2>1. PICK u : u = n.outputs[1]
    OBVIOUS
  <2>2. u \in Range(n.outputs)
    BY <1>1, <2>1 DEF Range, IsSequence
  <2> QED BY <2>1, <2>2 DEF SameRanks, RankOut
<1>3. n.opcode \in UnaryOps => RankIn(h, n) = RankIn(g, n)
  <2>1. SUFFICES ASSUME n.opcode \in UnaryOps PROVE RankIn(h, n) = RankIn(g, n)
    OBVIOUS
  <2>2. Len(n.inputs) = 1
    BY <2>1 DEF IsRegularOp
  <2>3. Operand(n, 1) \in Range(n.inputs)
    BY <1>1, <2>2 DEF Operand, Range, IsSequence
  <2> QED BY <2>3 DEF SameRanks, RankIn
<1>4. NamesAxesAt(h, n, RankIn(h, n))
  <2>1. NamesAxesAt(g, n, RankIn(g, n))
    BY DEF IsTameNode
  <2>2. CASE n.opcode \notin {"UNSQUEEZE", "TRANSPOSE", "PERMUTE"}
    BY <2>2 DEF NamesAxesAt
  <2>3. CASE n.opcode \in {"UNSQUEEZE", "TRANSPOSE", "PERMUTE"}
    <3>1. PICK r : r = RankIn(g, n)
      OBVIOUS
    <3>2. RankIn(h, n) = r
      BY <1>3, <2>3, <3>1 DEF UnaryOps
    <3>3. NamesAxesAt(g, n, r)
      BY <2>1, <3>1
    <3>4. NamesAxesAt(h, n, r)
      BY <1>2, <3>3 DEF NamesAxesAt, RankOut
    <3> QED BY <3>2, <3>4
  <2> QED BY <2>2, <2>3
<1>5. KeepsRank(h, n)
  <2>1. KeepsRank(g, n)
    BY DEF IsTameNode
  <2> QED BY <1>2, <1>3, <2>1 DEF KeepsRank, UnaryOps
<1>6. IsTurn(h, n) <=> IsTurn(g, n)
  BY <1>3 DEF IsTurn, UnaryOps
<1> QED BY <1>4, <1>5, <1>6 DEF IsTameNode, GivesTurned

\* Tame operations in a listing make the rewritten graph tame.
AreTame(g, ops, X, turned, fixed) ==
  \A i \in X : IsNodeOf(g, ops[i]) /\ IsTameNode(g, ops[i], turned, fixed)

\* A graph of tame operations is tame.
LEMMA RewritingTame ==
  ASSUME NEW g, NEW h, IsRewriting(h, g), NEW turned, NEW fixed, IsTameFor(g, turned, fixed),
         NEW ops, NEW X, NEW place, IsListing(h.nodes, ops, X, place),
         AreTame(g, ops, X, turned, fixed)
  PROVE  IsTameFor(h, turned, fixed)
<1>1. ASSUME NEW t \in DOMAIN h.tensors, IsKnownConstant(h, t) PROVE t \in fixed
  <2>1. IsKnownConstant(g, t)
    BY <1>1 DEF IsRewriting, IsKnownConstant, HasTensor, Storage, HasData
  <2> QED BY <1>1, <2>1 DEF IsTameFor, IsRewriting
<1>2. ASSUME NEW p \in 1 .. Len(h.nodes) PROVE IsTameNode(h, h.nodes[p], turned, fixed)
  <2>1. PICK i \in X : place[i] = p
    BY DEF IsListing
  <2>2. PICK n : n = ops[i]
    OBVIOUS
  <2>3. h.nodes[p] = n
    BY <2>1, <2>2 DEF IsListing
  <2>4. IsNodeOf(g, n) /\ IsTameNode(g, n, turned, fixed)
    BY <2>2 DEF AreTame
  <2>5. IsRegularOp(n) /\ SameRanks(g, h, n)
    BY <2>4 DEF IsNodeOf, SameRanks, IsRewriting, RankOf
  <2>6. IsTameNode(h, n, turned, fixed)
    BY <2>4, <2>5, TameIn DEF IsRewriting
  <2> QED BY <2>3, <2>6
<1> QED BY <1>1, <1>2 DEF IsTameFor

\* What an operation of a tame graph reads is not returned.
LEMMA TameReads ==
  ASSUME NEW g, NEW turned, NEW fixed, IsTameFor(g, turned, fixed), NEW i \in 1 .. Len(g.nodes)
  PROVE  /\ IsTameNode(g, g.nodes[i], turned, fixed)
         /\ \A t \in Range(g.nodes[i].inputs) : t \notin Range(g.outputs)
BY DEF IsTameFor, IsTameNode

\* The operand of an operation that has one.
LEMMA SoleInput ==
  ASSUME NEW n, IsRegularOp(n), n.opcode \in UnaryOps
  PROVE  Range(n.inputs) = {Operand(n, 1)}
<1>1. IsSequence(n.inputs) /\ Len(n.inputs) = 1
  BY DEF IsRegularOp, IsOp
<1> QED BY <1>1 DEF IsSequence, Operand, Range

\* Nothing but fixed tensors becomes a constant.
LEMMA FoldedFixed ==
  ASSUME NEW g, IsRegular(g), NEW turned, NEW fixed, IsTameFor(g, turned, fixed),
         NEW fold, IsFolding(fold, g)
  PROVE  \A k \in 0 .. Len(g.nodes) : \A t : IsKnownConstant(fold[k], t) => t \in fixed
<1>1. Len(g.nodes) \in Nat /\ IsExecutable(g) /\ HasFields(g)
  BY RegularParts DEF IsTyped
<1> DEFINE Good == {k \in Nat : \A t : IsKnownConstant(fold[k], t) => t \in fixed}
<1>2. 0 \in Good
  <2>1. fold[0] = Emptied(g)
    BY <1>1, FoldingSteps
  <2>2. fold[0].tensors = g.tensors
    BY <1>1, <2>1 DEF Emptied, IsExecutable
  <2> QED BY <2>2 DEF IsTameFor, IsKnownConstant, HasTensor, Storage, HasData
<1>3. ASSUME NEW m \in Nat, m < Len(g.nodes), m \in Good PROVE m + 1 \in Good
  <2>1. PICK k : k = m + 1
    OBVIOUS
  <2>2. k \in 1 .. Len(g.nodes) /\ k - 1 = m /\ k \in Nat /\ m \in 0 .. Len(g.nodes)
    BY <1>1, <1>3, <2>1
  <2>3. PICK x : x = fold[m]
    OBVIOUS
  <2>4. PICK h : h = fold[k]
    OBVIOUS
  <2>5. PICK n : n = g.nodes[k]
    OBVIOUS
  <2>6. h = FoldNode(x, n)
    BY <1>1, <2>2, <2>3, <2>4, <2>5, FoldingSteps
  <2>7. DOMAIN x = DOMAIN g /\ DOMAIN x.tensors = DOMAIN g.tensors /\ HasFields(x)
    BY <1>1, <2>2, <2>3, FoldingTensors DEF IsFoldedGraph
  <2>8. {"nodes", "tensors"} \subseteq DOMAIN x
    BY <1>1, <2>7 DEF IsExecutable
  <2>9. \A t : IsKnownConstant(x, t) => t \in fixed
    BY <1>3, <2>3
  <2>10. IsTameNode(g, n, turned, fixed)
    BY <2>2, <2>5, TameReads
  <2>11. DOMAIN h.tensors = DOMAIN x.tensors
    BY <2>6, <2>7, <2>8, FoldNodeParts
  <2>12. ASSUME NEW t, IsKnownConstant(h, t) PROVE t \in fixed
    <3>1. CASE FoldedValue(x, n) = NoData
      <4>1. h.tensors = x.tensors
        BY <2>6, <2>7, <2>8, <3>1, FoldNodeParts
      <4>2. IsKnownConstant(x, t)
        BY <2>12, <4>1 DEF IsKnownConstant, HasTensor, Storage, HasData
      <4> QED BY <2>9, <4>2
    <3>2. CASE FoldedValue(x, n) # NoData /\ t # n.outputs[1]
      <4>1. \A u \in DOMAIN x.tensors \ {n.outputs[1]} : h.tensors[u] = x.tensors[u]
        BY <2>6, <2>7, <2>8, <3>2, FoldNodeParts
      <4>2. t \in DOMAIN x.tensors
        BY <2>11, <2>12 DEF IsKnownConstant, HasTensor
      <4>3. IsKnownConstant(x, t)
        BY <2>12, <3>2, <4>1, <4>2 DEF IsKnownConstant, HasTensor, Storage, HasData
      <4> QED BY <2>9, <4>3
    <3>3. CASE FoldedValue(x, n) # NoData /\ t = n.outputs[1]
      <4>1. \A j \in DOMAIN n.inputs : IsKnownConstant(x, Operand(n, j))
        BY <3>3 DEF FoldedValue
      <4>2. \A j \in DOMAIN n.inputs : n.inputs[j] \in fixed
        BY <2>9, <4>1 DEF Operand
      <4>3. GivesFixed(n, fixed)
        BY <4>2 DEF GivesFixed, Range
      <4> QED BY <2>10, <3>3, <4>3 DEF IsTameNode
    <3> QED BY <3>1, <3>2, <3>3
  <2>13. k \in Good
    BY <2>2, <2>4, <2>12
  <2> QED BY <2>1, <2>13
<1>4. \A m \in 0 .. Len(g.nodes) : m \in Good
  <2>1. \A m \in Nat : m < Len(g.nodes) /\ m \in Good => m + 1 \in Good
    BY <1>3
  <2> HIDE DEF Good
  <2> QED BY <1>1, <1>2, <2>1, UpTo
<1> QED BY <1>4

\* Folding the constants of a tame graph: concatenations that go give their dimension
\* both ways, and what is left is tame.
LEMMA TameConcats ==
  ASSUME NEW g, IsRegular(g), NEW turned, NEW fixed, IsTameFor(g, turned, fixed)
  PROVE  ConcatsByAxis(g)
<1>1. IsExecutable(g) /\ IsTyped(g) /\ NamesExist(g) /\ Len(g.nodes) \in Nat
  BY RegularParts
<1>2. PICK fold : IsFolding(fold, g) /\ ConstantFolding(g) = fold[Len(g.nodes)]
  BY <1>1, FoldingDefined DEF IsExecutable
<1>3. IsFoldingOf(fold, g)
  BY <1>1, <1>2 DEF IsFoldingOf
<1>4. PICK h : h = fold[Len(g.nodes)]
  OBVIOUS
<1>5. PICK place : IsListing(h.nodes, g.nodes, Left(fold, g), place)
  BY <1>3, <1>4, FoldedListing
<1>6. ASSUME NEW i \in 1 .. Len(g.nodes), g.nodes[i].opcode = "CONCAT", g.nodes[i] \notin Nodes(h)
      PROVE  Attribute(g.nodes[i], "axis", 0) = Attribute(g.nodes[i], "dim", 0)
  <2>1. i \notin Left(fold, g)
    <3>1. SUFFICES ASSUME i \in Left(fold, g) PROVE FALSE
      OBVIOUS
    <3>2. place[i] \in 1 .. Len(h.nodes) /\ h.nodes[place[i]] = g.nodes[i]
      BY <1>5, <3>1 DEF IsListing
    <3>3. DOMAIN h.nodes = 1 .. Len(h.nodes)
      BY <1>5 DEF IsListing, IsSequence
    <3> QED BY <1>6, <3>2, <3>3 DEF Nodes, Range
  <2>2. PICK x : x = fold[i - 1]
    OBVIOUS
  <2>3. PICK n : n = g.nodes[i]
    OBVIOUS
  <2>4. FoldedValue(x, n) # NoData
    BY <2>1, <2>2, <2>3 DEF Left, IsFoldedAt, FoldedAt
  <2>5. i - 1 \in 0 .. Len(g.nodes)
    BY <1>1
  <2>6. \A t : IsKnownConstant(x, t) => t \in fixed
    BY <1>2, <2>2, <2>5, FoldedFixed
  <2>7. \A j \in DOMAIN n.inputs : IsKnownConstant(x, Operand(n, j))
    BY <2>4 DEF FoldedValue
  <2>8. \A j \in DOMAIN n.inputs : n.inputs[j] \in fixed
    BY <2>6, <2>7 DEF Operand
  <2>9. GivesFixed(n, fixed)
    BY <2>8 DEF GivesFixed, Range
  <2>10. IsTameNode(g, n, turned, fixed)
    BY <2>3, TameReads
  <2> QED BY <1>6, <2>3, <2>9, <2>10 DEF IsTameNode
<1> QED BY <1>2, <1>4, <1>6 DEF ConcatsByAxis

\* What folding leaves of a tame graph is tame.
LEMMA FoldingTame ==
  ASSUME NEW g, IsRegular(g), NEW turned, NEW fixed, IsTameFor(g, turned, fixed)
  PROVE  IsTameFor(ConstantFolding(g), turned, fixed)
<1>1. IsExecutable(g) /\ IsTyped(g) /\ NamesExist(g) /\ Len(g.nodes) \in Nat
  BY RegularParts
<1>2. PICK fold : IsFolding(fold, g) /\ ConstantFolding(g) = fold[Len(g.nodes)]
  BY <1>1, FoldingDefined DEF IsExecutable
<1>3. IsFoldingOf(fold, g)
  BY <1>1, <1>2 DEF IsFoldingOf
<1>4. PICK h : h = fold[Len(g.nodes)]
  OBVIOUS
<1>5. PICK place : IsListing(h.nodes, g.nodes, Left(fold, g), place)
  BY <1>3, <1>4, FoldedListing
<1>6. h.outputs = g.outputs /\ DOMAIN h.tensors = DOMAIN g.tensors
  BY <1>3, <1>4, FoldedFields
<1>7. \A t \in DOMAIN g.tensors : h.tensors[t].shape = g.tensors[t].shape
  BY <1>3, <1>4, FoldedAll DEF IsFoldedGraph
<1>8. ASSUME NEW t, IsKnownConstant(h, t) PROVE t \in fixed
  <2>1. Len(g.nodes) \in 0 .. Len(g.nodes)
    BY <1>1
  <2> QED BY <1>2, <1>4, <1>8, <2>1, FoldedFixed
<1>9. ASSUME NEW p \in 1 .. Len(h.nodes) PROVE IsTameNode(h, h.nodes[p], turned, fixed)
  <2>1. PICK i \in Left(fold, g) : place[i] = p
    BY <1>5 DEF IsListing
  <2>2. PICK n : n = g.nodes[i]
    OBVIOUS
  <2>3. h.nodes[p] = n /\ i \in 1 .. Len(g.nodes)
    BY <1>5, <2>1, <2>2 DEF IsListing, Left
  <2>4. IsNodeOf(g, n) /\ IsTameNode(g, n, turned, fixed)
    BY <2>2, <2>3, RegularNode, TameReads
  <2>5. IsRegularOp(n) /\ SameRanks(g, h, n)
    BY <1>7, <2>4 DEF IsNodeOf, SameRanks, RankOf
  <2>6. IsTameNode(h, n, turned, fixed)
    BY <1>6, <2>4, <2>5, TameIn
  <2> QED BY <2>3, <2>6
<1>10. IsTameFor(h, turned, fixed)
  BY <1>8, <1>9 DEF IsTameFor
<1> QED BY <1>2, <1>4, <1>10

\* Dead code elimination leaves a tame graph tame.
LEMMA DeadCodeTame ==
  ASSUME NEW g, IsRegular(g), NEW turned, NEW fixed, IsTameFor(g, turned, fixed)
  PROVE  IsTameFor(DeadCodeElimination(g), turned, fixed)
<1>1. IsExecutable(g) /\ Len(g.nodes) \in Nat
  BY RegularParts
<1>2. PICK L : L = LiveTensors(g)
  OBVIOUS
<1>3. PICK K : K = L \cup AlwaysKept(g)
  OBVIOUS
<1>4. PICK h : h = Retain(g, L, K)
  OBVIOUS
<1>5. h = DeadCodeElimination(g)
  BY <1>2, <1>3, <1>4 DEF DeadCodeElimination
<1>6. PICK upto : IsRetained(h, g, L, K, upto)
  BY <1>1, <1>4, Retains
<1>7. IsRemoval(h, g, L, K, upto)
  BY <1>1, <1>2, <1>3, <1>6, LiveSet DEF IsRemoval
<1>8. IsRegular(h)
  BY <1>5, DeadCodeRegular
<1>9. h.tensors = [t \in DOMAIN g.tensors \cap K |-> g.tensors[t]] /\ h.outputs = g.outputs
  BY <1>6 DEF IsRetained
<1>10. DOMAIN h.tensors = DOMAIN g.tensors \cap K
       /\ \A t \in DOMAIN h.tensors : h.tensors[t] = g.tensors[t]
  BY <1>9
<1>11. ASSUME NEW t \in DOMAIN h.tensors, IsKnownConstant(h, t) PROVE t \in fixed
  <2>1. IsKnownConstant(g, t) /\ t \in DOMAIN g.tensors
    BY <1>10, <1>11 DEF IsKnownConstant, HasTensor, Storage, HasData
  <2> QED BY <2>1 DEF IsTameFor
<1>12. ASSUME NEW p \in 1 .. Len(h.nodes) PROVE IsTameNode(h, h.nodes[p], turned, fixed)
  <2>1. PICK i \in 1 .. Len(g.nodes) : h.nodes[p] = g.nodes[i]
    BY <1>7, PlaceOfLive
  <2>2. PICK n : n = g.nodes[i]
    OBVIOUS
  <2>3. IsTameNode(g, n, turned, fixed)
    BY <2>2, TameReads
  <2>4. IsNodeOf(h, n)
    BY <1>8, <2>1, <2>2, RegularNode
  <2>5. IsRegularOp(n) /\ SameRanks(g, h, n)
    BY <1>10, <2>4 DEF IsNodeOf, SameRanks, RankOf
  <2>6. IsTameNode(h, n, turned, fixed)
    BY <1>9, <2>3, <2>5, TameIn
  <2> QED BY <2>1, <2>2, <2>6
<1>13. IsTameFor(h, turned, fixed)
  BY <1>11, <1>12 DEF IsTameFor
<1> QED BY <1>5, <1>13

--------------------------------------------------------------------------------
(* Tame graphs are orderly                                                      *)

\* What a result is read by reads nothing returned.
LEMMA ReadNotReturned ==
  ASSUME NEW g, IsRegular(g), NEW turned, NEW fixed, IsTameFor(g, turned, fixed),
         NEW c \in 1 .. Len(g.nodes), IsSolelyRead(g, c)
  PROVE  Result(g, c) \notin Range(g.outputs)
<1>1. SoleReaderOf(g, c) \in 1 .. Len(g.nodes)
  BY DEF IsSolelyRead
<1>2. Result(g, c) \in Range(g.nodes[SoleReaderOf(g, c)].inputs)
  BY NextIsLater
<1> QED BY <1>1, <1>2, TameReads

\* The transposition after an attention that can be fused is a turn.
LEMMA PairTurns ==
  ASSUME NEW g, IsRegular(g), NEW c \in 1 .. Len(g.nodes), IsPair(g, "SDPA", "TRANSPOSE", c),
         NEW n, n = g.nodes[SoleReaderOf(g, c)]
  PROVE  IsTurn(g, n) /\ Operand(n, 1) = Result(g, c)
<1>1. IsSolelyRead(g, c) /\ n.opcode = "TRANSPOSE" /\ IsFoldable(g, c)
  BY DEF IsPair
<1>2. SoleReaderOf(g, c) \in 1 .. Len(g.nodes)
  BY <1>1 DEF IsSolelyRead
<1>3. Result(g, c) \in Range(n.inputs)
  BY <1>1, NextIsLater
<1>4. PICK t : t = Result(g, c)
  OBVIOUS
<1>5. Operand(n, 1) = t
  <2>1. PICK m \in 1 .. Len(g.nodes) : m = SoleReaderOf(g, c)
    BY <1>2
  <2>2. g.nodes[m].opcode \in UnaryOps /\ t \in Range(g.nodes[m].inputs)
    BY <1>1, <1>3, <1>4, <2>1 DEF UnaryOps
  <2>3. Operand(g.nodes[m], 1) = t
    BY <2>2, SoleOperand
  <2> QED BY <2>1, <2>3
<1>6. RankIn(g, n) = RankOf(g, t)
  BY <1>5 DEF RankIn
<1> QED BY <1>1, <1>4, <1>5, <1>6 DEF IsFoldable, IsTurn

\* A tame graph is orderly.
LEMMA TameOrderly ==
  ASSUME NEW g, IsRegular(g), NEW turned, NEW fixed, IsTameFor(g, turned, fixed)
  PROVE  IsOrderly(g)
<1>1. ConcatsByAxis(g)
  BY TameConcats
<1>2. NamesAxes(g)
  BY TameReads DEF NamesAxes, IsTameNode, RankIn
<1>3. NoneWithinReturned(g)
  <2>1. SUFFICES ASSUME NEW c \in 1 .. Len(g.nodes), IsMatch(g, c)
                 PROVE  Result(g, c) \notin Range(g.outputs)
                        /\ Result(g, MiddleOf(g, c)) \notin Range(g.outputs)
    BY DEF NoneWithinReturned
  <2>2. IsSolelyRead(g, c) /\ IsSolelyRead(g, MiddleOf(g, c)) /\ MiddleOf(g, c) \in 1 .. Len(g.nodes)
    BY <2>1 DEF IsMatch, IsSolelyRead, MiddleOf
  <2> QED BY <2>2, ReadNotReturned
<1>4. ASSUME NEW head, NEW tail PROVE NonePairReturned(g, head, tail)
  BY ReadNotReturned DEF NonePairReturned, IsPair
<1>5. NoneTransposedTwice(g)
  <2>1. SUFFICES ASSUME NEW c \in 1 .. Len(g.nodes), IsPair(g, "SDPA", "TRANSPOSE", c),
                        Attribute(g.nodes[c], "fused_transpose", 0) = 1
                 PROVE  FALSE
    BY DEF NoneTransposedTwice
  <2>2. PICK n : n = g.nodes[SoleReaderOf(g, c)]
    OBVIOUS
  <2>3. IsTurn(g, n) /\ Operand(n, 1) = Result(g, c)
    BY <2>1, <2>2, PairTurns
  <2>4. IsTameNode(g, n, turned, fixed)
    <3>1. SoleReaderOf(g, c) \in 1 .. Len(g.nodes)
      BY <2>1 DEF IsPair, IsSolelyRead
    <3> QED BY <2>2, <3>1, TameReads
  <2>5. Result(g, c) \notin turned
    BY <2>3, <2>4 DEF IsTameNode
  <2>6. IsTameNode(g, g.nodes[c], turned, fixed)
    BY TameReads
  <2>7. GivesTurned(g, g.nodes[c], turned)
    BY <2>1 DEF GivesTurned, IsPair
  <2> QED BY <2>5, <2>6, <2>7 DEF IsTameNode, Result
<1> QED BY <1>1, <1>2, <1>3, <1>4, <1>5 DEF IsOrderly

--------------------------------------------------------------------------------
(* The passes leave a tame graph tame                                           *)

\* An operation that moves nothing and concatenates nothing is tame when what it reads
\* is not returned and its result is turned and fixed where it has to be.
IsQuiet(n) == n.opcode \in {"CONV2D", "SDPA", "SWIGLU"}

\* Nothing else is asked of it.
LEMMA QuietTame ==
  ASSUME NEW g, NEW n, IsQuiet(n), NEW turned, NEW fixed,
         Range(n.inputs) \cap Range(g.outputs) = {},
         n.opcode = "SDPA" => n.outputs[1] \in turned,
         GivesFixed(n, fixed) => n.outputs[1] \in fixed
  PROVE  IsTameNode(g, n, turned, fixed)
<1>1. NamesAxesAt(g, n, RankIn(g, n)) /\ KeepsRank(g, n) /\ ~IsTurn(g, n)
  BY DEF IsQuiet, NamesAxesAt, KeepsRank, IsTurn
<1>2. n.opcode # "CONCAT" /\ n.opcode \notin Movers
  BY DEF IsQuiet, Movers
<1> QED BY <1>1, <1>2 DEF IsTameNode, GivesTurned

\* What is fixed is so after a chain of two operations.
LEMMA FixedThrough ==
  ASSUME NEW g, IsRegular(g), NEW turned, NEW fixed, IsTameFor(g, turned, fixed),
         NEW c \in 1 .. Len(g.nodes), IsSolelyRead(g, c),
         NEW n, n = g.nodes[SoleReaderOf(g, c)], n.opcode \in UnaryOps,
         Result(g, c) \in fixed
  PROVE  n.outputs[1] \in fixed
<1>1. SoleReaderOf(g, c) \in 1 .. Len(g.nodes)
  BY DEF IsSolelyRead
<1>2. Result(g, c) \in Range(n.inputs)
  BY NextIsLater
<1>3. Range(n.inputs) = {Operand(n, 1)}
  BY <1>1, RegularNode, SoleInput
<1>4. GivesFixed(n, fixed)
  BY <1>2, <1>3 DEF GivesFixed
<1>5. IsTameNode(g, n, turned, fixed)
  BY <1>1, TameReads
<1> QED BY <1>4, <1>5 DEF IsTameNode

\* An operation that takes over the result of the one after it.
LEMMA TakenTame ==
  ASSUME NEW g, IsRegular(g), NEW turned, NEW fixed, IsTameFor(g, turned, fixed),
         NEW head, NEW tail, <<head, tail>> \in {<<"CONV2D", "RELU">>, <<"SDPA", "TRANSPOSE">>},
         NEW C, ArePairs(g, head, tail, C), NEW h, NEW ops, NEW place,
         IsTakenGraph(h, g, C, ops, place)
  PROVE  IsTameFor(h, turned, fixed)
<1>1. PICK X : X = Remaining(g, Tails(g, C))
  OBVIOUS
<1>2. IsRewriting(h, g) /\ AreTaken(ops, g, C) /\ IsListing(h.nodes, ops, X, place)
      /\ \A i \in X : IsNodeOf(g, ops[i])
  BY <1>1 DEF IsTakenGraph
<1>3. ASSUME NEW i \in X PROVE IsTameNode(g, ops[i], turned, fixed)
  <2>1. i \in 1 .. Len(g.nodes)
    BY <1>1 DEF Remaining
  <2>2. PICK n : n = ops[i]
    OBVIOUS
  <2>3. IsTaken(n, g, C, i)
    BY <1>2, <2>1, <2>2 DEF AreTaken
  <2>4. IsTameNode(g, g.nodes[i], turned, fixed)
    BY <2>1, TameReads
  <2>5. CASE i \notin C
    <3>1. n = g.nodes[i]
      BY <2>3, <2>5 DEF IsTaken
    <3> QED BY <2>2, <2>4, <3>1
  <2>6. CASE i \in C
    <3>1. IsPair(g, head, tail, i)
      BY <2>6 DEF ArePairs
    <3>2. PICK after : after = g.nodes[SoleReaderOf(g, i)]
      OBVIOUS
    <3>3. /\ n.opcode = g.nodes[i].opcode /\ n.inputs = g.nodes[i].inputs
          /\ n.outputs = after.outputs
      BY <2>3, <2>6, <3>2 DEF IsTaken
    <3>4. /\ g.nodes[i].opcode = head /\ IsSolelyRead(g, i) /\ after.opcode = tail
      BY <3>1, <3>2 DEF IsPair
    <3>5. head \in {"CONV2D", "SDPA"} /\ tail \in UnaryOps
      BY DEF UnaryOps
    <3>6. IsQuiet(n)
      BY <3>3, <3>4, <3>5 DEF IsQuiet
    <3>7. Range(n.inputs) \cap Range(g.outputs) = {}
      BY <2>4, <3>3 DEF IsTameNode
    <3>8. ASSUME n.opcode = "SDPA" PROVE n.outputs[1] \in turned
      <4>1. head = "SDPA" /\ tail = "TRANSPOSE"
        BY <3>3, <3>4, <3>8
      <4>2. IsTurn(g, after)
        BY <2>1, <3>1, <3>2, <4>1, PairTurns
      <4>3. IsTameNode(g, after, turned, fixed)
        BY <3>2, <3>4, TameReads DEF IsSolelyRead
      <4> QED BY <3>3, <4>2, <4>3 DEF IsTameNode, GivesTurned
    <3>9. ASSUME GivesFixed(n, fixed) PROVE n.outputs[1] \in fixed
      <4>1. Result(g, i) \in fixed
        BY <2>4, <3>3, <3>9 DEF IsTameNode, GivesFixed, Result
      <4> QED BY <2>1, <3>2, <3>3, <3>4, <3>5, <4>1, FixedThrough
    <3>10. IsTameNode(g, n, turned, fixed)
      BY <3>6, <3>7, <3>8, <3>9, QuietTame
    <3> QED BY <2>2, <3>10
  <2> QED BY <2>5, <2>6
<1>4. AreTame(g, ops, X, turned, fixed)
  BY <1>2, <1>3 DEF AreTame
<1> QED BY <1>2, <1>4, RewritingTame

\* Fusing convolutions with ReLU keeps a graph tame.
LEMMA ConvReluTame ==
  ASSUME NEW g, IsRegular(g), NEW turned, NEW fixed, IsTameFor(g, turned, fixed)
  PROVE  IsTameFor(FuseConvRelu(g), turned, fixed)
<1>1. PICK h : h = FuseConvRelu(g)
  OBVIOUS
<1>2. PICK C, s : ArePairs(g, "CONV2D", "RELU", C) /\ IsTaking(s, g, C) /\ h = Swept(s)
  BY <1>1, ConvReluTakes
<1>3. PICK head, tail : head = "CONV2D" /\ tail = "RELU"
  OBVIOUS
<1>4. AreKinds(head, tail)
  BY <1>3 DEF AreKinds, UnaryOps
<1>5. PICK ops, place : IsTakenGraph(h, g, C, ops, place)
  BY <1>2, <1>3, <1>4, TakingLeaves
<1> QED BY <1>1, <1>2, <1>3, <1>5, TakenTame

\* Folding transpositions into attentions does.
LEMMA SdpaTame ==
  ASSUME NEW g, IsRegular(g), NEW turned, NEW fixed, IsTameFor(g, turned, fixed)
  PROVE  IsTameFor(FuseSdpaTranspose(g), turned, fixed)
<1>1. PICK h : h = FuseSdpaTranspose(g)
  OBVIOUS
<1>2. PICK C, s : ArePairs(g, "SDPA", "TRANSPOSE", C) /\ IsTaking(s, g, C) /\ h = Swept(s)
  BY <1>1, SdpaTakes
<1>3. PICK head, tail : head = "SDPA" /\ tail = "TRANSPOSE"
  OBVIOUS
<1>4. AreKinds(head, tail)
  BY <1>3 DEF AreKinds, UnaryOps
<1>5. PICK ops, place : IsTakenGraph(h, g, C, ops, place)
  BY <1>2, <1>3, <1>4, TakingLeaves
<1> QED BY <1>1, <1>2, <1>3, <1>5, TakenTame

\* A gated product is fixed only if the activation's operand is.
LEMMA GatedTame ==
  ASSUME NEW g, IsRegular(g), NEW turned, NEW fixed, IsTameFor(g, turned, fixed),
         NEW c \in 1 .. Len(g.nodes), NEW p \in 1 .. c - 1, NEW n, IsGated(n, g, c, p)
  PROVE  IsTameNode(g, n, turned, fixed)
<1>1. Len(g.nodes) \in Nat /\ p \in 1 .. Len(g.nodes)
  BY RegularParts
<1>2. IsTameNode(g, g.nodes[c], turned, fixed) /\ IsTameNode(g, g.nodes[p], turned, fixed)
  BY <1>1, TameReads
<1>3. /\ g.nodes[p].opcode = "SILU" /\ n.opcode = "SWIGLU" /\ n.outputs = g.nodes[c].outputs
      /\ \A t \in Range(n.inputs) : t \in Range(g.nodes[p].inputs) \/ t \in Range(g.nodes[c].inputs)
      /\ IsFactor(n, g, c, p) /\ IsSequence(n.inputs)
  BY DEF IsGated
<1>4. Range(n.inputs) \cap Range(g.outputs) = {}
  BY <1>2, <1>3 DEF IsTameNode
<1>5. ASSUME GivesFixed(n, fixed) PROVE n.outputs[1] \in fixed
  <2>1. Len(n.inputs) = 2 /\ n.inputs[1] = g.nodes[p].inputs[1]
    BY <1>3 DEF IsFactor
  <2>2. PICK j, o \in 1 .. 2 : /\ j # o /\ DOMAIN g.nodes[c].inputs = 1 .. 2
                              /\ g.nodes[c].inputs[j] = Result(g, p) /\ g.nodes[c].inputs[o] = n.inputs[2]
    BY <1>3 DEF IsFactor
  <2>3. n.inputs[1] \in fixed /\ n.inputs[2] \in fixed
    <3>1. 1 \in DOMAIN n.inputs /\ 2 \in DOMAIN n.inputs
      BY <1>3, <2>1 DEF IsSequence
    <3> QED BY <1>5, <3>1 DEF GivesFixed, Range
  <2>4. Range(g.nodes[p].inputs) = {g.nodes[p].inputs[1]}
    <3>1. IsRegularOp(g.nodes[p]) /\ IsSequence(g.nodes[p].inputs)
      BY <1>1, RegularNode
    <3>2. Len(g.nodes[p].inputs) = 1
      BY <1>3, <3>1 DEF IsRegularOp, UnaryOps
    <3> QED BY <3>1, <3>2 DEF IsSequence, Range
  <2>5. Result(g, p) \in fixed
    BY <1>2, <2>1, <2>3, <2>4 DEF IsTameNode, GivesFixed, Result
  <2>6. \A k \in 1 .. 2 : g.nodes[c].inputs[k] \in fixed
    <3>1. \A k \in 1 .. 2 : k = j \/ k = o
      BY <2>2
    <3> QED BY <2>2, <2>3, <2>5, <3>1
  <2>7. GivesFixed(g.nodes[c], fixed)
    BY <2>2, <2>6 DEF GivesFixed, Range
  <2> QED BY <1>2, <1>3, <2>7 DEF IsTameNode
<1>6. IsQuiet(n) /\ n.opcode # "SDPA"
  BY <1>3 DEF IsQuiet
<1> QED BY <1>4, <1>5, <1>6, QuietTame

\* Gating products does.
LEMMA SwigluTame ==
  ASSUME NEW g, IsRegular(g), NEW turned, NEW fixed, IsTameFor(g, turned, fixed)
  PROVE  IsTameFor(FuseSwiglu(g), turned, fixed)
<1>1. PICK h : h = FuseSwiglu(g)
  OBVIOUS
<1>2. PICK C, Gone, ops, place : IsGatedGraph(h, g, C, Gone, ops, place)
  BY <1>1, SwigluGates
<1>3. PICK X : X = Remaining(g, Gone)
  OBVIOUS
<1>4. IsRewriting(h, g) /\ AreGated(ops, g, Len(g.nodes), C) /\ IsListing(h.nodes, ops, X, place)
      /\ \A i \in X : IsNodeOf(g, ops[i])
  BY <1>2, <1>3 DEF IsGatedGraph
<1>5. ASSUME NEW i \in X PROVE IsTameNode(g, ops[i], turned, fixed)
  <2>1. i \in 1 .. Len(g.nodes)
    BY <1>3 DEF Remaining
  <2>2. CASE i \notin C
    <3>1. ops[i] = g.nodes[i]
      BY <1>4, <2>1, <2>2 DEF AreGated
    <3> QED BY <2>1, <3>1, TameReads
  <2>3. CASE i \in C
    <3>1. PICK n : n = ops[i]
      OBVIOUS
    <3>2. PICK p \in 1 .. i - 1 : IsGated(n, g, i, p)
      BY <1>4, <2>3, <3>1 DEF AreGated
    <3>3. IsTameNode(g, n, turned, fixed)
      BY <2>1, <3>2, GatedTame
    <3> QED BY <3>1, <3>3
  <2> QED BY <2>2, <2>3
<1>6. AreTame(g, ops, X, turned, fixed)
  BY <1>4, <1>5 DEF AreTame
<1> QED BY <1>1, <1>4, <1>6, RewritingTame

\* What an operation that only moves its operand does for a tame graph.
LEMMA MovesOn ==
  ASSUME NEW g, IsRegular(g), NEW turned, NEW fixed, IsTameFor(g, turned, fixed),
         NEW i \in 1 .. Len(g.nodes), g.nodes[i].opcode \in Movers,
         NEW u, u = Operand(g.nodes[i], 1), NEW o, o = Result(g, i)
  PROVE  (u \in turned => o \in turned) /\ (u \in fixed => o \in fixed)
<1>1. IsTameNode(g, g.nodes[i], turned, fixed)
  BY TameReads
<1>2. Range(g.nodes[i].inputs) = {u}
  <2>1. g.nodes[i].opcode \in UnaryOps
    BY DEF Movers, UnaryOps
  <2> QED BY <2>1, RegularNode, SoleInput
<1>3. u \in turned => o \in turned
  BY <1>1 DEF IsTameNode, GivesTurned, Result
<1>4. u \in fixed => o \in fixed
  BY <1>1, <1>2 DEF IsTameNode, GivesFixed, Result
<1> QED BY <1>3, <1>4

\* The permutation in the place of a match.
LEMMA PermutationTame ==
  ASSUME NEW g, IsRegular(g), NEW turned, NEW fixed, IsTameFor(g, turned, fixed),
         NEW c \in 1 .. Len(g.nodes), IsMatch(g, c), NEW perm, IsPermutationAt(perm, g, c)
  PROVE  IsTameNode(g, perm, turned, fixed)
<1>1. NamesAxes(g)
  BY TameOrderly DEF IsOrderly
<1>2. PICK n, u, s, p, q, dims : IsResolved(g, c, n, u, s, p, q, dims)
  BY <1>1, MatchResolved
<1>3. PICK m \in 1 .. Len(g.nodes), l \in 1 .. Len(g.nodes) : m = MiddleOf(g, c) /\ l = LastOf(g, c)
  BY MatchPlaces
<1>4. /\ g.nodes[c].opcode = "UNSQUEEZE" /\ g.nodes[m].opcode \in {"TRANSPOSE", "PERMUTE"}
      /\ g.nodes[l].opcode = "SQUEEZE"
      /\ IsSolelyRead(g, c) /\ IsSolelyRead(g, m) /\ SoleReaderOf(g, c) = m /\ SoleReaderOf(g, m) = l
  BY <1>3 DEF IsMatch, MiddleOf, LastOf
<1>5. PICK u0, o1, o2, o3 : u0 = Operand(g.nodes[c], 1) /\ o1 = Result(g, c)
                            /\ o2 = Result(g, m) /\ o3 = Result(g, l)
  OBVIOUS
<1>6. Operand(g.nodes[m], 1) = o1 /\ Operand(g.nodes[l], 1) = o2
  <2>1. o1 \in Range(g.nodes[m].inputs) /\ o2 \in Range(g.nodes[l].inputs)
    BY <1>4, <1>5, NextIsLater
  <2>2. g.nodes[m].opcode \in UnaryOps /\ g.nodes[l].opcode \in UnaryOps
    BY <1>4 DEF UnaryOps
  <2> QED BY <2>1, <2>2, SoleOperand
<1>7. g.nodes[c].opcode \in Movers /\ g.nodes[m].opcode \in Movers /\ g.nodes[l].opcode \in Movers
  BY <1>4 DEF Movers
<1>8. (u0 \in turned => o3 \in turned) /\ (u0 \in fixed => o3 \in fixed)
  <2>1. (u0 \in turned => o1 \in turned) /\ (u0 \in fixed => o1 \in fixed)
    BY <1>5, <1>7, MovesOn
  <2>2. (o1 \in turned => o2 \in turned) /\ (o1 \in fixed => o2 \in fixed)
    BY <1>5, <1>6, <1>7, MovesOn
  <2>3. (o2 \in turned => o3 \in turned) /\ (o2 \in fixed => o3 \in fixed)
    BY <1>5, <1>6, <1>7, MovesOn
  <2> QED BY <2>1, <2>2, <2>3
<1>9. /\ perm.opcode = "PERMUTE" /\ perm.inputs = g.nodes[c].inputs
      /\ perm.outputs = g.nodes[l].outputs
      /\ perm.attributes = [dims |-> RemoveAt(PatternDims(g, c), PatternPlace(g, c))]
  BY <1>3 DEF IsPermutationAt
<1>10. Operand(perm, 1) = u0 /\ perm.outputs[1] = o3 /\ Range(perm.inputs) = {u0}
  <2>1. g.nodes[c].opcode \in UnaryOps
    BY <1>4 DEF UnaryOps
  <2>2. Range(g.nodes[c].inputs) = {u0}
    BY <1>5, <2>1, RegularNode, SoleInput
  <2> QED BY <1>5, <1>9, <2>2 DEF Operand, Result
<1>11. PermutedDims(perm) = dims
  <2>1. PICK a : a = RemoveAt(PatternDims(g, c), PatternPlace(g, c))
    OBVIOUS
  <2>2. dims = a
    BY <1>2, <2>1 DEF IsResolved
  <2>3. perm.attributes = [dims |-> a]
    BY <1>9, <2>1
  <2> QED BY <2>2, <2>3 DEF Attribute, PermutedDims
<1>12. /\ n \in Nat /\ n = RankOf(g, u0) /\ IsSequence(dims) /\ Len(dims) = n
       /\ [k \in 1 .. n |-> Axis(dims[k], n)] = q /\ IsPermutation(q, n)
  BY <1>2, <1>5 DEF IsResolved
<1>13. RankIn(g, perm) = n
  BY <1>10, <1>12 DEF RankIn
<1>14. NamesAxesAt(g, perm, n)
  BY <1>9, <1>11, <1>12 DEF NamesAxesAt
<1>15. IsTameNode(g, g.nodes[c], turned, fixed) /\ IsTameNode(g, g.nodes[m], turned, fixed)
       /\ IsTameNode(g, g.nodes[l], turned, fixed)
  BY TameReads
<1>16. RankOf(g, o3) = n
  <2>1. RankOf(g, o1) = n + 1
    <3>1. NamesAxesAt(g, g.nodes[c], RankIn(g, g.nodes[c]))
      BY <1>15 DEF IsTameNode
    <3>2. RankIn(g, g.nodes[c]) = n
      BY <1>5, <1>12 DEF RankIn
    <3> QED BY <1>4, <1>5, <3>1, <3>2 DEF NamesAxesAt, Result
  <2>2. RankOf(g, o2) = RankOf(g, o1)
    BY <1>4, <1>5, <1>6, <1>15 DEF IsTameNode, KeepsRank, RankIn, RankOut, Result
  <2>3. RankOf(g, o3) = RankOf(g, o2) - 1
    BY <1>4, <1>5, <1>6, <1>15 DEF IsTameNode, KeepsRank, RankIn, RankOut, Result
  <2> QED BY <1>12, <2>1, <2>2, <2>3
<1>17. KeepsRank(g, perm)
  BY <1>9, <1>10, <1>13, <1>16 DEF KeepsRank, RankOut
<1>18. Range(perm.inputs) \cap Range(g.outputs) = {}
  BY <1>9, <1>15 DEF IsTameNode
<1>19. ~IsTurn(g, perm) /\ perm.opcode # "CONCAT" /\ perm.opcode # "SDPA"
  BY <1>9 DEF IsTurn
<1>20. GivesTurned(g, perm, turned) => perm.outputs[1] \in turned
  BY <1>8, <1>10, <1>19 DEF GivesTurned
<1>21. GivesFixed(perm, fixed) => perm.outputs[1] \in fixed
  BY <1>8, <1>10 DEF GivesFixed
<1> QED BY <1>13, <1>14, <1>17, <1>18, <1>19, <1>20, <1>21 DEF IsTameNode

\* The replacement of matches does.
LEMMA PatternTame ==
  ASSUME NEW g, IsRegular(g), NEW turned, NEW fixed, IsTameFor(g, turned, fixed)
  PROVE  IsTameFor(FuseUnsqueezeTransposeSqueeze(g), turned, fixed)
<1>1. PICK h : h = FuseUnsqueezeTransposeSqueeze(g)
  OBVIOUS
<1>2. PICK s, ops, place : IsPatternGraph(h, g, s, ops, place)
  BY <1>1, PatternIs
<1>3. PICK X : X = Remaining(g, Superfluous(g, Matched(s, g)))
  OBVIOUS
<1>4. /\ IsRewriting(h, g) /\ IsPatternState(s, g) /\ ops = PermutedOps(g, s)
      /\ IsListing(h.nodes, ops, X, place) /\ \A i \in 1 .. Len(g.nodes) : IsNodeOf(g, ops[i])
  BY <1>2, <1>3 DEF IsPatternGraph
<1>5. ASSUME NEW i \in X PROVE IsNodeOf(g, ops[i]) /\ IsTameNode(g, ops[i], turned, fixed)
  <2>1. i \in 1 .. Len(g.nodes)
    BY <1>3 DEF Remaining
  <2>2. CASE i \notin Matched(s, g)
    <3>1. ops[i] = g.nodes[i]
      BY <1>4, <2>1, <2>2 DEF PermutedOps, Matched
    <3> QED BY <1>4, <2>1, <3>1, TameReads
  <2>3. CASE i \in Matched(s, g)
    <3>1. PICK perm : perm = s.perms[g.nodes[i].id]
      OBVIOUS
    <3>2. ops[i] = perm
      BY <1>4, <2>1, <2>3, <3>1 DEF PermutedOps, Matched
    <3>3. IsMatch(g, i) /\ IsPermutationAt(perm, g, i)
      BY <1>4, <2>3, <3>1 DEF IsPatternState
    <3>4. IsTameNode(g, perm, turned, fixed)
      BY <2>1, <3>3, PermutationTame
    <3> QED BY <1>4, <2>1, <3>2, <3>4
  <2> QED BY <2>2, <2>3
<1>6. AreTame(g, ops, X, turned, fixed)
  BY <1>5 DEF AreTame
<1> QED BY <1>1, <1>4, <1>6, RewritingTame

--------------------------------------------------------------------------------
(* Pruning a tame graph                                                         *)

\* A name that stands for another: of the same rank, turned or fixed only if that is,
\* and not returned.
IsAlike(g, turned, fixed, t, u) ==
  /\ RankOf(g, t) = RankOf(g, u) /\ t \notin Range(g.outputs)
  /\ t \in turned => u \in turned
  /\ t \in fixed => u \in fixed

AreAlike(g, turned, fixed, remap) ==
  \A o \in DOMAIN remap : IsAlike(g, turned, fixed, remap[o], o)

\* So every name is like the one it is replaced by.
LEMMA RenamedAlike ==
  ASSUME NEW g, NEW turned, NEW fixed, NEW remap, AreAlike(g, turned, fixed, remap),
         NEW u, u \notin Range(g.outputs)
  PROVE  IsAlike(g, turned, fixed, Renamed(remap, u), u)
BY DEF AreAlike, IsAlike, Renamed

\* All names of the walk are like what they stand for.
LEMMA RemapsAlike ==
  ASSUME NEW g, IsRegular(g), NEW turned, NEW fixed, IsTameFor(g, turned, fixed),
         NEW prune, IsPrune(prune, g)
  PROVE  \A k \in 0 .. Len(g.nodes) : AreAlike(g, turned, fixed, prune[k].remap)
<1>1. Len(g.nodes) \in Nat
  BY RegularParts
<1> DEFINE Good == {k \in Nat : AreAlike(g, turned, fixed, prune[k].remap)}
<1>2. 0 \in Good
  <2>1. prune[0] = PruneStart(g)
    BY PruneSteps
  <2>2. DOMAIN prune[0].remap = {}
    BY <2>1 DEF PruneStart
  <2> QED BY <2>2 DEF AreAlike
<1>3. ASSUME NEW n \in Nat, n < Len(g.nodes), n \in Good PROVE n + 1 \in Good
  <2>1. PICK k : k = n + 1
    OBVIOUS
  <2>2. k \in 1 .. Len(g.nodes) /\ k - 1 = n /\ k \in Nat
    BY <1>1, <1>3, <2>1
  <2>3. /\ IsPrunedAt(prune, g, k) => IsPrunedTo(prune[k - 1], g.nodes[k], prune[k])
        /\ ~IsPrunedAt(prune, g, k) => IsKeptTo(prune[k - 1], g.nodes[k], prune[k])
    BY <2>2, PruneStep
  <2>4. PICK before : before = prune[n].remap
    OBVIOUS
  <2>5. PICK after : after = prune[k].remap
    OBVIOUS
  <2>6. AreAlike(g, turned, fixed, before)
    BY <1>3, <2>4
  <2>7. CASE ~IsPrunedAt(prune, g, k)
    <3>1. after = before
      BY <2>2, <2>3, <2>4, <2>5, <2>7 DEF IsKeptTo
    <3> QED BY <2>1, <2>2, <2>5, <2>6, <3>1
  <2>8. CASE IsPrunedAt(prune, g, k)
    <3>1. PICK o : o = Result(g, k)
      OBVIOUS
    <3>2. PICK u : u = Operand(g.nodes[k], 1)
      OBVIOUS
    <3>3. after = With(before, o, Renamed(before, u))
      BY <2>2, <2>3, <2>4, <2>5, <2>8, <3>1, <3>2 DEF IsPrunedTo, Result
    <3>4. /\ DOMAIN after = DOMAIN before \cup {o} /\ after[o] = Renamed(before, u)
          /\ \A t \in DOMAIN before : t # o => after[t] = before[t]
      BY SMTT(40), <3>3 DEF With
    <3>5. g.nodes[k].opcode \in {"TRANSPOSE", "PERMUTE", "CAST"}
      BY <2>8 DEF IsPrunedAt, IsIdentity
    <3>6. (u \in turned => o \in turned) /\ (u \in fixed => o \in fixed)
      BY <2>2, <3>1, <3>2, <3>5, MovesOn DEF Movers
    <3>7. IsTameNode(g, g.nodes[k], turned, fixed)
      BY <2>2, TameReads
    <3>8. RankOf(g, o) = RankOf(g, u)
      BY <3>1, <3>2, <3>5, <3>7 DEF IsTameNode, KeepsRank, RankIn, RankOut, Result
    <3>9. u \notin Range(g.outputs)
      <4>1. Range(g.nodes[k].inputs) = {u}
        BY <2>2, <3>2, <3>5, RegularNode, SoleInput DEF UnaryOps
      <4> QED BY <3>7, <4>1 DEF IsTameNode
    <3>10. IsAlike(g, turned, fixed, Renamed(before, u), u)
      BY <2>6, <3>9, RenamedAlike
    <3>11. IsAlike(g, turned, fixed, after[o], o)
      BY <3>4, <3>6, <3>8, <3>10 DEF IsAlike
    <3>12. AreAlike(g, turned, fixed, after)
      BY <2>6, <3>4, <3>11 DEF AreAlike
    <3> QED BY <2>1, <2>2, <2>5, <3>12
  <2> QED BY <2>7, <2>8
<1>4. \A n \in 0 .. Len(g.nodes) : n \in Good
  <2>1. \A n \in Nat : n < Len(g.nodes) /\ n \in Good => n + 1 \in Good
    BY <1>3
  <2> HIDE DEF Good
  <2> QED BY <1>1, <1>2, <2>1, UpTo
<1> QED BY <1>4

\* An operation with renamed operands.
LEMMA RenamedTame ==
  ASSUME NEW g, NEW n, IsRegularOp(n), NEW turned, NEW fixed, IsTameNode(g, n, turned, fixed),
         NEW remap, AreAlike(g, turned, fixed, remap)
  PROVE  IsTameNode(g, RenamedNode(remap, n), turned, fixed)
<1>1. PICK r : r = RenamedNode(remap, n)
  OBVIOUS
<1>2. IsRenaming(r, n, remap)
  BY <1>1, RenamedParts
<1>3. OpFields \subseteq DOMAIN n /\ IsSequence(n.inputs)
  BY DEF IsRegularOp, IsOp
<1>4. r.attributes = n.attributes
  BY <1>1, <1>3 DEF RenamedNode, OpFields
<1>5. /\ IsRegularOp(r) /\ r.outputs = n.outputs /\ r.opcode = n.opcode
      /\ \A k \in DOMAIN n.inputs : r.inputs[k] = Renamed(remap, n.inputs[k])
      /\ \A t \in Range(r.inputs) : \E u \in Range(n.inputs) : t = Renamed(remap, u)
      /\ DOMAIN r.inputs = DOMAIN n.inputs
  <2>1. Len(r.inputs) = Len(n.inputs) /\ IsSequence(r.inputs)
    BY <1>2 DEF IsRenaming, IsRegularOp, IsOp
  <2> QED BY <1>2, <1>3, <2>1 DEF IsRenaming, IsSequence
<1>6. \A u \in Range(n.inputs) : IsAlike(g, turned, fixed, Renamed(remap, u), u)
  <2>1. \A u \in Range(n.inputs) : u \notin Range(g.outputs)
    BY DEF IsTameNode
  <2> QED BY <2>1, RenamedAlike
<1>7. Range(r.inputs) \cap Range(g.outputs) = {}
  BY <1>5, <1>6 DEF IsAlike
<1>8. \A key, default : Attribute(r, key, default) = Attribute(n, key, default)
  BY <1>4 DEF Attribute
<1>9. n.opcode \in UnaryOps => IsAlike(g, turned, fixed, Operand(r, 1), Operand(n, 1))
  <2>1. SUFFICES ASSUME n.opcode \in UnaryOps
                 PROVE  IsAlike(g, turned, fixed, Operand(r, 1), Operand(n, 1))
    OBVIOUS
  <2>2. Len(n.inputs) = 1
    BY <2>1 DEF IsRegularOp
  <2>3. 1 \in DOMAIN n.inputs
    BY <1>3, <2>2 DEF IsSequence
  <2>4. PICK u : u = n.inputs[1]
    OBVIOUS
  <2>5. Operand(n, 1) = u /\ Operand(r, 1) = Renamed(remap, u) /\ u \in Range(n.inputs)
    BY <1>5, <2>3, <2>4 DEF Operand, Range
  <2> QED BY <1>6, <2>5
<1>10. n.opcode \in UnaryOps => RankIn(g, r) = RankIn(g, n)
  BY <1>9 DEF IsAlike, RankIn
<1>11. RankOut(g, r) = RankOut(g, n)
  BY <1>5 DEF RankOut
<1>12. NamesAxesAt(g, r, RankIn(g, r))
  <2>1. NamesAxesAt(g, n, RankIn(g, n))
    BY DEF IsTameNode
  <2>2. CASE n.opcode \notin {"UNSQUEEZE", "TRANSPOSE", "PERMUTE"}
    BY <1>5, <2>2 DEF NamesAxesAt
  <2>3. CASE n.opcode \in {"UNSQUEEZE", "TRANSPOSE", "PERMUTE"}
    <3>1. PICK k : k = RankIn(g, n)
      OBVIOUS
    <3>2. RankIn(g, r) = k
      BY <1>10, <2>3, <3>1 DEF UnaryOps
    <3>3. NamesAxesAt(g, n, k)
      BY <2>1, <3>1
    <3>4. PermutedDims(r) = PermutedDims(n)
      BY <1>8 DEF PermutedDims
    <3>5. NamesAxesAt(g, r, k)
      BY <1>5, <1>8, <3>3, <3>4 DEF NamesAxesAt
    <3> QED BY <3>2, <3>5
  <2> QED BY <2>2, <2>3
<1>13. KeepsRank(g, r)
  <2>1. KeepsRank(g, n)
    BY DEF IsTameNode
  <2> QED BY <1>5, <1>10, <1>11, <2>1 DEF KeepsRank, UnaryOps
<1>14. IsTurn(g, r) <=> IsTurn(g, n)
  BY <1>5, <1>8, <1>10 DEF IsTurn, UnaryOps
<1>15. GivesTurned(g, r, turned) => GivesTurned(g, n, turned)
  <2>1. n.opcode \in Movers => n.opcode \in UnaryOps
    BY DEF Movers, UnaryOps
  <2> QED BY <1>5, <1>8, <1>9, <1>14, <2>1 DEF GivesTurned, IsAlike
<1>16. IsTurn(g, r) => Operand(r, 1) \notin turned
  <2>1. IsTurn(g, n) => n.opcode \in UnaryOps
    BY DEF IsTurn, UnaryOps
  <2> QED BY <1>9, <1>14, <2>1 DEF IsTameNode, IsAlike
<1>17. GivesFixed(r, fixed) => GivesFixed(n, fixed)
  <2>1. SUFFICES ASSUME GivesFixed(r, fixed), NEW k \in DOMAIN n.inputs PROVE n.inputs[k] \in fixed
    BY DEF GivesFixed, Range
  <2>2. PICK u : u = n.inputs[k]
    OBVIOUS
  <2>3. r.inputs[k] \in fixed
    BY <1>5, <2>1 DEF GivesFixed, Range
  <2>4. Renamed(remap, u) \in fixed /\ u \in Range(n.inputs)
    BY <1>5, <2>2, <2>3 DEF Range
  <2> QED BY <1>6, <2>2, <2>4 DEF IsAlike
<1>18. /\ GivesTurned(g, r, turned) => r.outputs[1] \in turned
       /\ GivesFixed(r, fixed) => r.outputs[1] \in fixed
       /\ r.opcode = "CONCAT" /\ GivesFixed(r, fixed) =>
            Attribute(r, "axis", 0) = Attribute(r, "dim", 0)
  BY <1>5, <1>8, <1>15, <1>17 DEF IsTameNode
<1>19. IsTameNode(g, r, turned, fixed)
  BY <1>7, <1>12, <1>13, <1>16, <1>18 DEF IsTameNode
<1> QED BY <1>1, <1>19

\* Pruning leaves a tame graph tame.
LEMMA PruningTame ==
  ASSUME NEW g, IsRegular(g), NEW turned, NEW fixed, IsTameFor(g, turned, fixed)
  PROVE  IsTameFor(PrunedGraph(g), turned, fixed)
<1>1. PICK h : h = PrunedGraph(g)
  OBVIOUS
<1>2. PICK prune, ops, X, src, place : IsPrunedGraph(h, g, prune, ops, X, src, place)
  BY <1>1, PruningIs
<1>3. PICK remap : remap = prune[Len(g.nodes)].remap
  OBVIOUS
<1>4. /\ IsPrune(prune, g) /\ IsRewriting(h, g) /\ X = Unpruned(prune, g)
      /\ ops = RenamedOps(remap, g.nodes) /\ IsListing(h.nodes, ops, X, place)
      /\ \A i \in X : IsNodeOf(g, ops[i])
  BY <1>2, <1>3 DEF IsPrunedGraph
<1>5. AreAlike(g, turned, fixed, remap)
  <2>1. Len(g.nodes) \in 0 .. Len(g.nodes)
    BY RegularParts
  <2> QED BY <1>3, <1>4, <2>1, RemapsAlike
<1>6. ASSUME NEW i \in X PROVE IsTameNode(g, ops[i], turned, fixed)
  <2>1. i \in 1 .. Len(g.nodes) /\ DOMAIN g.nodes = 1 .. Len(g.nodes)
    BY <1>4, RegularParts DEF Unpruned
  <2>2. PICK n : n = g.nodes[i]
    OBVIOUS
  <2>3. ops[i] = RenamedNode(remap, n)
    BY <1>4, <2>1, <2>2 DEF RenamedOps
  <2>4. IsRegularOp(n) /\ IsTameNode(g, n, turned, fixed)
    BY <2>1, <2>2, RegularNode, TameReads
  <2>5. IsTameNode(g, RenamedNode(remap, n), turned, fixed)
    BY <1>5, <2>4, RenamedTame
  <2> QED BY <2>3, <2>5
<1>7. AreTame(g, ops, X, turned, fixed)
  BY <1>4, <1>6 DEF AreTame
<1> QED BY <1>1, <1>4, <1>7, RewritingTame

--------------------------------------------------------------------------------
(* The pipeline in a tame case                                                  *)

\* A stage of a tame case leaves a tame graph.
LEMMA StageTame ==
  ASSUME options \subseteq SafeFusions, NEW stage \in StageNames, NEW g, IsRegular(g),
         NEW turned, NEW fixed, IsTameFor(g, turned, fixed),
         NEW h, h = IF IsEnabled(stage) THEN Rewritten(stage, g) ELSE g
  PROVE  IsTameFor(h, turned, fixed)
<1>1. CASE ~IsEnabled(stage)
  BY <1>1
<1>2. CASE IsEnabled(stage)
  <2>1. h = Rewritten(stage, g)
    BY <1>2
  <2>2. CASE stage = "constant_folding"
    <3>1. h = ConstantFolding(g)
      BY <2>1, <2>2 DEF Rewritten
    <3> QED BY <3>1, FoldingTame
  <2>3. CASE stage = "conv2d_relu"
    <3>1. h = FuseConvRelu(g)
      BY <2>1, <2>3 DEF Rewritten
    <3> QED BY <3>1, ConvReluTame
  <2>4. CASE stage = "swiglu"
    <3>1. h = FuseSwiglu(g)
      BY <2>1, <2>4 DEF Rewritten
    <3> QED BY <3>1, SwigluTame
  <2>5. CASE stage = "sdpa_transpose"
    <3>1. h = FuseSdpaTranspose(g)
      BY <2>1, <2>5 DEF Rewritten
    <3> QED BY <3>1, SdpaTame
  <2>6. CASE stage = "redundant"
    <3>1. h = PrunedGraph(FuseUnsqueezeTransposeSqueeze(g))
      BY <2>1, <2>6 DEF Rewritten, RedundantCastPruner
    <3>2. PICK x : x = FuseUnsqueezeTransposeSqueeze(g)
      OBVIOUS
    <3>3. IsRegular(x) /\ IsTameFor(x, turned, fixed)
      BY <3>2, PatternRegular, PatternTame
    <3> QED BY <3>1, <3>2, <3>3, PruningTame
  <2>7. CASE stage = "dead_code"
    <3>1. h = DeadCodeElimination(g)
      BY <2>1, <2>7 DEF Rewritten
    <3> QED BY <3>1, DeadCodeTame
  <2> QED BY <1>2, <2>2, <2>3, <2>4, <2>5, <2>6, <2>7, OnlySafeEnabled
<1> QED BY <1>1, <1>2

\* The inductive invariant: in a tame case the graph stays tame.
StaysTame == IsTameCase => IsTame(graph)

\* Every step keeps it.
LEMMA StaysTameNext == StaysRegular /\ StaysTame /\ [Next]_vars => StaysTame'
<1> SUFFICES ASSUME StaysRegular, StaysTame, [Next]_vars PROVE StaysTame'
  OBVIOUS
<1>1. CASE RunStage
  <2>1. SUFFICES ASSUME IsTameCase' PROVE IsTame(graph')
    BY DEF StaysTame
  <2>2. PICK stage : /\ stage = Stages[at + 1]
                     /\ graph' = IF IsEnabled(stage) THEN Rewritten(stage, graph) ELSE graph
    BY <1>1 DEF RunStage
  <2>3. at < Len(Stages) /\ source' = source /\ options' = options /\ at \in Nat
    BY <1>1 DEF RunStage, StaysRegular
  <2>4. stage \in StageNames
    <3>1. at + 1 \in 1 .. Len(Stages)
      BY <2>3, StagesNamed
    <3> QED BY <2>2, <3>1, StagesNamed
  <2>5. IsTameCase
    BY <2>1, <2>3 DEF IsTameCase, IsSafeCase, IsSourceShaped
  <2>6. options \subseteq SafeFusions /\ IsRegular(graph)
    BY <2>5 DEF IsTameCase, IsSafeCase, StaysRegular
  <2>7. PICK turned, fixed : IsTameFor(graph, turned, fixed)
    BY <2>5 DEF StaysTame, IsTame
  <2>8. PICK h : h = graph'
    OBVIOUS
  <2>9. h = IF IsEnabled(stage) THEN Rewritten(stage, graph) ELSE graph
    BY <2>2, <2>8
  <2>10. IsTameFor(h, turned, fixed)
    BY <2>4, <2>6, <2>7, <2>9, StageTame
  <2> QED BY <2>8, <2>10 DEF IsTame
<1>2. CASE UNCHANGED vars
  BY <1>2 DEF vars, StaysTame, IsTameCase, IsSafeCase, IsSourceShaped
<1> QED BY <1>1, <1>2 DEF Next, Finished

\* In a case whose source is tame every graph on the way is orderly.
THEOREM TameCasesInOrder == Spec => [](IsTameCase => InOrder)
<1>1. Init => StaysTame
  BY DEF Init, StaysTame, IsTameCase
<1>2. StaysRegular /\ StaysTame => (IsTameCase => InOrder)
  <2> SUFFICES ASSUME StaysRegular, StaysTame, IsTameCase PROVE InOrder
    OBVIOUS
  <2>1. IsRegular(graph) /\ IsSafeCase /\ IsSourceShaped
    BY DEF IsTameCase, StaysRegular
  <2>2. IsOrderly(graph)
    BY <2>1, TameOrderly DEF StaysTame, IsTame
  <2> QED BY <2>1, <2>2 DEF InOrder
<1> QED BY <1>1, <1>2, StaysTameNext, StaysRegularTheorem, PTL DEF Spec

\* In a case whose source is tame every stage leaves a graph that computes from the
\* inputs what the source computes.
THEOREM TameCasesSameResults == Spec /\ IsTameCase => SameResults
<1>1. IsTameCase /\ [Next]_vars => IsTameCase'
  <2> SUFFICES ASSUME IsTameCase, [Next]_vars PROVE IsTameCase'
    OBVIOUS
  <2>1. source' = source /\ options' = options
    BY DEF Next, RunStage, Finished, vars
  <2> QED BY <2>1 DEF IsTameCase, IsSafeCase, IsSourceShaped
<1> QED BY <1>1, TameCasesInOrder, SafeCasesSameResults, PTL DEF Spec
================================================================================
