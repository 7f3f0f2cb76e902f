--------------------------- MODULE GraphPassesProofs ---------------------------
(***************************************************************************)
(* Results about GraphPasses: what the passes leave can run.               *)
(*                                                                         *)
(* A graph that can run gives every tensor one value, whatever its inputs  *)
(* are.  Dead code elimination, on any such graph, keeps the results and   *)
(* leaves nothing dead; so does constant folding keep them, where both     *)
(* attributes of a folded concatenation agree.  Every pass but the unsafe  *)
(* fusions takes a regular graph to a regular one, which can run: where    *)
(* only safe fusions are enabled the pipeline never raises, and what it    *)
(* compiles can be executed.  What the passes compute is the matter of     *)
(* GraphResultsProofs.                                                     *)
(***************************************************************************)
EXTENDS PassConditions, NumberLemmas, SequenceTheorems, TLAPS

--------------------------------------------------------------------------------
(* What Filtered keeps.  upto[k] is what is kept of the first k elements, so    *)
(* its length is the place of the k-th element, if that is kept.                *)

IsFilter(upto, seq, X) ==
  upto = [k \in 0 .. Len(seq) |->
            IF k = 0 THEN <<>>
            ELSE IF seq[k] \in X THEN Append(upto[k - 1], seq[k]) ELSE upto[k - 1]]

\* There is such a function.
LEMMA FilterDefined ==
  ASSUME NEW S, NEW seq \in Seq(S), NEW X
  PROVE  \E upto : IsFilter(upto, seq, X)
<1> DEFINE step == [k \in 1 .. Len(seq) |-> [y \in Seq(S) |->
                      IF seq[k] \in X THEN Append(y, seq[k]) ELSE y]]
           All == [k \in 0 .. Len(seq) |-> Seq(S)]
<1>1. Len(seq) \in Nat /\ \A k \in 1 .. Len(seq) : seq[k] \in S
  OBVIOUS
<1>2. \A k \in 1 .. Len(seq) : \A y \in All[k - 1] : step[k][y] \in All[k]
  <2> TAKE k \in 1 .. Len(seq)
  <2>1. k - 1 \in 0 .. Len(seq) /\ k \in 0 .. Len(seq)
    BY <1>1
  <2>2. All[k - 1] = Seq(S) /\ All[k] = Seq(S)
    BY <2>1
  <2>3. \A y \in Seq(S) : step[k][y] \in Seq(S)
    BY <1>1
  <2> QED BY <2>2, <2>3
<1>3. <<>> \in All[0]
  BY <1>1
<1>4. PICK upto : IsLoop(upto, Len(seq), <<>>, step) /\ \A n \in 0 .. Len(seq) : upto[n] \in All[n]
  <2> HIDE DEF step, All
  <2> QED BY <1>1, <1>2, <1>3, LoopRuns
<1>5. ASSUME NEW k \in 1 .. Len(seq)
      PROVE  upto[k] = IF seq[k] \in X THEN Append(upto[k - 1], seq[k]) ELSE upto[k - 1]
  <2>1. k - 1 \in 0 .. Len(seq)
    BY <1>1
  <2>2. upto[k - 1] \in Seq(S)
    BY <1>4, <2>1
  <2>3. upto[k] = step[k][upto[k - 1]]
    BY <1>4 DEF IsLoop
  <2> QED BY <2>2, <2>3
<1>6. upto = [k \in 0 .. Len(seq) |-> upto[k]] /\ upto[0] = <<>>
  BY <1>4 DEF IsLoop
<1>7. \A k \in 0 .. Len(seq) :
        upto[k] = IF k = 0 THEN <<>>
                  ELSE IF seq[k] \in X THEN Append(upto[k - 1], seq[k]) ELSE upto[k - 1]
  <2> TAKE k \in 0 .. Len(seq)
  <2>1. CASE k = 0
    BY <1>6, <2>1
  <2>2. CASE k \in 1 .. Len(seq)
    <3>1. k # 0
      BY <2>2
    <3> QED BY <1>5, <2>2, <3>1
  <2>3. k = 0 \/ k \in 1 .. Len(seq)
    BY <1>1
  <2> QED BY <2>1, <2>2, <2>3
<1>8. IsFilter(upto, seq, X)
  <2> HIDE DEF step, All
  <2> QED BY <1>6, <1>7 DEF IsFilter
<1> QED BY <1>8

\* One step of it.
LEMMA FilterStep ==
  ASSUME NEW S, NEW seq \in Seq(S), NEW X, NEW upto, IsFilter(upto, seq, X)
  PROVE  /\ upto[0] = <<>>
         /\ \A k \in 1 .. Len(seq) :
              upto[k] = IF seq[k] \in X THEN Append(upto[k - 1], seq[k]) ELSE upto[k - 1]
<1>1. Len(seq) \in Nat
  OBVIOUS
<1>2. \A k \in 1 .. Len(seq) : k \in 0 .. Len(seq) /\ k # 0
  BY <1>1
<1>3. 0 \in 0 .. Len(seq)
  BY <1>1
<1> QED BY <1>2, <1>3 DEF IsFilter

\* What is kept so far are the elements of X among those seen.
KeptOf(seq, X, k) == {seq[i] : i \in {i \in 1 .. k : seq[i] \in X}}

\* So far, only elements of X have been kept, and all of those.
LEMMA FilterKeeps ==
  ASSUME NEW S, NEW seq \in Seq(S), NEW X, NEW upto, IsFilter(upto, seq, X)
  PROVE  \A k \in 0 .. Len(seq) :
           upto[k] \in Seq(S) /\ Len(upto[k]) <= k /\ Range(upto[k]) = KeptOf(seq, X, k)
<1> DEFINE Good == {k \in 0 .. Len(seq) :
             /\ upto[k] \in Seq(S) /\ Len(upto[k]) <= k
             /\ Range(upto[k]) = {seq[i] : i \in {i \in 1 .. k : seq[i] \in X}}}
<1>1. Len(seq) \in Nat /\ \A k \in 1 .. Len(seq) : seq[k] \in S
  OBVIOUS
<1>2. 0 \in Good
  <2>1. upto[0] = <<>> /\ 0 \in 0 .. Len(seq)
    BY <1>1, FilterStep
  <2>2. {i \in 1 .. 0 : seq[i] \in X} = {} /\ <<>> \in Seq(S) /\ Len(<<>>) = 0 /\ DOMAIN <<>> = {}
    OBVIOUS
  <2>3. Range(upto[0]) = {}
    BY <2>1, <2>2 DEF Range
  <2>4. {seq[i] : i \in {i \in 1 .. 0 : seq[i] \in X}} = {}
    BY <2>2
  <2>5. upto[0] \in Seq(S) /\ Len(upto[0]) <= 0
    BY <2>1, <2>2
  <2> QED BY <2>1, <2>3, <2>4, <2>5
<1>3. ASSUME NEW n \in Nat, n < Len(seq), n \in Good PROVE n + 1 \in Good
  <2>1. PICK k : k = n + 1
    OBVIOUS
  <2>2. k \in 1 .. Len(seq) /\ k \in 0 .. Len(seq) /\ k - 1 = n
    BY <1>1, <1>3, <2>1
  <2>3. upto[k] = IF seq[k] \in X THEN Append(upto[n], seq[k]) ELSE upto[n]
    BY <2>2, FilterStep
  <2>4. 1 .. k = (1 .. n) \cup {k}
    BY <2>1
  <2>5. CASE seq[k] \in X
    <3>1. upto[k] = Append(upto[n], seq[k]) /\ upto[n] \in Seq(S) /\ seq[k] \in S
      BY <1>1, <1>3, <2>2, <2>3, <2>5
    <3>2. upto[k] \in Seq(S) /\ Len(upto[k]) = Len(upto[n]) + 1 /\ Len(upto[n]) \in Nat
      BY <3>1
    <3>3. Range(upto[k]) = Range(upto[n]) \cup {seq[k]}
      <4>1. DOMAIN upto[k] = 1 .. (Len(upto[n]) + 1) /\ DOMAIN upto[n] = 1 .. Len(upto[n])
        BY <3>1, <3>2
      <4>2. \A i \in 1 .. Len(upto[n]) : upto[k][i] = upto[n][i]
        BY <3>1
      <4>3. upto[k][Len(upto[n]) + 1] = seq[k]
        BY <3>1
      <4>4. 1 .. (Len(upto[n]) + 1) = (1 .. Len(upto[n])) \cup {Len(upto[n]) + 1}
        BY <3>2
      <4>5. Range(upto[k]) = {upto[k][i] : i \in 1 .. Len(upto[n])} \cup {seq[k]}
        BY <4>1, <4>3, <4>4 DEF Range
      <4>6. Range(upto[n]) = {upto[k][i] : i \in 1 .. Len(upto[n])}
        BY <4>1, <4>2 DEF Range
      <4> QED BY <4>5, <4>6
    <3>4. Range(upto[k]) = {seq[i] : i \in {i \in 1 .. k : seq[i] \in X}}
      BY <1>3, <2>4, <2>5, <3>3
    <3>5. Len(upto[k]) <= k
      BY <1>3, <2>1, <3>2
    <3> QED BY <2>1, <2>2, <3>2, <3>4, <3>5
  <2>6. CASE seq[k] \notin X
    <3>1. upto[k] = upto[n]
      BY <2>3, <2>6
    <3>2. Range(upto[k]) = {seq[i] : i \in {i \in 1 .. k : seq[i] \in X}}
      BY <1>3, <2>4, <2>6, <3>1
    <3>3. Len(upto[n]) \in Nat /\ Len(upto[n]) <= n
      BY <1>3
    <3> QED BY <1>3, <2>1, <2>2, <3>1, <3>2, <3>3
  <2> QED BY <2>5, <2>6
<1>4. \A k \in 0 .. Len(seq) : k \in Good
  <2>1. \A n \in Nat : n < Len(seq) /\ n \in Good => n + 1 \in Good
    BY <1>3
  <2> HIDE DEF Good
  <2> QED BY <1>1, <1>2, <2>1, UpTo
<1> QED BY <1>4 DEF KeptOf

\* What is kept is a sequence.
LEMMA FilterIn ==
  ASSUME NEW S, NEW seq \in Seq(S), NEW X, NEW upto, IsFilter(upto, seq, X),
         NEW k \in 0 .. Len(seq)
  PROVE  upto[k] \in Seq(S) /\ Len(upto[k]) \in Nat
<1>1. upto[k] \in Seq(S)
  BY FilterKeeps
<1> QED BY <1>1

\* What is kept are the elements of X.
LEMMA FilterRange ==
  ASSUME NEW S, NEW seq \in Seq(S), NEW X, NEW upto, IsFilter(upto, seq, X),
         NEW k \in 0 .. Len(seq)
  PROVE  Range(upto[k]) = KeptOf(seq, X, k)
BY FilterKeeps

\* What has been kept stays where it is.
LEMMA FilterGrows ==
  ASSUME NEW S, NEW seq \in Seq(S), NEW X, NEW upto, IsFilter(upto, seq, X),
         NEW k \in 0 .. Len(seq)
  PROVE  \A l \in k .. Len(seq) :
           Len(upto[k]) <= Len(upto[l]) /\ \A i \in 1 .. Len(upto[k]) : upto[l][i] = upto[k][i]
<1> DEFINE Good == {l \in 0 .. Len(seq) : l < k \/
             (Len(upto[k]) <= Len(upto[l]) /\ \A i \in 1 .. Len(upto[k]) : upto[l][i] = upto[k][i])}
<1>1. Len(seq) \in Nat /\ k \in Nat
  OBVIOUS
<1>2. \A n \in 0 .. Len(seq) : upto[n] \in Seq(S) /\ Len(upto[n]) \in Nat
  BY FilterKeeps
<1>3. 0 \in Good
  BY <1>1, <1>2
<1>4. ASSUME NEW n \in Nat, n < Len(seq), n \in Good PROVE n + 1 \in Good
  <2>1. PICK l : l = n + 1
    OBVIOUS
  <2>2. l \in 1 .. Len(seq) /\ l \in 0 .. Len(seq) /\ l - 1 = n /\ n \in 0 .. Len(seq)
    BY <1>1, <1>4, <2>1
  <2>3. upto[l] = IF seq[l] \in X THEN Append(upto[n], seq[l]) ELSE upto[n]
    BY <2>2, FilterStep
  <2>4. Len(upto[n]) <= Len(upto[l]) /\ \A i \in 1 .. Len(upto[n]) : upto[l][i] = upto[n][i]
    <3>1. upto[n] \in Seq(S) /\ Len(upto[n]) \in Nat /\ seq[l] \in S
      BY <1>2, <2>2
    <3>2. CASE upto[l] = Append(upto[n], seq[l])
      BY <3>1, <3>2
    <3>3. CASE upto[l] = upto[n]
      BY <3>1, <3>3
    <3> QED BY <2>3, <3>2, <3>3
  <2>5. CASE l < k
    BY <2>1, <2>2, <2>5
  <2>6. CASE l = k
    BY <1>2, <2>1, <2>2, <2>6
  <2>7. CASE l > k
    <3>1. ~(n < k)
      BY <1>1, <2>1, <2>7
    <3>2. Len(upto[k]) <= Len(upto[n]) /\ \A i \in 1 .. Len(upto[k]) : upto[n][i] = upto[k][i]
      BY <1>4, <3>1
    <3>3. Len(upto[k]) <= Len(upto[l]) /\ \A i \in 1 .. Len(upto[k]) : upto[l][i] = upto[k][i]
      <4>1. Len(upto[k]) \in Nat /\ Len(upto[n]) \in Nat /\ Len(upto[l]) \in Nat
        BY <1>2, <2>2
      <4>2. \A i \in 1 .. Len(upto[k]) : i \in 1 .. Len(upto[n])
        BY <3>2, <4>1
      <4>3. Len(upto[k]) <= Len(upto[l])
        BY <2>4, <3>2, <4>1
      <4> QED BY <2>4, <3>2, <4>2, <4>3
    <3> QED BY <2>1, <2>2, <3>3
  <2> QED BY <1>1, <2>1, <2>5, <2>6, <2>7
<1>5. \A l \in 0 .. Len(seq) : l \in Good
  <2>1. \A n \in Nat : n < Len(seq) /\ n \in Good => n + 1 \in Good
    BY <1>4
  <2> HIDE DEF Good
  <2> QED BY <1>1, <1>3, <2>1, UpTo
<1> QED
  <2> TAKE l \in k .. Len(seq)
  <2>1. l \in 0 .. Len(seq) /\ ~(l < k)
    BY <1>1
  <2>2. l \in Good
    BY <1>5, <2>1
  <2> QED BY <2>1, <2>2

\* Where the k-th element goes, if it is kept.
LEMMA FilterPlaces ==
  ASSUME NEW S, NEW seq \in Seq(S), NEW X, NEW upto, IsFilter(upto, seq, X),
         NEW k \in 1 .. Len(seq), seq[k] \in X
  PROVE  /\ k - 1 \in 0 .. Len(seq)
         /\ Len(upto[k]) = Len(upto[k - 1]) + 1 /\ Len(upto[k - 1]) \in Nat
         /\ Len(upto[k]) \in 1 .. Len(upto[Len(seq)])
         /\ upto[Len(seq)][Len(upto[k])] = seq[k]
<1>1. PICK n : n = k - 1
  OBVIOUS
<1>2. n \in 0 .. Len(seq) /\ k \in 0 .. Len(seq) /\ Len(seq) \in k .. Len(seq) /\ Len(seq) \in Nat
      /\ seq[k] \in S
  BY <1>1
<1>3. upto[n] \in Seq(S) /\ upto[k] \in Seq(S) /\ Len(upto[n]) \in Nat
  BY <1>2, FilterKeeps
<1>4. upto[k] = Append(upto[n], seq[k])
  BY <1>1, FilterStep
<1>5. Len(upto[k]) = Len(upto[n]) + 1 /\ upto[k][Len(upto[k])] = seq[k]
  BY <1>2, <1>3, <1>4
<1>6. Len(upto[k]) \in 1 .. Len(upto[k])
  BY <1>3, <1>5
<1>7. Len(upto[k]) <= Len(upto[Len(seq)]) /\ upto[Len(seq)][Len(upto[k])] = upto[k][Len(upto[k])]
  BY <1>2, <1>6, FilterGrows
<1>8. Len(upto[Len(seq)]) \in Nat
  <2>1. Len(seq) \in 0 .. Len(seq)
    BY <1>2
  <2> QED BY <2>1, FilterKeeps
<1> QED BY <1>1, <1>2, <1>3, <1>5, <1>6, <1>7, <1>8

\* Every place of the result is that of an element of X.
LEMMA FilterOrigins ==
  ASSUME NEW S, NEW seq \in Seq(S), NEW X, NEW upto, IsFilter(upto, seq, X)
  PROVE  \A i \in 1 .. Len(upto[Len(seq)]) : \E k \in 1 .. Len(seq) :
           seq[k] \in X /\ Len(upto[k]) = i
<1> DEFINE Good == {l \in 0 .. Len(seq) : \A i \in 1 .. Len(upto[l]) :
                     \E k \in 1 .. Len(seq) : seq[k] \in X /\ Len(upto[k]) = i}
<1>1. Len(seq) \in Nat
  OBVIOUS
<1>2. 0 \in Good
  BY <1>1, FilterStep
<1>3. ASSUME NEW n \in Nat, n < Len(seq), n \in Good PROVE n + 1 \in Good
  <2>1. PICK l : l = n + 1
    OBVIOUS
  <2>2. l \in 1 .. Len(seq) /\ l \in 0 .. Len(seq) /\ l - 1 = n
    BY <1>1, <1>3, <2>1
  <2>3. CASE seq[l] \in X
    <3>1. Len(upto[l]) = Len(upto[n]) + 1 /\ Len(upto[n]) \in Nat
      BY <2>2, <2>3, FilterPlaces
    <3>2. \A i \in 1 .. Len(upto[l]) : i \in 1 .. Len(upto[n]) \/ i = Len(upto[l])
      BY <3>1
    <3> QED BY <1>3, <2>1, <2>2, <2>3, <3>2
  <2>4. CASE seq[l] \notin X
    <3>1. upto[l] = upto[n]
      BY <2>2, <2>4, FilterStep
    <3> QED BY <1>3, <2>1, <2>2, <3>1
  <2> QED BY <2>3, <2>4
<1>4. \A l \in 0 .. Len(seq) : l \in Good
  <2>1. \A n \in Nat : n < Len(seq) /\ n \in Good => n + 1 \in Good
    BY <1>3
  <2> HIDE DEF Good
  <2> QED BY <1>1, <1>2, <2>1, UpTo
<1>5. Len(seq) \in 0 .. Len(seq)
  BY <1>1
<1> QED BY <1>4, <1>5

--------------------------------------------------------------------------------
(* What an executable graph is *)

\* The parts of the definition by name.
LEMMA ExecutableParts ==
  ASSUME NEW g, IsExecutable(g)
  PROVE  /\ Len(g.nodes) \in Nat /\ DOMAIN g.nodes = 1 .. Len(g.nodes)
         /\ g.nodes \in Seq(Range(g.nodes)) /\ g.inputs \in Seq(Range(g.inputs))
         /\ g.states \in Seq(Range(g.states))
         /\ \A i \in 1 .. Len(g.nodes) :
              /\ 1 \in DOMAIN g.nodes[i].outputs
              /\ Range(g.nodes[i].inputs) \subseteq KnownBefore(g, i)
              /\ Range(g.nodes[i].outputs) \cap KnownBefore(g, i) = {}
<1>1. /\ g.nodes \in Seq(Range(g.nodes)) /\ g.inputs \in Seq(Range(g.inputs))
      /\ g.states \in Seq(Range(g.states))
  BY DEF IsExecutable, IsSequence
<1>2. Len(g.nodes) \in Nat /\ DOMAIN g.nodes = 1 .. Len(g.nodes)
  BY <1>1
<1> QED BY <1>1, <1>2 DEF IsExecutable

\* A tensor is the result of at most one operation.
LEMMA ResultOfOne ==
  ASSUME NEW g, IsExecutable(g), NEW i \in 1 .. Len(g.nodes), NEW j \in 1 .. Len(g.nodes),
         NEW t \in Range(g.nodes[i].outputs), t \in Range(g.nodes[j].outputs)
  PROVE  i = j
<1>1. Len(g.nodes) \in Nat
  BY ExecutableParts
<1>2. ASSUME NEW a \in 1 .. Len(g.nodes), NEW b \in 1 .. Len(g.nodes), a < b,
             t \in Range(g.nodes[a].outputs), t \in Range(g.nodes[b].outputs)
      PROVE  FALSE
  <2>1. a \in 1 .. b - 1
    BY <1>1, <1>2
  <2>2. t \in KnownBefore(g, b)
    BY <1>2, <2>1 DEF KnownBefore
  <2> QED BY <1>2, <2>2, ExecutableParts
<1> QED BY <1>1, <1>2

\* An operation reads only what earlier ones compute.
LEMMA ReadsEarlier ==
  ASSUME NEW g, IsExecutable(g), NEW i \in 1 .. Len(g.nodes), NEW j \in 1 .. Len(g.nodes),
         NEW t \in Range(g.nodes[i].outputs), t \in Range(g.nodes[j].inputs)
  PROVE  i < j
<1>1. Len(g.nodes) \in Nat
  BY ExecutableParts
<1>2. SUFFICES ASSUME j <= i PROVE FALSE
  BY <1>1
<1>3. 1 .. j - 1 \subseteq 1 .. i - 1
  BY <1>1, <1>2
<1>4. KnownBefore(g, j) \subseteq KnownBefore(g, i)
  BY <1>3 DEF KnownBefore
<1> QED BY <1>4, ExecutableParts

\* The producer of a result is the operation that has it.
LEMMA ProducerOf ==
  ASSUME NEW g, IsExecutable(g), NEW i \in 1 .. Len(g.nodes), NEW t \in Range(g.nodes[i].outputs)
  PROVE  Producer(g, t) = g.nodes[i]
<1> DEFINE places == {j \in DOMAIN g.nodes : t \in Range(g.nodes[j].outputs)}
<1>1. Len(g.nodes) \in Nat /\ DOMAIN g.nodes = 1 .. Len(g.nodes)
  BY ExecutableParts
<1>2. places = {i}
  BY <1>1, ResultOfOne
<1>3. {i} \in SUBSET (0 .. Len(g.nodes)) /\ {i} # {}
  BY <1>1
<1>4. Max({i}) \in {i}
  BY <1>1, <1>3, LargestElement
<1> QED BY <1>2, <1>4 DEF Producer

\* What nothing computes has no producer.
LEMMA NoProducer ==
  ASSUME NEW g, NEW t, \A i \in DOMAIN g.nodes : t \notin Range(g.nodes[i].outputs)
  PROVE  Range(Producer(g, t).inputs) = {}
<1>1. Producer(g, t) = NoNode
  BY DEF Producer
<1>2. NoNode.inputs = <<>>
  BY DEF NoNode
<1> QED BY <1>1, <1>2 DEF Range

--------------------------------------------------------------------------------
(* What LiveTensors finds: live[k] is what is within k operations of the        *)
(* outputs and states.                                                          *)

IsLiveness(live, g) ==
  live = [k \in 0 .. Len(g.nodes) |->
            IF k = 0 THEN Wanted(g)
            ELSE live[k - 1] \cup UNION {Range(Producer(g, t).inputs) : t \in live[k - 1]}]

\* There is such a function, and LiveTensors is its last value.
LEMMA LivenessDefined ==
  ASSUME NEW g, IsExecutable(g)
  PROVE  \E live : IsLiveness(live, g) /\ LiveTensors(g) = live[Len(g.nodes)]
<1> DEFINE T == UNION {Range(g.nodes[i].outputs) : i \in 1 .. Len(g.nodes)}
           Read(t) == Range(Producer(g, t).inputs)
           All == SUBSET (Wanted(g) \cup UNION {Read(t) : t \in T})
           step == [k \in 1 .. Len(g.nodes) |-> [y \in All |-> y \cup UNION {Read(t) : t \in y}]]
<1>1. Len(g.nodes) \in Nat /\ DOMAIN g.nodes = 1 .. Len(g.nodes)
  BY ExecutableParts
<1>2. \A t : t \notin T => Read(t) = {}
  BY <1>1, NoProducer
<1>3. \A y \in All : y \cup UNION {Read(t) : t \in y} \in All
  BY <1>2
<1>4. PICK live : IsLoop(live, Len(g.nodes), Wanted(g), step)
                  /\ \A n \in 0 .. Len(g.nodes) : live[n] \in [k \in 0 .. Len(g.nodes) |-> All][n]
  <2> DEFINE Alls == [k \in 0 .. Len(g.nodes) |-> All]
  <2>1. Wanted(g) \in Alls[0]
    BY <1>1
  <2>2. ASSUME NEW k \in 1 .. Len(g.nodes), NEW y \in Alls[k - 1] PROVE step[k][y] \in Alls[k]
    <3>1. k - 1 \in 0 .. Len(g.nodes) /\ k \in 0 .. Len(g.nodes)
      BY <1>1
    <3> QED BY <1>3, <2>2, <3>1
  <2> HIDE DEF step, Alls
  <2>3. \E live : IsLoop(live, Len(g.nodes), Wanted(g), step)
                  /\ \A n \in 0 .. Len(g.nodes) : live[n] \in Alls[n]
    BY <1>1, <2>1, <2>2, LoopRuns
  <2> QED BY <2>3 DEF Alls
<1>5. live = [k \in 0 .. Len(g.nodes) |-> live[k]] /\ live[0] = Wanted(g)
  BY <1>4 DEF IsLoop
<1>6. ASSUME NEW k \in 1 .. Len(g.nodes)
      PROVE  live[k] = live[k - 1] \cup UNION {Read(t) : t \in live[k - 1]}
  <2>1. k - 1 \in 0 .. Len(g.nodes)
    BY <1>1
  <2>2. live[k - 1] \in All
    BY <1>4, <2>1
  <2>3. live[k] = step[k][live[k - 1]]
    BY <1>4 DEF IsLoop
  <2> QED BY <2>2, <2>3
<1>7. \A k \in 0 .. Len(g.nodes) :
        live[k] = IF k = 0 THEN Wanted(g)
                  ELSE live[k - 1] \cup UNION {Range(Producer(g, t).inputs) : t \in live[k - 1]}
  <2> TAKE k \in 0 .. Len(g.nodes)
  <2>1. CASE k = 0
    BY <1>5, <2>1
  <2>2. CASE k \in 1 .. Len(g.nodes)
    <3>1. k # 0
      BY <2>2
    <3> QED BY <1>6, <2>2, <3>1
  <2>3. k = 0 \/ k \in 1 .. Len(g.nodes)
    BY <1>1
  <2> QED BY <2>1, <2>2, <2>3
<1>8. IsLiveness(live, g)
  <2> HIDE DEF step, All
  <2> QED BY <1>5, <1>7 DEF IsLiveness
<1>9. PICK found : found = CHOOSE f : IsLiveness(f, g)
  OBVIOUS
<1>10. IsLiveness(found, g)
  BY <1>8, <1>9
<1>11. LiveTensors(g) = found[Len(g.nodes)]
  BY <1>9 DEF LiveTensors, IsLiveness, Wanted
<1> QED BY <1>10, <1>11

\* One step of it, and that it only grows.
LEMMA LivenessSteps ==
  ASSUME NEW g, IsExecutable(g), NEW live, IsLiveness(live, g)
  PROVE  /\ live[0] = Wanted(g)
         /\ \A k \in 1 .. Len(g.nodes) :
              live[k] = live[k - 1] \cup UNION {Range(Producer(g, t).inputs) : t \in live[k - 1]}
         /\ \A k \in 0 .. Len(g.nodes) : live[k] \subseteq live[Len(g.nodes)]
<1>1. Len(g.nodes) \in Nat
  BY ExecutableParts
<1>2. live[0] = Wanted(g)
  <2>1. 0 \in 0 .. Len(g.nodes)
    BY <1>1
  <2> QED BY <2>1 DEF IsLiveness
<1>3. ASSUME NEW k \in 1 .. Len(g.nodes)
      PROVE  live[k] = live[k - 1] \cup UNION {Range(Producer(g, t).inputs) : t \in live[k - 1]}
  <2>1. k \in 0 .. Len(g.nodes) /\ k # 0
    BY <1>1
  <2> QED BY <2>1 DEF IsLiveness
<1>4. ASSUME NEW k \in 0 .. Len(g.nodes)
      PROVE  live[k] \subseteq live[Len(g.nodes)]
  <2> DEFINE Good == {n \in 0 .. Len(g.nodes) : k <= n => live[k] \subseteq live[n]}
  <2>1. 0 \in Good
    BY <1>1
  <2>2. ASSUME NEW n \in Nat, n < Len(g.nodes), n \in Good PROVE n + 1 \in Good
    <3>1. PICK m : m = n + 1
      OBVIOUS
    <3>2. m \in 1 .. Len(g.nodes) /\ m - 1 = n /\ m \in 0 .. Len(g.nodes)
      BY <1>1, <2>2, <3>1
    <3>3. live[n] \subseteq live[m]
      BY <1>3, <3>2
    <3>4. k <= m => k <= n \/ k = m
      BY <1>1, <3>1
    <3> QED BY <2>2, <3>1, <3>2, <3>3, <3>4
  <2>3. \A n \in 0 .. Len(g.nodes) : n \in Good
    <3>1. \A n \in Nat : n < Len(g.nodes) /\ n \in Good => n + 1 \in Good
      BY <2>2
    <3> HIDE DEF Good
    <3> QED BY <1>1, <2>1, <3>1, UpTo
  <2>4. Len(g.nodes) \in Good
    <3>1. Len(g.nodes) \in 0 .. Len(g.nodes)
      BY <1>1
    <3> QED BY <2>3, <3>1
  <2> QED BY <1>1, <2>4
<1> QED BY <1>2, <1>3, <1>4

\* What an operation within the reach of k steps reads is within that of k + 1.
LEMMA LivenessReads ==
  ASSUME NEW g, IsExecutable(g), NEW live, IsLiveness(live, g), NEW k \in 1 .. Len(g.nodes)
  PROVE  /\ \A i \in 1 .. Len(g.nodes) : Range(g.nodes[i].outputs) \cap live[k - 1] # {}
              => Range(g.nodes[i].inputs) \subseteq live[k]
         /\ \A t \in live[k] : t \in live[k - 1] \/ \E i \in 1 .. Len(g.nodes) :
              Range(g.nodes[i].outputs) \cap live[k - 1] # {} /\ t \in Range(g.nodes[i].inputs)
<1>1. live[k] = live[k - 1] \cup UNION {Range(Producer(g, t).inputs) : t \in live[k - 1]}
  BY LivenessSteps
<1>2. ASSUME NEW i \in 1 .. Len(g.nodes), NEW t \in Range(g.nodes[i].outputs), t \in live[k - 1]
      PROVE  Range(g.nodes[i].inputs) \subseteq live[k]
  <2>1. Producer(g, t) = g.nodes[i]
    BY ProducerOf
  <2> QED BY <1>1, <1>2, <2>1
<1>3. ASSUME NEW t \in live[k], t \notin live[k - 1]
      PROVE  \E i \in 1 .. Len(g.nodes) :
               Range(g.nodes[i].outputs) \cap live[k - 1] # {} /\ t \in Range(g.nodes[i].inputs)
  <2>1. PICK s \in live[k - 1] : t \in Range(Producer(g, s).inputs)
    BY <1>1, <1>3
  <2>2. DOMAIN g.nodes = 1 .. Len(g.nodes)
    BY ExecutableParts
  <2>3. PICK i \in 1 .. Len(g.nodes) : s \in Range(g.nodes[i].outputs)
    BY <2>1, <2>2, NoProducer
  <2>4. Producer(g, s) = g.nodes[i]
    BY <2>3, ProducerOf
  <2> QED BY <2>1, <2>3, <2>4
<1> QED BY <1>2, <1>3

\* An operation is at most as many steps from the outputs as there are
\* operations after it.
LEMMA LiveSoon ==
  ASSUME NEW g, IsExecutable(g), NEW live, IsLiveness(live, g)
  PROVE  \A i \in 1 .. Len(g.nodes) : Range(g.nodes[i].outputs) \cap live[Len(g.nodes)] # {} =>
           \E m \in 0 .. Len(g.nodes) - i : Range(g.nodes[i].outputs) \cap live[m] # {}
<1> DEFINE Reached(i, m) == Range(g.nodes[i].outputs) \cap live[m] # {}
           Good == {k \in 0 .. Len(g.nodes) : \A i \in 1 .. Len(g.nodes) :
                      Reached(i, k) => \E m \in 0 .. Len(g.nodes) - i : Reached(i, m)}
<1>1. Len(g.nodes) \in Nat
  BY ExecutableParts
<1>2. 0 \in Good
  <2>1. \A i \in 1 .. Len(g.nodes) : 0 \in 0 .. Len(g.nodes) - i
    BY <1>1
  <2> QED BY <1>1, <2>1
<1>3. ASSUME NEW n \in Nat, n < Len(g.nodes), n \in Good PROVE n + 1 \in Good
  <2>1. PICK k : k = n + 1
    OBVIOUS
  <2>2. k \in 1 .. Len(g.nodes) /\ k - 1 = n /\ k \in 0 .. Len(g.nodes)
    BY <1>1, <1>3, <2>1
  <2>3. ASSUME NEW i \in 1 .. Len(g.nodes), Reached(i, k)
        PROVE  \E m \in 0 .. Len(g.nodes) - i : Reached(i, m)
    <3>1. PICK t \in live[k] : t \in Range(g.nodes[i].outputs)
      BY <2>3
    <3>2. CASE t \in live[n]
      <4>1. Reached(i, n)
        BY <3>1, <3>2
      <4> QED BY <1>3, <4>1
    <3>3. CASE t \notin live[n]
      <4>1. PICK j \in 1 .. Len(g.nodes) : Reached(j, n) /\ t \in Range(g.nodes[j].inputs)
        BY <2>2, <3>3, LivenessReads
      <4>2. i < j
        BY <3>1, <4>1, ReadsEarlier
      <4>3. PICK m \in 0 .. Len(g.nodes) - j : Reached(j, m)
        BY <1>3, <4>1
      <4>4. PICK l : l = m + 1
        OBVIOUS
      <4>5. l \in 1 .. Len(g.nodes) /\ l - 1 = m /\ l \in 0 .. Len(g.nodes) - i
        BY <1>1, <4>2, <4>3, <4>4
      <4>6. t \in live[l]
        BY <4>1, <4>3, <4>5, LivenessReads
      <4> QED BY <3>1, <4>5, <4>6
    <3> QED BY <3>2, <3>3
  <2> QED BY <2>1, <2>2, <2>3
<1>4. \A k \in 0 .. Len(g.nodes) : k \in Good
  <2>1. \A n \in Nat : n < Len(g.nodes) /\ n \in Good => n + 1 \in Good
    BY <1>3
  <2> HIDE DEF Good
  <2> QED BY <1>1, <1>2, <2>1, UpTo
<1>5. Len(g.nodes) \in Good
  <2>1. Len(g.nodes) \in 0 .. Len(g.nodes)
    BY <1>1
  <2> QED BY <1>4, <2>1
<1> QED BY <1>5

\* Live is what is wanted and what a live operation reads, and no more.
IsLiveSet(L, g) ==
  /\ Wanted(g) \subseteq L
  /\ \A i \in 1 .. Len(g.nodes) : Range(g.nodes[i].outputs) \cap L # {} =>
       Range(g.nodes[i].inputs) \subseteq L
  /\ \A t \in L : t \in Wanted(g) \/ \E i \in 1 .. Len(g.nodes) :
       Range(g.nodes[i].outputs) \cap L # {} /\ t \in Range(g.nodes[i].inputs)

\* The tensors that LiveTensors finds are such a set.
LEMMA LiveSet ==
  ASSUME NEW g, IsExecutable(g)
  PROVE  IsLiveSet(LiveTensors(g), g)
<1>1. PICK live : IsLiveness(live, g) /\ LiveTensors(g) = live[Len(g.nodes)]
  BY LivenessDefined
<1>2. PICK L : L = live[Len(g.nodes)]
  OBVIOUS
<1>3. Len(g.nodes) \in Nat
  BY ExecutableParts
<1>4. live[0] = Wanted(g) /\ \A k \in 0 .. Len(g.nodes) : live[k] \subseteq L
  BY <1>1, <1>2, LivenessSteps
<1>5. Wanted(g) \subseteq L
  BY <1>3, <1>4
<1>6. ASSUME NEW i \in 1 .. Len(g.nodes), Range(g.nodes[i].outputs) \cap L # {}
      PROVE  Range(g.nodes[i].inputs) \subseteq L
  <2>1. PICK m \in 0 .. Len(g.nodes) - i : Range(g.nodes[i].outputs) \cap live[m] # {}
    BY <1>1, <1>2, <1>6, LiveSoon
  <2>2. PICK k : k = m + 1
    OBVIOUS
  <2>3. k \in 1 .. Len(g.nodes) /\ k - 1 = m /\ k \in 0 .. Len(g.nodes)
    BY <1>3, <2>1, <2>2
  <2>4. Range(g.nodes[i].inputs) \subseteq live[k]
    BY <1>1, <2>1, <2>3, LivenessReads
  <2> QED BY <1>4, <2>3, <2>4
<1>7. \A t \in L : t \in Wanted(g) \/ \E i \in 1 .. Len(g.nodes) :
        Range(g.nodes[i].outputs) \cap L # {} /\ t \in Range(g.nodes[i].inputs)
  <2> DEFINE Good == {k \in 0 .. Len(g.nodes) : \A t \in live[k] : t \in Wanted(g) \/
                        \E i \in 1 .. Len(g.nodes) :
                          Range(g.nodes[i].outputs) \cap L # {} /\ t \in Range(g.nodes[i].inputs)}
  <2>1. 0 \in Good
    BY <1>3, <1>4
  <2>2. ASSUME NEW n \in Nat, n < Len(g.nodes), n \in Good PROVE n + 1 \in Good
    <3>1. PICK k : k = n + 1
      OBVIOUS
    <3>2. k \in 1 .. Len(g.nodes) /\ k - 1 = n /\ k \in 0 .. Len(g.nodes) /\ n \in 0 .. Len(g.nodes)
      BY <1>3, <2>2, <3>1
    <3>3. \A t \in live[k] : t \in live[n] \/ \E i \in 1 .. Len(g.nodes) :
            Range(g.nodes[i].outputs) \cap live[n] # {} /\ t \in Range(g.nodes[i].inputs)
      BY <1>1, <3>2, LivenessReads
    <3>4. live[n] \subseteq L
      BY <1>4, <3>2
    <3> QED BY <2>2, <3>1, <3>2, <3>3, <3>4
  <2>3. \A k \in 0 .. Len(g.nodes) : k \in Good
    <3>1. \A n \in Nat : n < Len(g.nodes) /\ n \in Good => n + 1 \in Good
      BY <2>2
    <3> HIDE DEF Good
    <3> QED BY <1>3, <2>1, <3>1, UpTo
  <2>4. Len(g.nodes) \in Good
    <3>1. Len(g.nodes) \in 0 .. Len(g.nodes)
      BY <1>3
    <3> QED BY <2>3, <3>1
  <2> QED BY <1>2, <2>4
<1>8. IsLiveSet(L, g)
  BY <1>5, <1>6, <1>7 DEF IsLiveSet
<1> QED BY <1>1, <1>2, <1>8

--------------------------------------------------------------------------------
(* What Retain leaves of a graph.                                               *)

LiveNodes(g, L) == {n \in Range(g.nodes) : IsLive(g, L, n)}

IsNodeFilter(upto, g, L) ==
  upto = [k \in 0 .. Len(g.nodes) |->
            IF k = 0 THEN <<>>
            ELSE IF IsLive(g, L, g.nodes[k]) THEN Append(upto[k - 1], g.nodes[k]) ELSE upto[k - 1]]

\* Filtering the live operations is filtering.
LEMMA NodeFilterIsFilter ==
  ASSUME NEW g, IsExecutable(g), NEW L, NEW upto
  PROVE  IsNodeFilter(upto, g, L) <=> IsFilter(upto, g.nodes, LiveNodes(g, L))
<1>1. Len(g.nodes) \in Nat /\ DOMAIN g.nodes = 1 .. Len(g.nodes)
  BY ExecutableParts
<1>2. \A k \in 0 .. Len(g.nodes) : k # 0 => (IsLive(g, L, g.nodes[k]) <=> g.nodes[k] \in LiveNodes(g, L))
  <2> TAKE k \in 0 .. Len(g.nodes)
  <2> HAVE k # 0
  <2>1. k \in DOMAIN g.nodes
    BY <1>1
  <2>2. g.nodes[k] \in Range(g.nodes)
    BY <2>1 DEF Range
  <2> QED BY <2>2 DEF LiveNodes
<1>3. \A k \in 0 .. Len(g.nodes) :
        (IF k = 0 THEN <<>>
         ELSE IF IsLive(g, L, g.nodes[k]) THEN Append(upto[k - 1], g.nodes[k]) ELSE upto[k - 1])
        = (IF k = 0 THEN <<>>
           ELSE IF g.nodes[k] \in LiveNodes(g, L) THEN Append(upto[k - 1], g.nodes[k]) ELSE upto[k - 1])
  BY <1>2
<1> QED BY <1>3 DEF IsNodeFilter, IsFilter

\* Retain keeps the live nodes, and of inputs, states and tensors what it is told.
IsRetained(h, g, L, K, upto) ==
  /\ IsFilter(upto, g.nodes, LiveNodes(g, L)) /\ h.nodes = upto[Len(g.nodes)]
  /\ h.tensors = [t \in DOMAIN g.tensors \cap K |-> g.tensors[t]]
  /\ h.outputs = g.outputs
  /\ IsSequence(h.inputs) /\ Range(h.inputs) = Range(g.inputs) \cap K
  /\ IsSequence(h.states) /\ Range(h.states) = Range(g.states) \cap K

\* A sequence is one of its own elements.
LEMMA SequenceOfRange ==
  ASSUME NEW S, NEW seq \in Seq(S)
  PROVE  IsSequence(seq)
<1>1. DOMAIN seq = 1 .. Len(seq) /\ Len(seq) \in Nat /\ seq = [i \in 1 .. Len(seq) |-> seq[i]]
  OBVIOUS
<1>2. \A i \in 1 .. Len(seq) : seq[i] \in Range(seq)
  BY <1>1 DEF Range
<1> QED BY <1>1, <1>2 DEF IsSequence

\* A filtered sequence has those of its elements that are in X.
LEMMA FilterOfSequence ==
  ASSUME NEW seq, IsSequence(seq), NEW X, NEW upto, IsFilter(upto, seq, X)
  PROVE  IsSequence(upto[Len(seq)]) /\ Range(upto[Len(seq)]) = Range(seq) \cap X
<1>1. seq \in Seq(Range(seq))
  BY DEF IsSequence
<1>2. Len(seq) \in Nat /\ Len(seq) \in 0 .. Len(seq) /\ DOMAIN seq = 1 .. Len(seq)
  BY <1>1
<1>3. /\ upto[Len(seq)] \in Seq(Range(seq))
      /\ Range(upto[Len(seq)]) = KeptOf(seq, X, Len(seq))
  <2>1. PICK k \in 0 .. Len(seq) : k = Len(seq)
    BY <1>2
  <2>2. upto[k] \in Seq(Range(seq))
    BY <1>1, FilterIn
  <2>3. Range(upto[k]) = KeptOf(seq, X, k)
    BY <1>1, FilterRange
  <2> QED BY <2>1, <2>2, <2>3
<1>4. IsSequence(upto[Len(seq)])
  BY <1>3, SequenceOfRange
<1>5. Range(seq) \cap X = KeptOf(seq, X, Len(seq))
  BY <1>2 DEF Range, KeptOf
<1> QED BY <1>3, <1>4, <1>5

\* Retain does that.
LEMMA Retains ==
  ASSUME NEW g, IsExecutable(g), NEW L, NEW K
  PROVE  \E upto : IsRetained(Retain(g, L, K), g, L, K, upto)
<1>1. {"tensors", "nodes", "inputs", "outputs", "parameters", "states"} \subseteq DOMAIN g
  BY DEF IsExecutable
<1>2. IsSequence(g.nodes) /\ IsSequence(g.inputs) /\ IsSequence(g.states)
  BY DEF IsExecutable
<1>3. PICK h : h = Retain(g, L, K)
  OBVIOUS
<1>4. PICK upto : upto = CHOOSE f : IsNodeFilter(f, g, L)
  OBVIOUS
<1>5. PICK ins : ins = CHOOSE f : IsFilter(f, g.inputs, K)
  OBVIOUS
<1>6. PICK sts : sts = CHOOSE f : IsFilter(f, g.states, K)
  OBVIOUS
<1>7. IsFilter(upto, g.nodes, LiveNodes(g, L))
  <2>1. \E f : IsFilter(f, g.nodes, LiveNodes(g, L))
    BY <1>2, FilterDefined DEF IsSequence
  <2>2. \E f : IsNodeFilter(f, g, L)
    BY <2>1, NodeFilterIsFilter
  <2>3. IsNodeFilter(upto, g, L)
    BY <1>4, <2>2
  <2> QED BY <2>3, NodeFilterIsFilter
<1>8. IsFilter(ins, g.inputs, K)
  <2>1. \E f : IsFilter(f, g.inputs, K)
    BY <1>2, FilterDefined DEF IsSequence
  <2> QED BY <1>5, <2>1
<1>9. IsFilter(sts, g.states, K)
  <2>1. \E f : IsFilter(f, g.states, K)
    BY <1>2, FilterDefined DEF IsSequence
  <2> QED BY <1>6, <2>1
<1>10. h.nodes = upto[Len(g.nodes)]
  BY <1>1, <1>3, <1>4 DEF Retain, Filtered, IsNodeFilter
<1>11. h.inputs = ins[Len(g.inputs)]
  BY <1>1, <1>3, <1>5 DEF Retain, Filtered, IsFilter
<1>12. h.states = sts[Len(g.states)]
  BY <1>1, <1>3, <1>6 DEF Retain, Filtered, IsFilter
<1>13. h.tensors = [t \in DOMAIN g.tensors \cap K |-> g.tensors[t]]
  BY <1>1, <1>3 DEF Retain
<1>14. h.outputs = g.outputs
  BY <1>1, <1>3 DEF Retain
<1>15. /\ IsSequence(h.inputs) /\ Range(h.inputs) = Range(g.inputs) \cap K
       /\ IsSequence(h.states) /\ Range(h.states) = Range(g.states) \cap K
  BY <1>2, <1>8, <1>9, <1>11, <1>12, FilterOfSequence
<1>16. IsRetained(h, g, L, K, upto)
  BY <1>7, <1>10, <1>13, <1>14, <1>15 DEF IsRetained
<1> QED BY <1>3, <1>16

\* The fields a graph must have, it keeps.
LEMMA RetainsFields ==
  ASSUME NEW g, NEW L, NEW K
  PROVE  DOMAIN Retain(g, L, K) = DOMAIN g
BY DEF Retain

\* All that a removal of dead code does: what is live stays.
IsRemoval(h, g, L, K, upto) ==
  IsExecutable(g) /\ IsLiveSet(L, g) /\ L \subseteq K /\ IsRetained(h, g, L, K, upto)

\* The live operations are those with a live result.
LEMMA LiveNode ==
  ASSUME NEW g, IsExecutable(g), NEW L, NEW i \in 1 .. Len(g.nodes)
  PROVE  g.nodes[i] \in LiveNodes(g, L) <=> Range(g.nodes[i].outputs) \cap L # {}
<1>1. i \in DOMAIN g.nodes
  BY ExecutableParts
<1>2. g.nodes[i] \in Range(g.nodes)
  BY <1>1 DEF Range
<1>3. \A t \in Range(g.nodes[i].outputs) : Producer(g, t) = g.nodes[i]
  BY ProducerOf
<1> QED BY <1>2, <1>3 DEF LiveNodes, IsLive

\* The operations that are left are the live ones.
LEMMA RemovalNodes ==
  ASSUME NEW g, NEW h, NEW L, NEW K, NEW upto, IsRemoval(h, g, L, K, upto)
  PROVE  /\ IsExecutable(g) /\ Len(g.nodes) \in Nat /\ g.nodes \in Seq(Range(g.nodes))
         /\ IsFilter(upto, g.nodes, LiveNodes(g, L)) /\ h.nodes = upto[Len(g.nodes)]
         /\ Len(h.nodes) \in Nat /\ h.nodes \in Seq(Range(g.nodes))
         /\ DOMAIN h.nodes = 1 .. Len(h.nodes)
<1>1. IsExecutable(g)
  BY DEF IsRemoval
<1>2. IsFilter(upto, g.nodes, LiveNodes(g, L)) /\ h.nodes = upto[Len(g.nodes)]
  BY DEF IsRemoval, IsRetained
<1>3. g.nodes \in Seq(Range(g.nodes)) /\ Len(g.nodes) \in Nat
  BY <1>1, ExecutableParts
<1>4. PICK k \in 0 .. Len(g.nodes) : k = Len(g.nodes)
  BY <1>3
<1>5. upto[k] \in Seq(Range(g.nodes))
  BY <1>2, <1>3, FilterIn
<1>6. h.nodes \in Seq(Range(g.nodes))
  BY <1>2, <1>4, <1>5
<1>7. Len(h.nodes) \in Nat /\ DOMAIN h.nodes = 1 .. Len(h.nodes)
  BY <1>6
<1> QED BY <1>1, <1>2, <1>3, <1>6, <1>7

\* The place of a live operation.
LEMMA LivePlace ==
  ASSUME NEW g, NEW h, NEW L, NEW K, NEW upto, IsRemoval(h, g, L, K, upto),
         NEW k \in 1 .. Len(g.nodes), Range(g.nodes[k].outputs) \cap L # {}
  PROVE  /\ Len(upto[k]) = Len(upto[k - 1]) + 1 /\ Len(upto[k - 1]) \in Nat
         /\ Len(upto[k]) \in 1 .. Len(h.nodes) /\ h.nodes[Len(upto[k])] = g.nodes[k]
<1>1. /\ IsExecutable(g) /\ g.nodes \in Seq(Range(g.nodes))
      /\ IsFilter(upto, g.nodes, LiveNodes(g, L)) /\ h.nodes = upto[Len(g.nodes)]
  BY RemovalNodes
<1>2. IsExecutable(g)
  BY <1>1
<1>3. g.nodes[k] \in LiveNodes(g, L) <=> Range(g.nodes[k].outputs) \cap L # {}
  BY <1>2, LiveNode
<1>4. g.nodes[k] \in LiveNodes(g, L)
  BY <1>3
<1> QED BY <1>1, <1>4, FilterPlaces

\* The operation of a place.
LEMMA PlaceOfLive ==
  ASSUME NEW g, NEW h, NEW L, NEW K, NEW upto, IsRemoval(h, g, L, K, upto),
         NEW i \in 1 .. Len(h.nodes)
  PROVE  \E k \in 1 .. Len(g.nodes) :
           Range(g.nodes[k].outputs) \cap L # {} /\ Len(upto[k]) = i /\ h.nodes[i] = g.nodes[k]
<1>1. /\ IsExecutable(g) /\ g.nodes \in Seq(Range(g.nodes))
      /\ IsFilter(upto, g.nodes, LiveNodes(g, L)) /\ h.nodes = upto[Len(g.nodes)]
  BY RemovalNodes
<1>2. \A j \in 1 .. Len(upto[Len(g.nodes)]) : \E k \in 1 .. Len(g.nodes) :
        g.nodes[k] \in LiveNodes(g, L) /\ Len(upto[k]) = j
  BY <1>1, FilterOrigins
<1>3. PICK k \in 1 .. Len(g.nodes) : g.nodes[k] \in LiveNodes(g, L) /\ Len(upto[k]) = i
  BY <1>1, <1>2
<1>4. IsExecutable(g)
  BY <1>1
<1>5. g.nodes[k] \in LiveNodes(g, L) <=> Range(g.nodes[k].outputs) \cap L # {}
  BY <1>4, LiveNode
<1>6. Range(g.nodes[k].outputs) \cap L # {}
  BY <1>3, <1>5
<1>7. h.nodes[Len(upto[k])] = g.nodes[k]
  BY <1>6, LivePlace
<1> QED BY <1>3, <1>6, <1>7

\* Live operations stay in their order.
LEMMA LiveOrder ==
  ASSUME NEW g, NEW h, NEW L, NEW K, NEW upto, IsRemoval(h, g, L, K, upto),
         NEW j \in 1 .. Len(g.nodes), Range(g.nodes[j].outputs) \cap L # {},
         NEW k \in 1 .. Len(g.nodes), Range(g.nodes[k].outputs) \cap L # {}
  PROVE  j < k <=> Len(upto[j]) < Len(upto[k])
<1>1. /\ IsExecutable(g) /\ IsFilter(upto, g.nodes, LiveNodes(g, L))
      /\ g.nodes \in Seq(Range(g.nodes)) /\ Len(g.nodes) \in Nat
  BY RemovalNodes
<1>2. ASSUME NEW a \in 1 .. Len(g.nodes), Range(g.nodes[a].outputs) \cap L # {},
             NEW b \in 1 .. Len(g.nodes), Range(g.nodes[b].outputs) \cap L # {}, a < b
      PROVE  Len(upto[a]) < Len(upto[b])
  <2>1. PICK c : c = b - 1
    OBVIOUS
  <2>2. a \in 0 .. Len(g.nodes) /\ c \in a .. Len(g.nodes)
    BY <1>1, <1>2, <2>1
  <2>3. Len(upto[a]) <= Len(upto[c])
    BY <1>1, <2>2, FilterGrows
  <2>4. Len(upto[b]) = Len(upto[c]) + 1 /\ Len(upto[c]) \in Nat
    BY <1>2, <2>1, LivePlace
  <2>5. Len(upto[a]) \in Nat
    <3>1. Len(upto[a]) \in 1 .. Len(h.nodes) /\ Len(h.nodes) \in Nat
      BY <1>2, LivePlace, RemovalNodes
    <3> QED BY <3>1
  <2> QED BY <2>3, <2>4, <2>5
<1>3. Len(upto[j]) \in Nat /\ Len(upto[k]) \in Nat
  <2>1. /\ Len(upto[j]) \in 1 .. Len(h.nodes) /\ Len(upto[k]) \in 1 .. Len(h.nodes)
        /\ Len(h.nodes) \in Nat
    BY LivePlace, RemovalNodes
  <2> QED BY <2>1
<1>4. j \in Nat /\ k \in Nat
  BY <1>1
<1>5. j = k => Len(upto[j]) = Len(upto[k])
  OBVIOUS
<1>6. j < k => Len(upto[j]) < Len(upto[k])
  BY <1>2
<1>7. k < j => Len(upto[k]) < Len(upto[j])
  BY <1>2
<1> QED BY <1>3, <1>4, <1>5, <1>6, <1>7

\* A live tensor is known where it was.
LEMMA LiveKnown ==
  ASSUME NEW g, NEW h, NEW L, NEW K, NEW upto, IsRemoval(h, g, L, K, upto),
         NEW k \in 1 .. Len(g.nodes), Range(g.nodes[k].outputs) \cap L # {}
  PROVE  /\ KnownBefore(h, Len(upto[k])) \subseteq KnownBefore(g, k)
         /\ KnownBefore(g, k) \cap L \subseteq KnownBefore(h, Len(upto[k]))
<1> DEFINE Given(f) == {t \in DOMAIN f.tensors : t \in Range(f.inputs) \/ HasData(f, t)}
<1>1. /\ IsExecutable(g) /\ L \subseteq K /\ Len(g.nodes) \in Nat
      /\ h.tensors = [t \in DOMAIN g.tensors \cap K |-> g.tensors[t]]
      /\ Range(h.inputs) = Range(g.inputs) \cap K
  BY ExecutableParts DEF IsRemoval, IsRetained
<1>2. Given(h) \subseteq Given(g) /\ Given(g) \cap L \subseteq Given(h)
  BY <1>1 DEF HasData
<1>3. Len(upto[k]) \in 1 .. Len(h.nodes) /\ Len(h.nodes) \in Nat
  BY LivePlace, RemovalNodes
<1>4. ASSUME NEW i \in 1 .. Len(upto[k]) - 1
      PROVE  \E j \in 1 .. k - 1 : Range(h.nodes[i].outputs) = Range(g.nodes[j].outputs)
  <2>1. i \in 1 .. Len(h.nodes) /\ i < Len(upto[k])
    BY <1>3
  <2>2. PICK j \in 1 .. Len(g.nodes) :
          Range(g.nodes[j].outputs) \cap L # {} /\ Len(upto[j]) = i /\ h.nodes[i] = g.nodes[j]
    BY <2>1, PlaceOfLive
  <2>3. j < k <=> Len(upto[j]) < Len(upto[k])
    BY <2>2, LiveOrder
  <2>4. j < k
    BY <2>1, <2>2, <2>3
  <2>5. j \in 1 .. k - 1
    BY <1>1, <2>4
  <2> QED BY <2>2, <2>5
<1>5. ASSUME NEW j \in 1 .. k - 1, NEW t \in Range(g.nodes[j].outputs), t \in L
      PROVE  \E i \in 1 .. Len(upto[k]) - 1 : t \in Range(h.nodes[i].outputs)
  <2>1. j \in 1 .. Len(g.nodes) /\ j < k
    BY <1>1
  <2>2. Range(g.nodes[j].outputs) \cap L # {}
    BY <1>5
  <2>3. Len(upto[j]) < Len(upto[k])
    BY <2>1, <2>2, LiveOrder
  <2>4. Len(upto[j]) \in 1 .. Len(h.nodes) /\ h.nodes[Len(upto[j])] = g.nodes[j]
    BY <2>1, <2>2, LivePlace
  <2>5. Len(upto[j]) \in 1 .. Len(upto[k]) - 1
    BY <1>3, <2>3, <2>4
  <2> QED BY <1>5, <2>4, <2>5
<1> QED BY <1>2, <1>4, <1>5 DEF KnownBefore

\* What is left can run.
LEMMA RemovalExecutable ==
  ASSUME NEW g, NEW h, NEW L, NEW K, NEW upto, IsRemoval(h, g, L, K, upto), DOMAIN h = DOMAIN g
  PROVE  IsExecutable(h)
<1>1. /\ IsExecutable(g) /\ IsLiveSet(L, g) /\ L \subseteq K
      /\ IsSequence(h.inputs) /\ IsSequence(h.states)
  BY DEF IsRemoval, IsRetained
<1>2. IsSequence(h.nodes) /\ DOMAIN h.nodes = 1 .. Len(h.nodes)
  <2>1. h.nodes \in Seq(Range(g.nodes)) /\ DOMAIN h.nodes = 1 .. Len(h.nodes)
    BY RemovalNodes
  <2> QED BY <2>1, SequenceOfRange
<1>3. ASSUME NEW i \in 1 .. Len(h.nodes)
      PROVE  /\ 1 \in DOMAIN h.nodes[i].outputs
             /\ Range(h.nodes[i].inputs) \subseteq KnownBefore(h, i)
             /\ Range(h.nodes[i].outputs) \cap KnownBefore(h, i) = {}
             /\ \A l \in 1 .. i - 1 : h.nodes[l].id /= h.nodes[i].id
  <2>1. PICK k \in 1 .. Len(g.nodes) :
          Range(g.nodes[k].outputs) \cap L # {} /\ Len(upto[k]) = i /\ h.nodes[i] = g.nodes[k]
    BY PlaceOfLive
  <2>2. h.nodes[i] = g.nodes[k]
    BY <2>1
  <2>3. /\ 1 \in DOMAIN g.nodes[k].outputs
        /\ Range(g.nodes[k].inputs) \subseteq KnownBefore(g, k)
        /\ Range(g.nodes[k].outputs) \cap KnownBefore(g, k) = {}
    BY <1>1, ExecutableParts
  <2>4. Range(g.nodes[k].inputs) \subseteq L
    BY <1>1, <2>1 DEF IsLiveSet
  <2>5. /\ KnownBefore(h, i) \subseteq KnownBefore(g, k)
        /\ KnownBefore(g, k) \cap L \subseteq KnownBefore(h, i)
    BY <2>1, LiveKnown
  <2>6. ASSUME NEW l \in 1 .. i - 1 PROVE h.nodes[l].id /= h.nodes[i].id
    <3>1. l < i
      OBVIOUS
    <3> l \in 1 .. Len(h.nodes)
      <4>1. Len(h.nodes) \in Nat
        BY RemovalNodes
      <4> QED BY <4>1
    <3>2. PICK j \in 1 .. Len(g.nodes) :
            Range(g.nodes[j].outputs) \cap L # {} /\ Len(upto[j]) = l /\ h.nodes[l] = g.nodes[j]
      BY PlaceOfLive
    <3>3. j < k <=> Len(upto[j]) < Len(upto[k])
      BY <2>1, <3>2, LiveOrder
    <3>4. j < k
      BY <2>1, <3>1, <3>2, <3>3
    <3>5. Len(g.nodes) \in Nat /\ DOMAIN g.nodes = 1 .. Len(g.nodes)
      BY <1>1, ExecutableParts
    <3>6. j \in 1 .. k - 1 /\ k \in DOMAIN g.nodes
      BY <3>4, <3>5
    <3> QED BY <1>1, <2>2, <3>2, <3>6 DEF IsExecutable
  <2> QED BY <2>2, <2>3, <2>4, <2>5, <2>6
<1>4. {"tensors", "nodes", "inputs", "outputs", "parameters", "states"} \subseteq DOMAIN h
  BY <1>1 DEF IsExecutable
<1> QED BY <1>1, <1>2, <1>3, <1>4 DEF IsExecutable

\* Nothing that is left is dead.
LEMMA RemovalComplete ==
  ASSUME NEW g, NEW h, NEW L, NEW K, NEW upto, IsRemoval(h, g, L, K, upto)
  PROVE  NoneDead(h)
<1>1. /\ IsExecutable(g) /\ IsLiveSet(L, g) /\ L \subseteq K /\ h.outputs = g.outputs
      /\ Range(h.states) = Range(g.states) \cap K
  BY DEF IsRemoval, IsRetained
<1>2. Wanted(g) \subseteq Range(h.outputs) \cup Range(h.states)
  BY <1>1 DEF IsLiveSet, Wanted
<1>3. DOMAIN h.nodes = 1 .. Len(h.nodes)
  BY RemovalNodes
<1>4. L \subseteq WantedIn(h)
  <2>1. ASSUME NEW t \in L, t \notin Wanted(g) PROVE \E n \in Nodes(h) : t \in Range(n.inputs)
    <3>1. PICK k \in 1 .. Len(g.nodes) :
            Range(g.nodes[k].outputs) \cap L # {} /\ t \in Range(g.nodes[k].inputs)
      BY <1>1, <2>1 DEF IsLiveSet
    <3>2. Len(upto[k]) \in DOMAIN h.nodes /\ h.nodes[Len(upto[k])] = g.nodes[k]
      BY <1>3, <3>1, LivePlace
    <3>3. g.nodes[k] \in Nodes(h)
      BY <3>2 DEF Nodes, Range
    <3> QED BY <3>1, <3>3
  <2> QED BY <1>2, <2>1 DEF WantedIn
<1>5. ASSUME NEW i \in DOMAIN h.nodes PROVE Range(h.nodes[i].outputs) \cap WantedIn(h) # {}
  <2>1. i \in 1 .. Len(h.nodes)
    BY <1>3
  <2>2. PICK k \in 1 .. Len(g.nodes) :
          Range(g.nodes[k].outputs) \cap L # {} /\ Len(upto[k]) = i /\ h.nodes[i] = g.nodes[k]
    BY <2>1, PlaceOfLive
  <2> QED BY <1>4, <2>2
<1> QED BY <1>5 DEF NoneDead, Nodes, Range

--------------------------------------------------------------------------------
(* What a graph computes: val[k] has the values after k operations.             *)

IsEvaluation(val, g, env) ==
  val = [k \in 0 .. Len(g.nodes) |->
           IF k = 0 THEN Leaves(g, env) ELSE AfterNode(val[k - 1], g.nodes[k])]

\* There is such a function, and Values is its last value.
LEMMA EvaluationDefined ==
  ASSUME NEW g, NEW env, Len(g.nodes) \in Nat
  PROVE  \E val : IsEvaluation(val, g, env) /\ Values(g, env) = val[Len(g.nodes)]
<1> DEFINE First(f, k) == f = [n \in 0 .. k |-> IF n = 0 THEN Leaves(g, env)
                                                ELSE AfterNode(f[n - 1], g.nodes[n])]
           S == {k \in Nat : \E f : First(f, k)}
<1>1. 0 \in S
  <2> DEFINE f == [n \in 0 .. 0 |-> Leaves(g, env)]
  <2>1. f = [n \in 0 .. 0 |-> IF n = 0 THEN Leaves(g, env) ELSE AfterNode(f[n - 1], g.nodes[n])]
    OBVIOUS
  <2> HIDE DEF f
  <2> QED BY <2>1
<1>2. ASSUME NEW k \in Nat, k < Len(g.nodes), k \in S PROVE k + 1 \in S
  <2>1. PICK f : First(f, k)
    BY <1>2
  <2> DEFINE h == [n \in 0 .. (k + 1) |-> IF n = 0 THEN Leaves(g, env)
                                          ELSE AfterNode(f[n - 1], g.nodes[n])]
  <2>2. ASSUME NEW n \in 0 .. (k + 1), n # 0 PROVE f[n - 1] = h[n - 1]
    <3>1. n - 1 \in 0 .. k /\ n - 1 \in 0 .. (k + 1)
      BY <2>2
    <3>2. f[n - 1] = IF n - 1 = 0 THEN Leaves(g, env)
                     ELSE AfterNode(f[(n - 1) - 1], g.nodes[n - 1])
      BY <2>1, <3>1
    <3>3. h[n - 1] = IF n - 1 = 0 THEN Leaves(g, env)
                     ELSE AfterNode(f[(n - 1) - 1], g.nodes[n - 1])
      BY <3>1
    <3> QED BY <3>2, <3>3
  <2>3. h = [n \in 0 .. (k + 1) |-> IF n = 0 THEN Leaves(g, env)
                                    ELSE AfterNode(h[n - 1], g.nodes[n])]
    <3>1. \A n \in 0 .. (k + 1) :
            (IF n = 0 THEN Leaves(g, env) ELSE AfterNode(f[n - 1], g.nodes[n]))
            = (IF n = 0 THEN Leaves(g, env) ELSE AfterNode(h[n - 1], g.nodes[n]))
      <4> TAKE n \in 0 .. (k + 1)
      <4>1. CASE n = 0
        BY <4>1
      <4>2. CASE n # 0
        <5>1. f[n - 1] = h[n - 1]
          BY <2>2, <4>2
        <5> HIDE DEF h
        <5> QED BY <5>1
      <4> QED BY <4>1, <4>2
    <3> QED BY <3>1
  <2> HIDE DEF h
  <2> QED BY <2>3
<1>3. Len(g.nodes) \in S
  <2>1. \A n \in Nat : n < Len(g.nodes) /\ n \in S => n + 1 \in S
    BY <1>2
  <2>2. Len(g.nodes) \in 0 .. Len(g.nodes)
    OBVIOUS
  <2> HIDE DEF S
  <2> QED BY <1>1, <2>1, <2>2, UpTo
<1>4. \E val : IsEvaluation(val, g, env)
  BY <1>3 DEF IsEvaluation
<1>5. PICK val : val = CHOOSE f : IsEvaluation(f, g, env)
  OBVIOUS
<1>6. IsEvaluation(val, g, env)
  BY <1>4, <1>5
<1>7. Values(g, env) = val[Len(g.nodes)]
  BY <1>5 DEF Values, OverNodes, IsEvaluation
<1> QED BY <1>6, <1>7

\* One step of it.
LEMMA EvaluationSteps ==
  ASSUME NEW g, NEW env, Len(g.nodes) \in Nat, NEW val, IsEvaluation(val, g, env)
  PROVE  /\ val[0] = Leaves(g, env)
         /\ \A k \in 1 .. Len(g.nodes) : val[k] = AfterNode(val[k - 1], g.nodes[k])
<1>1. 0 \in 0 .. Len(g.nodes) /\ \A k \in 1 .. Len(g.nodes) : k \in 0 .. Len(g.nodes) /\ k # 0
  OBVIOUS
<1> QED BY <1>1 DEF IsEvaluation

\* Two valuations agree on the tensors of L.
Agree(v, w, L) ==
  \A t \in L : (t \in DOMAIN v <=> t \in DOMAIN w) /\ (t \in DOMAIN v => v[t] = w[t])

\* An operation that reads only what they agree on computes the same.
LEMMA SameOperation ==
  ASSUME NEW v, NEW w, NEW L, Agree(v, w, L), NEW node, Range(node.inputs) \subseteq L
  PROVE  Agree(AfterNode(v, node), AfterNode(w, node), L)
<1> DEFINE known(x) == \A k \in DOMAIN node.inputs :
                         node.inputs[k] \in DOMAIN x /\ x[node.inputs[k]] /= Undefined
           args(x) == Tabulated([k \in DOMAIN node.inputs |-> x[node.inputs[k]]])
           after(x) == With(x, node.outputs[1], Compute(node, args(x)))
<1>1. \A k \in DOMAIN node.inputs : node.inputs[k] \in L
  BY DEF Range
<1>2. known(v) <=> known(w)
  BY <1>1 DEF Agree
<1>3. /\ AfterNode(v, node) = IF known(v) THEN after(v) ELSE v
      /\ AfterNode(w, node) = IF known(w) THEN after(w) ELSE w
  BY DEF AfterNode
<1>4. CASE known(v)
  <2>1. \A k \in DOMAIN node.inputs : v[node.inputs[k]] = w[node.inputs[k]]
    BY <1>1, <1>4 DEF Agree
  <2>2. [k \in DOMAIN node.inputs |-> v[node.inputs[k]]]
        = [k \in DOMAIN node.inputs |-> w[node.inputs[k]]]
    BY <2>1
  <2>3. args(v) = args(w)
    BY <2>2
  <2>4. PICK c : c = Compute(node, args(v))
    OBVIOUS
  <2>5. after(v) = With(v, node.outputs[1], c) /\ after(w) = With(w, node.outputs[1], c)
    BY <2>3, <2>4
  <2>6. Agree(With(v, node.outputs[1], c), With(w, node.outputs[1], c), L)
    BY DEF Agree, With
  <2> QED BY <1>2, <1>3, <1>4, <2>5, <2>6
<1>5. CASE ~known(v)
  BY <1>2, <1>3, <1>5
<1> QED BY <1>4, <1>5

\* An operation whose result is not in L makes no difference.
LEMMA NoOperation ==
  ASSUME NEW v, NEW w, NEW L, Agree(v, w, L), NEW node, node.outputs[1] \notin L
  PROVE  Agree(AfterNode(v, node), w, L)
<1>1. PICK c : AfterNode(v, node) = With(v, node.outputs[1], c) \/ AfterNode(v, node) = v
  BY DEF AfterNode
<1>2. Agree(With(v, node.outputs[1], c), w, L)
  BY DEF Agree, With
<1> QED BY <1>1, <1>2

\* Dead code makes no difference to what is live.
LEMMA RemovalAgrees ==
  ASSUME NEW g, NEW h, NEW L, NEW K, NEW upto, IsRemoval(h, g, L, K, upto), NEW env
  PROVE  Agree(Values(g, env), Values(h, env), L)
<1>1. /\ IsExecutable(g) /\ IsLiveSet(L, g) /\ L \subseteq K /\ h.outputs = g.outputs
      /\ h.tensors = [t \in DOMAIN g.tensors \cap K |-> g.tensors[t]]
      /\ h.nodes = upto[Len(g.nodes)] /\ IsFilter(upto, g.nodes, LiveNodes(g, L))
      /\ g.nodes \in Seq(Range(g.nodes)) /\ Len(g.nodes) \in Nat
  BY ExecutableParts DEF IsRemoval, IsRetained
<1>2. Len(h.nodes) \in Nat
  BY RemovalNodes
<1>3. PICK v : IsEvaluation(v, g, env) /\ Values(g, env) = v[Len(g.nodes)]
  BY <1>1, EvaluationDefined
<1>4. PICK w : IsEvaluation(w, h, env) /\ Values(h, env) = w[Len(h.nodes)]
  BY <1>2, EvaluationDefined
<1>5. Agree(v[0], w[0], L)
  <2>1. v[0] = Leaves(g, env) /\ w[0] = Leaves(h, env)
    BY <1>1, <1>2, <1>3, <1>4, EvaluationSteps
  <2>2. Agree(Leaves(g, env), Leaves(h, env), L)
    BY <1>1 DEF Agree, Leaves, HasData
  <2> QED BY <2>1, <2>2
<1> DEFINE Good == {k \in 0 .. Len(g.nodes) : Agree(v[k], w[Len(upto[k])], L)}
<1>6. 0 \in Good
  <2>1. upto[0] = <<>>
    BY <1>1, FilterStep
  <2>2. Len(upto[0]) = 0
    BY <2>1
  <2> QED BY <1>1, <1>5, <2>2
<1>7. ASSUME NEW n \in Nat, n < Len(g.nodes), n \in Good PROVE n + 1 \in Good
  <2>1. PICK k : k = n + 1
    OBVIOUS
  <2>2. k \in 1 .. Len(g.nodes) /\ k - 1 = n /\ k \in 0 .. Len(g.nodes)
    BY <1>1, <1>7, <2>1
  <2>3. v[k] = AfterNode(v[n], g.nodes[k])
    <3>1. v[k] = AfterNode(v[k - 1], g.nodes[k])
      <4>1. Len(g.nodes) \in Nat
        BY <1>1
      <4>2. IsEvaluation(v, g, env)
        BY <1>3
      <4> QED BY <2>2, <4>1, <4>2, EvaluationSteps
    <3> QED BY <2>2, <3>1
  <2>4. Agree(v[n], w[Len(upto[n])], L)
    BY <1>7
  <2>5. CASE Range(g.nodes[k].outputs) \cap L # {}
    <3>1. /\ Len(upto[k]) = Len(upto[n]) + 1 /\ Len(upto[n]) \in Nat
          /\ Len(upto[k]) \in 1 .. Len(h.nodes) /\ h.nodes[Len(upto[k])] = g.nodes[k]
      BY <2>2, <2>5, LivePlace
    <3>2. PICK l : l = Len(upto[k])
      OBVIOUS
    <3>3. l \in 1 .. Len(h.nodes) /\ l - 1 = Len(upto[n]) /\ h.nodes[l] = g.nodes[k]
      BY <3>1, <3>2
    <3>4. w[l] = AfterNode(w[l - 1], h.nodes[l])
      BY <1>2, <1>4, <3>3, EvaluationSteps
    <3>5. w[l] = AfterNode(w[Len(upto[n])], g.nodes[k])
      BY <3>3, <3>4
    <3>6. Range(g.nodes[k].inputs) \subseteq L
      BY <1>1, <2>2, <2>5 DEF IsLiveSet
    <3>7. Agree(v[k], w[l], L)
      BY <2>3, <2>4, <3>5, <3>6, SameOperation
    <3> QED BY <2>1, <2>2, <3>2, <3>7
  <2>6. CASE Range(g.nodes[k].outputs) \cap L = {}
    <3>1. g.nodes[k] \notin LiveNodes(g, L)
      <4>1. IsExecutable(g)
        BY <1>1
      <4>2. g.nodes[k] \in LiveNodes(g, L) <=> Range(g.nodes[k].outputs) \cap L # {}
        BY <2>2, <4>1, LiveNode
      <4> QED BY <2>6, <4>2
    <3>2. upto[k] = upto[n]
      BY <1>1, <2>2, <3>1, FilterStep
    <3>3. g.nodes[k].outputs[1] \notin L
      <4>1. 1 \in DOMAIN g.nodes[k].outputs
        BY <1>1, <2>2, ExecutableParts
      <4> QED BY <2>6, <4>1 DEF Range
    <3>4. Agree(v[k], w[Len(upto[n])], L)
      BY <2>3, <2>4, <3>3, NoOperation
    <3> QED BY <2>1, <2>2, <3>2, <3>4
  <2> QED BY <2>5, <2>6
<1>8. \A k \in 0 .. Len(g.nodes) : k \in Good
  <2>1. \A n \in Nat : n < Len(g.nodes) /\ n \in Good => n + 1 \in Good
    BY <1>7
  <2> HIDE DEF Good
  <2> QED BY <1>1, <1>6, <2>1, UpTo
<1>9. Agree(Values(g, env), Values(h, env), L)
  <2>1. Len(g.nodes) \in Good
    <3>1. Len(g.nodes) \in 0 .. Len(g.nodes)
      BY <1>1
    <3> QED BY <1>8, <3>1
  <2> QED BY <1>1, <1>3, <1>4, <2>1
<1> QED BY <1>9

\* So the results stay the same.
LEMMA RemovalResults ==
  ASSUME NEW g, NEW h, NEW L, NEW K, NEW upto, IsRemoval(h, g, L, K, upto), NEW env
  PROVE  Results(h, env) = Results(g, env)
<1>1. IsLiveSet(L, g) /\ h.outputs = g.outputs
  BY DEF IsRemoval, IsRetained
<1>2. Agree(Values(g, env), Values(h, env), L)
  BY RemovalAgrees
<1>3. \A k \in DOMAIN g.outputs : g.outputs[k] \in L
  BY <1>1 DEF IsLiveSet, Wanted, Range
<1> QED BY <1>1, <1>2, <1>3 DEF Results, Agree

--------------------------------------------------------------------------------
(* Dead code elimination                                                        *)

\* On any graph that can run: what is left can run, computes the same from any
\* inputs, and has no operation whose result nobody wants.
THEOREM DeadCodeCorrect ==
  ASSUME NEW g, IsExecutable(g)
  PROVE  /\ IsExecutable(DeadCodeElimination(g))
         /\ NoneDead(DeadCodeElimination(g))
         /\ \A env : Results(DeadCodeElimination(g), env) = Results(g, env)
<1>1. PICK L : L = LiveTensors(g)
  OBVIOUS
<1>2. PICK K : K = L \cup AlwaysKept(g)
  OBVIOUS
<1>3. PICK h : h = Retain(g, L, K)
  OBVIOUS
<1>4. h = DeadCodeElimination(g)
  BY <1>1, <1>2, <1>3 DEF DeadCodeElimination
<1>5. PICK upto : IsRetained(h, g, L, K, upto)
  BY <1>3, Retains
<1>6. IsLiveSet(L, g) /\ L \subseteq K
  BY <1>1, <1>2, LiveSet
<1>7. IsRemoval(h, g, L, K, upto)
  BY <1>5, <1>6 DEF IsRemoval
<1>8. DOMAIN h = DOMAIN g
  BY <1>3, RetainsFields
<1>9. IsExecutable(h)
  BY <1>7, <1>8, RemovalExecutable
<1>10. NoneDead(h)
  BY <1>7, RemovalComplete
<1>11. \A env : Results(h, env) = Results(g, env)
  BY <1>7, RemovalResults
<1> QED BY <1>4, <1>9, <1>10, <1>11

\* The elements of a concatenation.
LEMMA ConcatLen ==
  ASSUME NEW S, NEW s \in Seq(S), NEW t \in Seq(S)
  PROVE  s \o t \in Seq(S) /\ Len(s \o t) = Len(s) + Len(t)
OBVIOUS

\* Those of the first part.
LEMMA ConcatLeft ==
  ASSUME NEW S, NEW s \in Seq(S), NEW t \in Seq(S), NEW i \in 1 .. Len(s)
  PROVE  (s \o t)[i] = s[i]
OBVIOUS

\* Those of the second.
LEMMA ConcatRight ==
  ASSUME NEW S, NEW s \in Seq(S), NEW t \in Seq(S), NEW i \in 1 .. Len(t)
  PROVE  (s \o t)[Len(s) + i] = t[i]
OBVIOUS

\* Where the pipeline eliminates dead code.
LEMMA DeadCodeStages ==
  /\ Len(Pipeline) = 17
  /\ Stages[17] = "dead_code" /\ Stages[34] = "dead_code"
<1> DEFINE first == <<"constant_folding">>
           last == <<"redundant", "dead_code">>
<1>1. /\ first \in Seq({"constant_folding"}) /\ Len(first) = 1
      /\ last \in Seq({"redundant", "dead_code"}) /\ Len(last) = 2 /\ last[2] = "dead_code"
  OBVIOUS
<1>2. Fusions \in Seq({Fusions[i] : i \in 1 .. 14}) /\ Len(Fusions) = 14
  BY DEF Fusions
<1>3. PICK S : /\ {"constant_folding"} \subseteq S /\ {"redundant", "dead_code"} \subseteq S
               /\ {Fusions[i] : i \in 1 .. 14} \subseteq S
  <2> DEFINE all == {"constant_folding"} \cup {"redundant", "dead_code"} \cup {Fusions[i] : i \in 1 .. 14}
  <2>1. /\ {"constant_folding"} \subseteq all /\ {"redundant", "dead_code"} \subseteq all
        /\ {Fusions[i] : i \in 1 .. 14} \subseteq all
    OBVIOUS
  <2> QED BY <2>1
<1>4. first \in Seq(S) /\ last \in Seq(S) /\ Fusions \in Seq(S)
  BY <1>1, <1>2, <1>3, SeqMonotonic
<1>5. Pipeline = (first \o Fusions) \o last
  BY DEF Pipeline
<1> HIDE DEF first, last
<1>6. PICK begun : begun = first \o Fusions
  OBVIOUS
<1>7. begun \in Seq(S) /\ Len(begun) = 15
  <2>1. begun \in Seq(S) /\ Len(begun) = Len(first) + Len(Fusions)
    BY <1>4, <1>6, ConcatLen
  <2> QED BY <1>1, <1>2, <2>1
<1>8. Pipeline \in Seq(S) /\ Len(Pipeline) = 17 /\ Pipeline[17] = "dead_code"
  <2>1. Pipeline = begun \o last
    BY <1>5, <1>6
  <2>2. begun \in Seq(S) /\ last \in Seq(S)
    BY <1>4, <1>7
  <2>3. begun \o last \in Seq(S) /\ Len(begun \o last) = Len(begun) + Len(last)
    BY <2>2, ConcatLen
  <2>4. PICK i : i = 2
    OBVIOUS
  <2>5. i \in 1 .. Len(last)
    BY <1>1, <2>4
  <2>6. (begun \o last)[Len(begun) + i] = last[i]
    BY <2>2, <2>5, ConcatRight
  <2>7. Len(begun) + i = 17 /\ Len(begun) + Len(last) = 17
    BY <1>1, <1>7, <2>4
  <2> QED BY <1>1, <2>1, <2>3, <2>4, <2>6, <2>7
<1>9. PICK p : p = Pipeline
  OBVIOUS
<1>10. p \in Seq(S) /\ Len(p) = 17 /\ p[17] = "dead_code"
  BY <1>8, <1>9
<1>11. p \o p \in Seq(S) /\ Len(p \o p) = 34 /\ (p \o p)[17] = "dead_code" /\ (p \o p)[34] = "dead_code"
  <2>1. p \o p \in Seq(S) /\ Len(p \o p) = Len(p) + Len(p)
    BY <1>10, ConcatLen
  <2>2. PICK i : i = 17
    OBVIOUS
  <2>3. i \in 1 .. Len(p)
    BY <1>10, <2>2
  <2>4. (p \o p)[i] = p[i]
    BY <1>10, <2>3, ConcatLeft
  <2>5. (p \o p)[Len(p) + i] = p[i]
    <3>1. p \in Seq(S)
      BY <1>10
    <3> QED BY <2>3, <3>1, ConcatRight
  <2>6. Len(p) + i = 34 /\ Len(p) + Len(p) = 34
    BY <1>10, <2>2
  <2> QED BY <1>10, <2>1, <2>2, <2>4, <2>5, <2>6
<1>12. Stages[17] = "dead_code" /\ Stages[34] = "dead_code"
  <2>1. PICK twice : twice = p \o p
    OBVIOUS
  <2>2. twice \in Seq(S) /\ Len(twice) = 34 /\ twice[17] = "dead_code" /\ twice[34] = "dead_code"
    BY <1>11, <2>1
  <2>3. PICK fusions : fusions = Fusions
    OBVIOUS
  <2>4. fusions \in Seq(S)
    BY <1>4, <2>3
  <2>5. ASSUME NEW i \in 1 .. Len(twice) PROVE (twice \o fusions)[i] = twice[i]
    BY <2>2, <2>4, ConcatLeft
  <2>6. (twice \o fusions)[17] = twice[17] /\ (twice \o fusions)[34] = twice[34]
    <3>1. 17 \in 1 .. Len(twice) /\ 34 \in 1 .. Len(twice)
      BY <2>2
    <3> QED BY <2>5, <3>1
  <2>7. Stages = twice \o fusions
    BY <1>9, <2>1, <2>3 DEF Stages
  <2> QED BY <2>2, <2>6, <2>7
<1> QED BY <1>8, <1>12

\* A step that eliminates dead code.
LEMMA DeadCodeStep ==
  ASSUME RunStage, Stages[at + 1] = "dead_code"
  PROVE  graph' = DeadCodeElimination(graph)
<1>1. graph' = IF IsEnabled("dead_code") THEN Rewritten("dead_code", graph) ELSE graph
  BY DEF RunStage
<1>2. IsEnabled("dead_code")
  BY DEF IsEnabled
<1>3. Rewritten("dead_code", graph) = DeadCodeElimination(graph)
  BY DEF Rewritten
<1> QED BY <1>1, <1>2, <1>3

\* While the graph can run, the pipeline leaves nothing dead.
THEOREM NothingDeadTheorem == Spec /\ []IsExecutable(graph) => []NothingDead
<1> DEFINE Inv == at \in Nat /\ NothingDead
<1>1. Init => Inv
  BY DeadCodeStages DEF Init, NothingDead
<1>2. IsExecutable(graph) /\ Inv /\ [Next]_vars => Inv'
  <2> SUFFICES ASSUME IsExecutable(graph), at \in Nat, NothingDead, [Next]_vars
               PROVE  at' \in Nat /\ NothingDead'
    OBVIOUS
  <2>1. CASE RunStage
    <3>1. at' = at + 1
      BY <2>1 DEF RunStage
    <3>2. ASSUME at' \in {17, 34} PROVE NoneDead(graph')
      <4>1. at + 1 \in {17, 34}
        BY <3>1, <3>2
      <4>2. Stages[at + 1] = "dead_code"
        BY <4>1, DeadCodeStages
      <4>3. graph' = DeadCodeElimination(graph)
        BY <2>1, <4>2, DeadCodeStep
      <4> QED BY <4>3, DeadCodeCorrect
    <3> QED BY <3>1, <3>2, DeadCodeStages DEF NothingDead
  <2>2. CASE UNCHANGED vars
    BY <2>2 DEF vars, NothingDead
  <2> QED BY <2>1, <2>2 DEF Next, Finished
<1>3. Inv => NothingDead
  OBVIOUS
<1> QED BY <1>1, <1>2, <1>3, PTL DEF Spec

\* While the graph can run, the steps that eliminate dead code keep what it
\* computes, and that it can run.
DeadCodeKeepsResults ==
  [][at' # at /\ Stages[at + 1] = "dead_code" =>
       IsExecutable(graph') /\ Results(graph', source.env) = Results(graph, source.env)]_vars

\* Dead code elimination, whenever the pipeline comes to it with a graph that can run,
\* leaves one that can run and has the same results.
THEOREM DeadCodeKeepsResultsTheorem == Spec /\ []IsExecutable(graph) => DeadCodeKeepsResults
<1>1. IsExecutable(graph) /\ [Next]_vars =>
        [at' # at /\ Stages[at + 1] = "dead_code" =>
           IsExecutable(graph') /\ Results(graph', source.env) = Results(graph, source.env)]_vars
  <2> SUFFICES ASSUME IsExecutable(graph), RunStage, Stages[at + 1] = "dead_code"
               PROVE  IsExecutable(graph') /\ Results(graph', source.env) = Results(graph, source.env)
    BY DEF Next, Finished, vars
  <2>1. graph' = DeadCodeElimination(graph)
    BY DeadCodeStep
  <2> QED BY <2>1, DeadCodeCorrect
<1> QED BY <1>1, PTL DEF Spec, DeadCodeKeepsResults

--------------------------------------------------------------------------------
(* A graph that can run has one valuation: the only one that gives the result   *)
(* of every operation what the operation computes, and the rest what it is      *)
(* given.                                                                       *)

Args(V, node) == [k \in DOMAIN node.inputs |-> Val(V, node.inputs[k])]

Known(V, node) == \A k \in DOMAIN node.inputs : Val(V, node.inputs[k]) # Undefined

Given(g, env, t) == Val(Leaves(g, env), t)

\* What an operation's result is, when the values are V.
Outcome(V, g, env, node) ==
  IF Known(V, node) THEN Compute(node, Args(V, node)) ELSE Given(g, env, node.outputs[1])

IsResult(g, t) == \E i \in 1 .. Len(g.nodes) : t = g.nodes[i].outputs[1]

Solves(V, g, env) ==
  /\ \A i \in 1 .. Len(g.nodes) : Val(V, g.nodes[i].outputs[1]) = Outcome(V, g, env, g.nodes[i])
  /\ \A t : ~IsResult(g, t) => Val(V, t) = Given(g, env, t)

\* The value of a tensor after an operation.
LEMMA AfterNodeVal ==
  ASSUME NEW V, NEW node, NEW t
  PROVE  Val(AfterNode(V, node), t) =
           IF t = node.outputs[1] /\ Known(V, node) THEN Compute(node, Args(V, node)) ELSE Val(V, t)
<1> DEFINE known == \A k \in DOMAIN node.inputs :
                      node.inputs[k] \in DOMAIN V /\ V[node.inputs[k]] /= Undefined
           args == [k \in DOMAIN node.inputs |-> V[node.inputs[k]]]
<1>1. known <=> Known(V, node)
  BY DEF Known, Val
<1>2. AfterNode(V, node) = IF known THEN With(V, node.outputs[1], Compute(node, args)) ELSE V
  BY DEF AfterNode, Tabulated
<1>3. CASE known
  <2>1. args = Args(V, node)
    BY <1>3 DEF Args, Val
  <2>2. PICK c : c = Compute(node, args)
    OBVIOUS
  <2>3. Compute(node, Args(V, node)) = c
    BY <2>1, <2>2
  <2>4. AfterNode(V, node) = With(V, node.outputs[1], c)
    BY <1>2, <1>3, <2>2
  <2>5. Val(With(V, node.outputs[1], c), t) = IF t = node.outputs[1] THEN c ELSE Val(V, t)
    BY DEF Val, With
  <2> QED BY <1>1, <1>3, <2>3, <2>4, <2>5
<1>4. CASE ~known
  BY <1>1, <1>2, <1>4
<1> QED BY <1>3, <1>4

\* Two valuations with the same values of an operation's operands.
LEMMA SameOutcome ==
  ASSUME NEW V, NEW W, NEW g, NEW env, NEW node,
         \A k \in DOMAIN node.inputs : Val(V, node.inputs[k]) = Val(W, node.inputs[k])
  PROVE  Outcome(V, g, env, node) = Outcome(W, g, env, node)
<1>1. Args(V, node) = Args(W, node)
  BY DEF Args
<1>2. Known(V, node) <=> Known(W, node)
  BY DEF Known
<1>3. PICK a : a = Args(V, node)
  OBVIOUS
<1> QED BY <1>1, <1>2, <1>3 DEF Outcome

\* The first result of an operation is one of its results.
LEMMA FirstResult ==
  ASSUME NEW g, IsExecutable(g), NEW i \in 1 .. Len(g.nodes)
  PROVE  g.nodes[i].outputs[1] \in Range(g.nodes[i].outputs)
<1>1. 1 \in DOMAIN g.nodes[i].outputs
  BY ExecutableParts
<1> QED BY <1>1 DEF Range

\* What an operation reads is no result of a later one, nor its own.
LEMMA OperandIsEarlier ==
  ASSUME NEW g, IsExecutable(g), NEW i \in 1 .. Len(g.nodes), NEW k \in DOMAIN g.nodes[i].inputs,
         NEW j \in 1 .. Len(g.nodes), i <= j
  PROVE  g.nodes[i].inputs[k] # g.nodes[j].outputs[1]
<1>1. g.nodes[i].inputs[k] \in Range(g.nodes[i].inputs)
  BY DEF Range
<1>2. Len(g.nodes) \in Nat
  BY ExecutableParts
<1>3. ASSUME g.nodes[i].inputs[k] = g.nodes[j].outputs[1] PROVE FALSE
  <2>1. g.nodes[i].inputs[k] \in Range(g.nodes[j].outputs)
    BY <1>3, FirstResult
  <2>2. j < i
    BY <1>1, <2>1, ReadsEarlier
  <2> QED BY <1>2, <2>2
<1> QED BY <1>3

\* Two operations do not have one result.
LEMMA ResultsDiffer ==
  ASSUME NEW g, IsExecutable(g), NEW i \in 1 .. Len(g.nodes), NEW j \in 1 .. Len(g.nodes),
         g.nodes[i].outputs[1] = g.nodes[j].outputs[1]
  PROVE  i = j
<1>1. /\ g.nodes[i].outputs[1] \in Range(g.nodes[i].outputs)
      /\ g.nodes[j].outputs[1] \in Range(g.nodes[j].outputs)
  BY FirstResult
<1> QED BY <1>1, ResultOfOne

\* The valuation that running the graph ends with is one.
LEMMA ValuesSolve ==
  ASSUME NEW g, IsExecutable(g), NEW env
  PROVE  Solves(Values(g, env), g, env)
<1>1. Len(g.nodes) \in Nat
  BY ExecutableParts
<1>2. PICK val : IsEvaluation(val, g, env) /\ Values(g, env) = val[Len(g.nodes)]
  BY <1>1, EvaluationDefined
<1>3. val[0] = Leaves(g, env) /\ \A k \in 1 .. Len(g.nodes) : val[k] = AfterNode(val[k - 1], g.nodes[k])
  BY <1>1, <1>2, EvaluationSteps
<1> DEFINE Good == {k \in 0 .. Len(g.nodes) :
             /\ \A i \in 1 .. k : Val(val[k], g.nodes[i].outputs[1]) = Outcome(val[k], g, env, g.nodes[i])
             /\ \A t : (\A i \in 1 .. k : t # g.nodes[i].outputs[1]) => Val(val[k], t) = Given(g, env, t)}
<1>4. 0 \in Good
  BY <1>1, <1>3 DEF Given
<1>5. ASSUME NEW n \in Nat, n < Len(g.nodes), n \in Good PROVE n + 1 \in Good
  <2>1. PICK k : k = n + 1
    OBVIOUS
  <2>2. /\ k \in 1 .. Len(g.nodes) /\ k - 1 = n /\ k \in 0 .. Len(g.nodes) /\ k \in 1 .. k
        /\ \A i \in 1 .. k : i \in 1 .. Len(g.nodes) /\ (i \in 1 .. n \/ i = k) /\ i <= k
        /\ \A i \in 1 .. n : i \in 1 .. k /\ i # k
    BY <1>1, <1>5, <2>1
  <2>3. PICK node : node = g.nodes[k]
    OBVIOUS
  <2>4. val[k] = AfterNode(val[n], node)
    BY <1>3, <2>2, <2>3
  <2>5. \A t : Val(val[k], t) = IF t = node.outputs[1] /\ Known(val[n], node)
                                THEN Compute(node, Args(val[n], node)) ELSE Val(val[n], t)
    BY <2>4, AfterNodeVal
  <2>6. \A t : t # node.outputs[1] => Val(val[k], t) = Val(val[n], t)
    BY <2>5
  <2>7. \A i \in 1 .. k : \A m \in DOMAIN g.nodes[i].inputs : g.nodes[i].inputs[m] # node.outputs[1]
    BY <2>2, <2>3, OperandIsEarlier
  <2>8. \A i \in 1 .. k : Outcome(val[k], g, env, g.nodes[i]) = Outcome(val[n], g, env, g.nodes[i])
    <3> TAKE i \in 1 .. k
    <3>1. \A m \in DOMAIN g.nodes[i].inputs :
            Val(val[k], g.nodes[i].inputs[m]) = Val(val[n], g.nodes[i].inputs[m])
      BY <2>6, <2>7
    <3> QED BY <3>1, SameOutcome
  <2>9. Val(val[n], node.outputs[1]) = Given(g, env, node.outputs[1])
    <3>1. \A i \in 1 .. n : node.outputs[1] # g.nodes[i].outputs[1]
      BY <2>2, <2>3, ResultsDiffer
    <3> QED BY <1>5, <3>1
  <2>10. Val(val[k], node.outputs[1]) = Outcome(val[k], g, env, node)
    <3>1. Val(val[k], node.outputs[1]) = Outcome(val[n], g, env, node)
      BY <2>5, <2>9 DEF Outcome
    <3> QED BY <2>2, <2>3, <2>8, <3>1
  <2>11. ASSUME NEW i \in 1 .. k
         PROVE  Val(val[k], g.nodes[i].outputs[1]) = Outcome(val[k], g, env, g.nodes[i])
    <3>1. CASE i = k
      BY <2>3, <2>10, <3>1
    <3>2. CASE i \in 1 .. n
      <4>1. g.nodes[i].outputs[1] # node.outputs[1]
        BY <2>2, <2>3, <3>2, ResultsDiffer
      <4>2. Val(val[n], g.nodes[i].outputs[1]) = Outcome(val[n], g, env, g.nodes[i])
        BY <1>5, <3>2
      <4> QED BY <2>6, <2>8, <4>1, <4>2
    <3> QED BY <2>2, <3>1, <3>2
  <2>12. ASSUME NEW t, \A i \in 1 .. k : t # g.nodes[i].outputs[1]
         PROVE  Val(val[k], t) = Given(g, env, t)
    <3>1. t # node.outputs[1] /\ \A i \in 1 .. n : t # g.nodes[i].outputs[1]
      BY <2>2, <2>3, <2>12
    <3> QED BY <1>5, <2>6, <3>1
  <2> QED BY <2>1, <2>2, <2>11, <2>12
<1>6. Len(g.nodes) \in Good
  <2>1. \A n \in Nat : n < Len(g.nodes) /\ n \in Good => n + 1 \in Good
    BY <1>5
  <2>2. Len(g.nodes) \in 0 .. Len(g.nodes)
    BY <1>1
  <2> HIDE DEF Good
  <2> QED BY <1>1, <1>4, <2>1, <2>2, UpTo
<1>7. /\ \A i \in 1 .. Len(g.nodes) :
           Val(Values(g, env), g.nodes[i].outputs[1]) = Outcome(Values(g, env), g, env, g.nodes[i])
      /\ \A t : (\A i \in 1 .. Len(g.nodes) : t # g.nodes[i].outputs[1])
                  => Val(Values(g, env), t) = Given(g, env, t)
  BY <1>2, <1>6
<1> QED BY <1>7 DEF Solves, IsResult

\* There is no other.
LEMMA SolutionsAgree ==
  ASSUME NEW g, IsExecutable(g), NEW env, NEW V, Solves(V, g, env), NEW W, Solves(W, g, env)
  PROVE  \A t : Val(V, t) = Val(W, t)
<1>1. Len(g.nodes) \in Nat
  BY ExecutableParts
<1>2. \A t : ~IsResult(g, t) => Val(V, t) = Val(W, t)
  BY DEF Solves
<1> DEFINE Good == {k \in 0 .. Len(g.nodes) :
                     \A i \in 1 .. k : Val(V, g.nodes[i].outputs[1]) = Val(W, g.nodes[i].outputs[1])}
<1>3. 0 \in Good
  BY <1>1
<1>4. ASSUME NEW n \in Nat, n < Len(g.nodes), n \in Good PROVE n + 1 \in Good
  <2>1. PICK k : k = n + 1
    OBVIOUS
  <2>2. /\ k \in 1 .. Len(g.nodes) /\ k \in 0 .. Len(g.nodes)
        /\ \A i \in 1 .. k : i \in 1 .. n \/ i = k
    BY <1>1, <1>4, <2>1
  <2>3. ASSUME NEW m \in DOMAIN g.nodes[k].inputs
        PROVE  Val(V, g.nodes[k].inputs[m]) = Val(W, g.nodes[k].inputs[m])
    <3>1. CASE IsResult(g, g.nodes[k].inputs[m])
      <4>1. PICK i \in 1 .. Len(g.nodes) : g.nodes[k].inputs[m] = g.nodes[i].outputs[1]
        BY <3>1 DEF IsResult
      <4>2. ~(k <= i)
        BY <2>2, <4>1, OperandIsEarlier
      <4>3. i \in 1 .. n
        BY <1>1, <2>1, <2>2, <4>2
      <4> QED BY <1>4, <4>1, <4>3
    <3>2. CASE ~IsResult(g, g.nodes[k].inputs[m])
      BY <1>2, <3>2
    <3> QED BY <3>1, <3>2
  <2>4. Outcome(V, g, env, g.nodes[k]) = Outcome(W, g, env, g.nodes[k])
    BY <2>3, SameOutcome
  <2>5. Val(V, g.nodes[k].outputs[1]) = Val(W, g.nodes[k].outputs[1])
    BY <2>2, <2>4 DEF Solves
  <2> QED BY <1>4, <2>1, <2>2, <2>5
<1>5. Len(g.nodes) \in Good
  <2>1. \A n \in Nat : n < Len(g.nodes) /\ n \in Good => n + 1 \in Good
    BY <1>4
  <2>2. Len(g.nodes) \in 0 .. Len(g.nodes)
    BY <1>1
  <2> HIDE DEF Good
  <2> QED BY <1>1, <1>3, <2>1, <2>2, UpTo
<1>6. \A t : IsResult(g, t) => Val(V, t) = Val(W, t)
  BY <1>5 DEF IsResult
<1> QED BY <1>2, <1>6

\* So the results are those of any valuation that solves the graph.
LEMMA ResultsOf ==
  ASSUME NEW g, IsExecutable(g), NEW env, NEW V, Solves(V, g, env)
  PROVE  Results(g, env) = [k \in DOMAIN g.outputs |-> Val(V, g.outputs[k])]
<1>1. \A t : Val(Values(g, env), t) = Val(V, t)
  BY ValuesSolve, SolutionsAgree
<1>2. Results(g, env) = [k \in DOMAIN g.outputs |-> Val(Values(g, env), g.outputs[k])]
  BY DEF Results, Val
<1> QED BY <1>1, <1>2

--------------------------------------------------------------------------------
(* Constant folding: fold[k] is the graph when k operations have been seen.     *)

Emptied(g) == [g EXCEPT !.nodes = <<>>]

IsFolding(fold, g) ==
  fold = [k \in 0 .. Len(g.nodes) |->
            IF k = 0 THEN Emptied(g) ELSE FoldNode(fold[k - 1], g.nodes[k])]

\* There is such a function, and ConstantFolding is its last value.
LEMMA FoldingDefined ==
  ASSUME NEW g, Len(g.nodes) \in Nat, "nodes" \in DOMAIN g
  PROVE  \E fold : IsFolding(fold, g) /\ ConstantFolding(g) = fold[Len(g.nodes)]
<1> DEFINE First(f, k) == f = [n \in 0 .. k |-> IF n = 0 THEN Emptied(g)
                                                ELSE FoldNode(f[n - 1], g.nodes[n])]
           S == {k \in Nat : \E f : First(f, k)}
<1>1. 0 \in S
  <2> DEFINE f == [n \in 0 .. 0 |-> Emptied(g)]
  <2>1. f = [n \in 0 .. 0 |-> IF n = 0 THEN Emptied(g) ELSE FoldNode(f[n - 1], g.nodes[n])]
    OBVIOUS
  <2> HIDE DEF f
  <2> QED BY <2>1
<1>2. ASSUME NEW k \in Nat, k < Len(g.nodes), k \in S PROVE k + 1 \in S
  <2>1. PICK f : First(f, k)
    BY <1>2
  <2> DEFINE h == [n \in 0 .. (k + 1) |-> IF n = 0 THEN Emptied(g)
                                          ELSE FoldNode(f[n - 1], g.nodes[n])]
  <2>2. ASSUME NEW n \in 0 .. (k + 1), n # 0 PROVE f[n - 1] = h[n - 1]
    <3>1. n - 1 \in 0 .. k /\ n - 1 \in 0 .. (k + 1)
      BY <2>2
    <3>2. f[n - 1] = IF n - 1 = 0 THEN Emptied(g) ELSE FoldNode(f[(n - 1) - 1], g.nodes[n - 1])
      BY <2>1, <3>1
    <3>3. h[n - 1] = IF n - 1 = 0 THEN Emptied(g) ELSE FoldNode(f[(n - 1) - 1], g.nodes[n - 1])
      BY <3>1
    <3> QED BY <3>2, <3>3
  <2>3. h = [n \in 0 .. (k + 1) |-> IF n = 0 THEN Emptied(g)
                                    ELSE FoldNode(h[n - 1], g.nodes[n])]
    <3>1. \A n \in 0 .. (k + 1) :
            (IF n = 0 THEN Emptied(g) ELSE FoldNode(f[n - 1], g.nodes[n]))
            = (IF n = 0 THEN Emptied(g) ELSE FoldNode(h[n - 1], g.nodes[n]))
      <4> TAKE n \in 0 .. (k + 1)
      <4>1. CASE n = 0
        BY <4>1
      <4>2. CASE n # 0
        <5>1. f[n - 1] = h[n - 1]
          BY <2>2, <4>2
        <5> HIDE DEF h
        <5> QED BY <5>1
      <4> QED BY <4>1, <4>2
    <3> QED BY <3>1
  <2> HIDE DEF h
  <2> QED BY <2>3
<1>3. Len(g.nodes) \in S
  <2>1. \A n \in Nat : n < Len(g.nodes) /\ n \in S => n + 1 \in S
    BY <1>2
  <2>2. Len(g.nodes) \in 0 .. Len(g.nodes)
    OBVIOUS
  <2> HIDE DEF S
  <2> QED BY <1>1, <2>1, <2>2, UpTo
<1>4. \E fold : IsFolding(fold, g)
  BY <1>3 DEF IsFolding
<1>5. PICK fold : fold = CHOOSE f : IsFolding(f, g)
  OBVIOUS
<1>6. IsFolding(fold, g)
  BY <1>4, <1>5
<1>7. ConstantFolding(g) = fold[Len(g.nodes)]
  BY <1>5 DEF ConstantFolding, OverNodes, IsFolding, Emptied
<1> QED BY <1>6, <1>7

\* Where it folds, and what.
FoldedAt(fold, g, i) == FoldedValue(fold[i - 1], g.nodes[i])
IsFoldedAt(fold, g, i) == FoldedAt(fold, g, i) # NoData

\* One operation.
LEMMA FoldNodeParts ==
  ASSUME NEW x, NEW node, {"nodes", "tensors"} \subseteq DOMAIN x, HasFields(x),
         NEW h, h = FoldNode(x, node)
  PROVE  /\ DOMAIN h = DOMAIN x /\ DOMAIN h.tensors = DOMAIN x.tensors
         /\ \A field \in DOMAIN x \ {"nodes", "tensors"} : h[field] = x[field]
         /\ HasFields(h) /\ \A t \in DOMAIN x.tensors : h.tensors[t].shape = x.tensors[t].shape
         /\ FoldedValue(x, node) = NoData => h.nodes = Append(x.nodes, node) /\ h.tensors = x.tensors
         /\ FoldedValue(x, node) # NoData =>
              /\ h.nodes = x.nodes
              /\ \A t \in DOMAIN x.tensors \ {node.outputs[1]} : h.tensors[t] = x.tensors[t]
              /\ node.outputs[1] \in DOMAIN x.tensors =>
                   /\ h.tensors[node.outputs[1]].storage = "CONSTANT"
                   /\ h.tensors[node.outputs[1]].data = FoldedValue(x, node)
<1>1. CASE FoldedValue(x, node) = NoData
  <2>1. h = [x EXCEPT !.nodes = Append(@, node)]
    BY <1>1 DEF FoldNode
  <2> QED BY <1>1, <2>1 DEF HasFields
<1>2. CASE FoldedValue(x, node) # NoData
  <2>1. PICK value : value = FoldedValue(x, node)
    OBVIOUS
  <2>2. PICK t : t = node.outputs[1]
    OBVIOUS
  <2>3. PICK info : info = [x.tensors[t] EXCEPT !.storage = "CONSTANT", !.data = value, !.listed = TRUE]
    OBVIOUS
  <2>4. h = [x EXCEPT !.tensors = [x.tensors EXCEPT ![t] = info]]
    BY <1>2, <2>1, <2>2, <2>3 DEF FoldNode
  <2>5. h.tensors = [x.tensors EXCEPT ![t] = info] /\ h.nodes = x.nodes /\ DOMAIN h = DOMAIN x
    BY <2>4
  <2>6. DOMAIN h.tensors = DOMAIN x.tensors /\ \A s \in DOMAIN x.tensors \ {t} : h.tensors[s] = x.tensors[s]
    BY <2>5
  <2>7. t \in DOMAIN x.tensors => h.tensors[t] = info /\ DOMAIN info = DOMAIN x.tensors[t]
          /\ info.storage = "CONSTANT" /\ info.data = value /\ info.shape = x.tensors[t].shape
    BY <2>3, <2>5 DEF HasFields
  <2>8. HasFields(h)
    BY <2>6, <2>7 DEF HasFields
  <2>9. \A s \in DOMAIN x.tensors : h.tensors[s].shape = x.tensors[s].shape
    BY <2>6, <2>7
  <2>10. \A field \in DOMAIN x \ {"nodes", "tensors"} : h[field] = x[field]
    BY <2>4
  <2> QED BY <1>2, <2>1, <2>2, <2>5, <2>6, <2>7, <2>8, <2>9, <2>10
<1> QED BY <1>1, <1>2

\* A tensor of fold[k] is that of the graph, or a folded one.
FoldedTensor(fold, g, k, t) ==
  /\ (\A i \in 1 .. k : IsFoldedAt(fold, g, i) => t # g.nodes[i].outputs[1])
       => fold[k].tensors[t] = g.tensors[t]
  /\ \A i \in 1 .. k : IsFoldedAt(fold, g, i) /\ t = g.nodes[i].outputs[1] =>
       /\ fold[k].tensors[t].storage = "CONSTANT"
       /\ fold[k].tensors[t].data = FoldedAt(fold, g, i)

IsFoldedGraph(fold, g, k) ==
  /\ DOMAIN fold[k] = DOMAIN g /\ DOMAIN fold[k].tensors = DOMAIN g.tensors
  /\ \A field \in DOMAIN g \ {"nodes", "tensors"} : fold[k][field] = g[field]
  /\ HasFields(fold[k])
  /\ \A t \in DOMAIN g.tensors : FoldedTensor(fold, g, k, t)
  /\ \A t \in DOMAIN g.tensors : fold[k].tensors[t].shape = g.tensors[t].shape

\* One step of it.
LEMMA FoldingSteps ==
  ASSUME NEW g, IsExecutable(g), HasFields(g), NEW fold, IsFolding(fold, g)
  PROVE  /\ fold[0] = Emptied(g)
         /\ \A k \in 1 .. Len(g.nodes) : fold[k] = FoldNode(fold[k - 1], g.nodes[k])
<1>1. Len(g.nodes) \in Nat
  BY ExecutableParts
<1>2. 0 \in 0 .. Len(g.nodes) /\ \A k \in 1 .. Len(g.nodes) : k \in 0 .. Len(g.nodes) /\ k # 0
  BY <1>1
<1> QED BY <1>2 DEF IsFolding

\* Every tensor on the way is one of the two.
LEMMA FoldingTensors ==
  ASSUME NEW g, IsExecutable(g), HasFields(g), NEW fold, IsFolding(fold, g)
  PROVE  \A k \in 0 .. Len(g.nodes) : IsFoldedGraph(fold, g, k)
<1>1. Len(g.nodes) \in Nat /\ {"nodes", "tensors"} \subseteq DOMAIN g
  BY ExecutableParts DEF IsExecutable
<1>2. fold[0] = Emptied(g) /\ \A k \in 1 .. Len(g.nodes) : fold[k] = FoldNode(fold[k - 1], g.nodes[k])
  BY FoldingSteps
<1> DEFINE Good == {k \in 0 .. Len(g.nodes) : IsFoldedGraph(fold, g, k)}
<1>3. 0 \in Good
  <2>1. \A t \in DOMAIN g.tensors : fold[0].tensors[t] = g.tensors[t]
    BY <1>1, <1>2 DEF Emptied
  <2>2. \A t \in DOMAIN g.tensors : FoldedTensor(fold, g, 0, t)
    BY <2>1 DEF FoldedTensor
  <2>3. HasFields(fold[0])
    BY <1>1, <1>2 DEF Emptied, HasFields
  <2> QED BY <1>1, <1>2, <2>1, <2>2, <2>3 DEF Emptied, IsFoldedGraph
<1>4. ASSUME NEW n \in Nat, n < Len(g.nodes), n \in Good PROVE n + 1 \in Good
  <2>1. PICK k : k = n + 1
    OBVIOUS
  <2>2. /\ k \in 1 .. Len(g.nodes) /\ k - 1 = n /\ k \in 0 .. Len(g.nodes) /\ k \in 1 .. k
        /\ \A i \in 1 .. k : i \in 1 .. Len(g.nodes) /\ (i \in 1 .. n \/ i = k)
        /\ \A i \in 1 .. n : i \in 1 .. k /\ i # k
    BY <1>1, <1>4, <2>1
  <2>3. IsFoldedGraph(fold, g, n)
    BY <1>4
  <2>4. fold[k] = FoldNode(fold[n], g.nodes[k])
    BY <1>2, <2>2
  <2>5. {"nodes", "tensors"} \subseteq DOMAIN fold[n] /\ HasFields(fold[n])
    BY <1>1, <2>3 DEF IsFoldedGraph
  <2>6. /\ DOMAIN fold[k] = DOMAIN fold[n] /\ DOMAIN fold[k].tensors = DOMAIN fold[n].tensors
        /\ \A field \in DOMAIN fold[n] \ {"nodes", "tensors"} : fold[k][field] = fold[n][field]
        /\ HasFields(fold[k])
        /\ \A t \in DOMAIN fold[n].tensors : fold[k].tensors[t].shape = fold[n].tensors[t].shape
    BY <2>4, <2>5, FoldNodeParts
  <2>7. FoldedValue(fold[n], g.nodes[k]) = FoldedAt(fold, g, k)
    BY <2>2 DEF FoldedAt
  <2>8. IsFoldedAt(fold, g, k) =>
              /\ \A t \in DOMAIN fold[n].tensors \ {g.nodes[k].outputs[1]} : fold[k].tensors[t] = fold[n].tensors[t]
              /\ g.nodes[k].outputs[1] \in DOMAIN fold[n].tensors =>
                   /\ fold[k].tensors[g.nodes[k].outputs[1]].storage = "CONSTANT"
                   /\ fold[k].tensors[g.nodes[k].outputs[1]].data = FoldedAt(fold, g, k)
    BY <2>4, <2>5, <2>7, FoldNodeParts DEF IsFoldedAt
  <2>9. ~IsFoldedAt(fold, g, k) => fold[k].tensors = fold[n].tensors
    BY <2>4, <2>5, <2>7, FoldNodeParts DEF IsFoldedAt
  <2>10. ASSUME NEW t \in DOMAIN g.tensors PROVE FoldedTensor(fold, g, k, t)
    <3>1. FoldedTensor(fold, g, n, t) /\ t \in DOMAIN fold[n].tensors
      BY <2>3 DEF IsFoldedGraph
    <3>2. CASE IsFoldedAt(fold, g, k) /\ t = g.nodes[k].outputs[1]
      <4>1. /\ fold[k].tensors[t].storage = "CONSTANT"
            /\ fold[k].tensors[t].data = FoldedAt(fold, g, k)
        BY <2>8, <3>1, <3>2
      <4>2. ASSUME NEW i \in 1 .. k, t = g.nodes[i].outputs[1] PROVE i = k
        BY <2>2, <3>2, <4>2, ResultsDiffer
      <4> QED BY <2>2, <3>2, <4>1, <4>2 DEF FoldedTensor
    <3>3. CASE ~(IsFoldedAt(fold, g, k) /\ t = g.nodes[k].outputs[1])
      <4>1. fold[k].tensors[t] = fold[n].tensors[t]
        BY <2>8, <2>9, <3>1, <3>3
      <4> QED BY <2>2, <3>1, <3>3, <4>1 DEF FoldedTensor
    <3> QED BY <3>2, <3>3
  <2>11. IsFoldedGraph(fold, g, k)
    BY <2>3, <2>6, <2>10 DEF IsFoldedGraph
  <2> QED BY <2>1, <2>2, <2>11
<1>5. \A k \in 0 .. Len(g.nodes) : k \in Good
  <2>1. \A n \in Nat : n < Len(g.nodes) /\ n \in Good => n + 1 \in Good
    BY <1>4
  <2> HIDE DEF Good
  <2> QED BY <1>1, <1>3, <2>1, UpTo
<1> QED BY <1>5

\* The operations that are left are those it does not fold, in their order.
LeftNodes(fold, g) == {g.nodes[i] : i \in {i \in 1 .. Len(g.nodes) : ~IsFoldedAt(fold, g, i)}}

\* Equal operations are one.
LEMMA IdsDiffer ==
  ASSUME NEW g, IsExecutable(g), NEW i \in 1 .. Len(g.nodes), NEW j \in 1 .. Len(g.nodes),
         g.nodes[i] = g.nodes[j]
  PROVE  i = j
<1>1. g.nodes[i].outputs[1] = g.nodes[j].outputs[1]
  OBVIOUS
<1> QED BY <1>1, ResultsDiffer

\* What folding leaves is filtered.
LEMMA FoldingLeaves ==
  ASSUME NEW g, IsExecutable(g), HasFields(g), NEW fold, IsFolding(fold, g), NEW upto,
         upto = [k \in 0 .. Len(g.nodes) |-> fold[k].nodes]
  PROVE  IsFilter(upto, g.nodes, LeftNodes(fold, g))
<1>1. Len(g.nodes) \in Nat /\ {"nodes", "tensors"} \subseteq DOMAIN g
  BY ExecutableParts DEF IsExecutable
<1>2. fold[0] = Emptied(g) /\ \A k \in 1 .. Len(g.nodes) : fold[k] = FoldNode(fold[k - 1], g.nodes[k])
  BY FoldingSteps
<1>3. \A k \in 0 .. Len(g.nodes) :
        upto[k] = IF k = 0 THEN <<>>
                  ELSE IF g.nodes[k] \in LeftNodes(fold, g) THEN Append(upto[k - 1], g.nodes[k])
                  ELSE upto[k - 1]
  <2> TAKE k \in 0 .. Len(g.nodes)
  <2>1. CASE k = 0
    BY <1>1, <1>2, <2>1 DEF Emptied
  <2>2. CASE k # 0
    <3>1. k \in 1 .. Len(g.nodes)
      BY <1>1, <2>2
    <3>2. PICK n : n = k - 1
      OBVIOUS
    <3>3. n \in 0 .. Len(g.nodes)
      BY <1>1, <3>1, <3>2
    <3>4. IsFoldedGraph(fold, g, n)
      BY <3>3, FoldingTensors
    <3>5. {"nodes", "tensors"} \subseteq DOMAIN fold[n] /\ HasFields(fold[n])
      BY <1>1, <3>4 DEF IsFoldedGraph
    <3>6. fold[k] = FoldNode(fold[n], g.nodes[k])
      BY <1>2, <3>1, <3>2
    <3>7. /\ IsFoldedAt(fold, g, k) => fold[k].nodes = fold[n].nodes
          /\ ~IsFoldedAt(fold, g, k) => fold[k].nodes = Append(fold[n].nodes, g.nodes[k])
      <4>1. FoldedValue(fold[n], g.nodes[k]) = FoldedAt(fold, g, k)
        BY <3>2 DEF FoldedAt
      <4>2. /\ FoldedValue(fold[n], g.nodes[k]) = NoData
                 => fold[k].nodes = Append(fold[n].nodes, g.nodes[k])
            /\ FoldedValue(fold[n], g.nodes[k]) # NoData => fold[k].nodes = fold[n].nodes
        BY <3>5, <3>6, FoldNodeParts
      <4> QED BY <4>1, <4>2 DEF IsFoldedAt
    <3>8. g.nodes[k] \in LeftNodes(fold, g) <=> ~IsFoldedAt(fold, g, k)
      BY <3>1, IdsDiffer DEF LeftNodes
    <3> QED BY <2>2, <3>2, <3>3, <3>7, <3>8
  <2> QED BY <2>1, <2>2
<1>4. upto = [k \in 0 .. Len(g.nodes) |-> upto[k]]
  OBVIOUS
<1> QED BY <1>3, <1>4 DEF IsFilter

--------------------------------------------------------------------------------
(* A graph whose operations are listed: the operation of every place of X, in   *)
(* the order of the places.                                                     *)

IsListing(list, ops, X, place) ==
  /\ Len(list) \in Nat /\ IsSequence(list)
  /\ \A i \in X : place[i] \in 1 .. Len(list) /\ list[place[i]] = ops[i]
  /\ \A p \in 1 .. Len(list) : \E i \in X : place[i] = p
  /\ \A i, j \in X : i < j => place[i] < place[j]

\* What is filtered out of a sequence is listed.
LEMMA FilterListing ==
  ASSUME NEW S, NEW seq \in Seq(S), NEW Y, NEW upto, IsFilter(upto, seq, Y),
         NEW X, X = {i \in 1 .. Len(seq) : seq[i] \in Y}
  PROVE  IsListing(upto[Len(seq)], seq, X, [i \in X |-> Len(upto[i])])
<1> DEFINE place == [i \in X |-> Len(upto[i])]
<1>1. Len(seq) \in Nat /\ Len(seq) \in 0 .. Len(seq)
  OBVIOUS
<1>2. PICK list : list = upto[Len(seq)]
  OBVIOUS
<1>3. list \in Seq(S) /\ Len(list) \in Nat
  BY <1>1, <1>2, FilterIn
<1>4. IsSequence(list)
  BY <1>3, SequenceOfRange
<1>5. ASSUME NEW i \in X
      PROVE  /\ place[i] \in 1 .. Len(list) /\ list[place[i]] = seq[i]
             /\ Len(upto[i - 1]) + 1 = place[i] /\ Len(upto[i - 1]) \in Nat
  <2>1. i \in 1 .. Len(seq) /\ seq[i] \in Y
    OBVIOUS
  <2>2. /\ Len(upto[i]) = Len(upto[i - 1]) + 1 /\ Len(upto[i - 1]) \in Nat
        /\ Len(upto[i]) \in 1 .. Len(upto[Len(seq)])
        /\ upto[Len(seq)][Len(upto[i])] = seq[i]
    BY <2>1, FilterPlaces
  <2> QED BY <1>2, <2>2
<1>6. ASSUME NEW p \in 1 .. Len(list) PROVE \E i \in X : place[i] = p
  <2>1. \A q \in 1 .. Len(upto[Len(seq)]) : \E k \in 1 .. Len(seq) : seq[k] \in Y /\ Len(upto[k]) = q
    BY FilterOrigins
  <2>2. PICK k \in 1 .. Len(seq) : seq[k] \in Y /\ Len(upto[k]) = p
    BY <1>2, <2>1
  <2> QED BY <2>2
<1>7. ASSUME NEW i \in X, NEW j \in X, i < j PROVE place[i] < place[j]
  <2>1. PICK c : c = j - 1
    OBVIOUS
  <2>2. i \in 0 .. Len(seq) /\ c \in i .. Len(seq)
    BY <1>1, <1>7, <2>1
  <2>3. Len(upto[i]) <= Len(upto[c])
    BY <2>2, FilterGrows
  <2>4. place[j] = Len(upto[c]) + 1 /\ Len(upto[c]) \in Nat
    <3>1. Len(upto[j - 1]) + 1 = place[j] /\ Len(upto[j - 1]) \in Nat
      BY <1>5
    <3> HIDE DEF place
    <3> QED BY <2>1, <3>1
  <2> QED BY <2>3, <2>4
<1> QED
  <2> HIDE DEF place
  <2>1. IsListing(list, seq, X, place)
    BY <1>3, <1>4, <1>5, <1>6, <1>7 DEF IsListing
  <2> QED BY <1>2, <2>1 DEF place

\* The listed operations can run one after the other.
CanRun(h, ops, X) ==
  \A i \in X :
    /\ 1 \in DOMAIN ops[i].outputs
    /\ \A t \in Range(ops[i].inputs) :
         t \in GivenTensors(h) \/ \E j \in X : j < i /\ t \in Range(ops[j].outputs)
    /\ Range(ops[i].outputs) \cap GivenTensors(h) = {}
    /\ \A j \in X : j < i => /\ ops[j].id # ops[i].id
                             /\ Range(ops[j].outputs) \cap Range(ops[i].outputs) = {}

IsGraph(h) ==
  /\ {"tensors", "nodes", "inputs", "outputs", "parameters", "states"} \subseteq DOMAIN h
  /\ IsSequence(h.inputs) /\ IsSequence(h.states)

\* What is known before an operation is given, or an earlier one gives it.
LEMMA KnownBeforeIs ==
  ASSUME NEW g, NEW i
  PROVE  KnownBefore(g, i) = GivenTensors(g) \cup UNION {Range(g.nodes[j].outputs) : j \in 1 .. i - 1}
BY DEF KnownBefore, GivenTensors

\* What is listed at q is of a place before i.
IsOfEarlier(list, ops, X, place, i, q) == \E j \in X : j < i /\ place[j] = q /\ list[q] = ops[j]

\* Places of a list are in the order of what they are the places of.
LEMMA ListedBefore ==
  ASSUME NEW list, NEW ops, NEW X \in SUBSET Nat, NEW place, IsListing(list, ops, X, place),
         NEW i \in X, NEW q \in 1 .. place[i] - 1
  PROVE  IsOfEarlier(list, ops, X, place, i, q)
<1>1. place[i] \in 1 .. Len(list) /\ Len(list) \in Nat
  BY DEF IsListing
<1>2. q \in 1 .. Len(list) /\ q < place[i]
  BY <1>1
<1>3. PICK j \in X : place[j] = q
  BY <1>2 DEF IsListing
<1>4. list[place[j]] = ops[j]
  BY DEF IsListing
<1>5. ~(i < j) /\ i # j
  <2>1. i < j => place[i] < place[j]
    BY DEF IsListing
  <2> QED BY <1>1, <1>2, <1>3, <2>1
<1>6. j < i
  <2>1. i \in Nat /\ j \in Nat
    OBVIOUS
  <2> QED BY <1>5, <2>1
<1>7. list[q] = ops[j]
  BY <1>3, <1>4
<1> QED BY <1>3, <1>6, <1>7 DEF IsOfEarlier

\* A graph of listed operations that can run one after the other can run.
LEMMA ListedExecutable ==
  ASSUME NEW h, IsGraph(h), NEW ops, NEW X \in SUBSET Nat, NEW place,
         IsListing(h.nodes, ops, X, place), CanRun(h, ops, X)
  PROVE  IsExecutable(h)
<1>1. Len(h.nodes) \in Nat /\ IsSequence(h.nodes)
  BY DEF IsListing
<1>2. DOMAIN h.nodes = 1 .. Len(h.nodes)
  BY <1>1 DEF IsSequence
<1>3. ASSUME NEW p \in 1 .. Len(h.nodes)
      PROVE  /\ 1 \in DOMAIN h.nodes[p].outputs
             /\ Range(h.nodes[p].inputs) \subseteq KnownBefore(h, p)
             /\ Range(h.nodes[p].outputs) \cap KnownBefore(h, p) = {}
             /\ \A q \in 1 .. p - 1 : h.nodes[q].id /= h.nodes[p].id
  <2>1. PICK i \in X : place[i] = p
    BY DEF IsListing
  <2>2. h.nodes[p] = ops[i]
    BY <2>1 DEF IsListing
  <2>3. /\ 1 \in DOMAIN ops[i].outputs
        /\ \A t \in Range(ops[i].inputs) :
             t \in GivenTensors(h) \/ \E j \in X : j < i /\ t \in Range(ops[j].outputs)
        /\ Range(ops[i].outputs) \cap GivenTensors(h) = {}
        /\ \A j \in X : j < i => /\ ops[j].id # ops[i].id
                                 /\ Range(ops[j].outputs) \cap Range(ops[i].outputs) = {}
    BY DEF CanRun
  <2>4. ASSUME NEW j \in X, j < i PROVE place[j] \in 1 .. p - 1 /\ h.nodes[place[j]] = ops[j]
    <3>1. place[j] < place[i] /\ place[j] \in 1 .. Len(h.nodes) /\ h.nodes[place[j]] = ops[j]
      BY <2>4 DEF IsListing
    <3> QED BY <1>1, <2>1, <3>1
  <2>5. ASSUME NEW q \in 1 .. p - 1 PROVE \E j \in X : j < i /\ h.nodes[q] = ops[j]
    <3>1. q \in 1 .. place[i] - 1
      BY <2>1
    <3>2. PICK list : list = h.nodes
      OBVIOUS
    <3>3. IsListing(list, ops, X, place)
      BY <3>2
    <3>4. IsOfEarlier(list, ops, X, place, i, q)
      BY <3>1, <3>3, ListedBefore
    <3> QED BY <3>2, <3>4 DEF IsOfEarlier
  <2>6. Range(ops[i].inputs) \subseteq KnownBefore(h, p)
    <3> SUFFICES ASSUME NEW t \in Range(ops[i].inputs) PROVE t \in KnownBefore(h, p)
      OBVIOUS
    <3>1. CASE t \in GivenTensors(h)
      BY <3>1, KnownBeforeIs
    <3>2. CASE \E j \in X : j < i /\ t \in Range(ops[j].outputs)
      <4>1. PICK j \in X : j < i /\ t \in Range(ops[j].outputs)
        BY <3>2
      <4>2. place[j] \in 1 .. p - 1 /\ t \in Range(h.nodes[place[j]].outputs)
        BY <2>4, <4>1
      <4> QED BY <4>2, KnownBeforeIs
    <3> QED BY <2>3, <3>1, <3>2
  <2>7. Range(ops[i].outputs) \cap KnownBefore(h, p) = {}
    <3> SUFFICES ASSUME NEW t \in Range(ops[i].outputs), t \in KnownBefore(h, p) PROVE FALSE
      OBVIOUS
    <3>1. t \notin GivenTensors(h)
      BY <2>3
    <3>2. PICK q \in 1 .. p - 1 : t \in Range(h.nodes[q].outputs)
      BY <3>1, KnownBeforeIs
    <3>3. PICK j \in X : j < i /\ h.nodes[q] = ops[j]
      BY <2>5
    <3> QED BY <2>3, <3>2, <3>3
  <2>8. \A q \in 1 .. p - 1 : h.nodes[q].id /= h.nodes[p].id
    BY <2>2, <2>3, <2>5
  <2> QED BY <2>2, <2>3, <2>6, <2>7, <2>8
<1> QED BY <1>1, <1>2, <1>3 DEF IsExecutable, IsGraph

\* The values solve the listed operations.
ListSolved(V, h, env, ops, X) ==
  /\ \A i \in X : Val(V, ops[i].outputs[1]) = Outcome(V, h, env, ops[i])
  /\ \A t : (\A i \in X : t # ops[i].outputs[1]) => Val(V, t) = Given(h, env, t)

\* Then they solve the graph.
LEMMA ListedSolves ==
  ASSUME NEW h, NEW ops, NEW X, NEW place, IsListing(h.nodes, ops, X, place),
         NEW V, NEW env, ListSolved(V, h, env, ops, X)
  PROVE  Solves(V, h, env)
<1>1. ASSUME NEW p \in 1 .. Len(h.nodes)
      PROVE  Val(V, h.nodes[p].outputs[1]) = Outcome(V, h, env, h.nodes[p])
  <2>1. PICK i \in X : place[i] = p
    BY DEF IsListing
  <2>2. h.nodes[p] = ops[i]
    BY <2>1 DEF IsListing
  <2> QED BY <2>2 DEF ListSolved
<1>2. ASSUME NEW t, ~IsResult(h, t) PROVE Val(V, t) = Given(h, env, t)
  <2>1. ASSUME NEW i \in X PROVE t # ops[i].outputs[1]
    <3>1. place[i] \in 1 .. Len(h.nodes) /\ h.nodes[place[i]] = ops[i]
      BY DEF IsListing
    <3> QED BY <1>2, <3>1 DEF IsResult
  <2> QED BY <2>1 DEF ListSolved
<1> QED BY <1>1, <1>2 DEF Solves

\* Tensors and operations are the records they should be.
IsTyped(g) == HasFields(g) /\ \A i \in DOMAIN g.nodes : IsOp(g.nodes[i])

\* A graph to fold, and the folding of it.
IsFoldingOf(fold, g) ==
  IsExecutable(g) /\ IsTyped(g) /\ NamesExist(g) /\ IsFolding(fold, g)

Left(fold, g) == {i \in 1 .. Len(g.nodes) : ~IsFoldedAt(fold, g, i)}

\* The results are tensors of the graph.
LEMMA ResultNamed ==
  ASSUME NEW g, IsExecutable(g), NamesExist(g), NEW i \in 1 .. Len(g.nodes)
  PROVE  /\ Range(g.nodes[i].outputs) \subseteq DOMAIN g.tensors
         /\ g.nodes[i].outputs[1] \in DOMAIN g.tensors
<1>1. g.nodes[i] \in Nodes(g)
  <2>1. i \in DOMAIN g.nodes
    BY ExecutableParts
  <2> QED BY <2>1 DEF Nodes, Range
<1>2. Range(g.nodes[i].outputs) \subseteq DOMAIN g.tensors
  BY <1>1 DEF NamesExist
<1> QED BY <1>2, FirstResult

\* What is folded has one result.
LEMMA FoldedNode ==
  ASSUME NEW g, NEW fold, IsFoldingOf(fold, g), NEW i \in 1 .. Len(g.nodes), IsFoldedAt(fold, g, i)
  PROVE  Range(g.nodes[i].outputs) = {g.nodes[i].outputs[1]}
<1>1. Len(g.nodes[i].outputs) = 1
  BY DEF IsFoldedAt, FoldedAt, FoldedValue
<1>2. i \in DOMAIN g.nodes
  BY ExecutableParts DEF IsFoldingOf
<1>3. IsSequence(g.nodes[i].outputs)
  BY <1>2 DEF IsFoldingOf, IsTyped, IsOp
<1>4. DOMAIN g.nodes[i].outputs = {1}
  BY <1>1, <1>3 DEF IsSequence
<1> QED BY <1>4 DEF Range

\* What folding leaves is listed.
LEMMA FoldedListing ==
  ASSUME NEW g, NEW fold, IsFoldingOf(fold, g)
  PROVE  \E place : IsListing(fold[Len(g.nodes)].nodes, g.nodes, Left(fold, g), place)
<1>1. IsExecutable(g) /\ HasFields(g) /\ IsFolding(fold, g)
  BY DEF IsFoldingOf, IsTyped
<1>2. g.nodes \in Seq(Range(g.nodes)) /\ Len(g.nodes) \in Nat
  BY <1>1, ExecutableParts
<1>3. PICK upto : upto = [k \in 0 .. Len(g.nodes) |-> fold[k].nodes]
  OBVIOUS
<1>4. IsFilter(upto, g.nodes, LeftNodes(fold, g))
  BY <1>1, <1>3, FoldingLeaves
<1>5. Left(fold, g) = {i \in 1 .. Len(g.nodes) : g.nodes[i] \in LeftNodes(fold, g)}
  BY <1>1, IdsDiffer DEF Left, LeftNodes
<1>6. IsListing(upto[Len(g.nodes)], g.nodes, Left(fold, g), [i \in Left(fold, g) |-> Len(upto[i])])
  BY <1>2, <1>4, <1>5, FilterListing
<1>7. upto[Len(g.nodes)] = fold[Len(g.nodes)].nodes
  BY <1>2, <1>3
<1> QED BY <1>6, <1>7

\* Every tensor of the folded graph is one of the graph, or folded.
LEMMA FoldedAll ==
  ASSUME NEW g, NEW fold, IsFoldingOf(fold, g)
  PROVE  IsFoldedGraph(fold, g, Len(g.nodes))
<1>1. IsExecutable(g) /\ HasFields(g) /\ IsFolding(fold, g)
  BY DEF IsFoldingOf, IsTyped
<1>2. Len(g.nodes) \in 0 .. Len(g.nodes)
  BY <1>1, ExecutableParts
<1> QED BY <1>1, <1>2, FoldingTensors

\* What has been folded is given from then on.
LEMMA FoldedGiven ==
  ASSUME NEW g, NEW fold, IsFoldingOf(fold, g), NEW h, h = fold[Len(g.nodes)]
  PROVE  /\ GivenTensors(g) \subseteq GivenTensors(h)
         /\ \A i \in 1 .. Len(g.nodes) : IsFoldedAt(fold, g, i)
              => g.nodes[i].outputs[1] \in GivenTensors(h)
         /\ \A t \in GivenTensors(h) \ GivenTensors(g) : \E i \in 1 .. Len(g.nodes) :
              IsFoldedAt(fold, g, i) /\ t = g.nodes[i].outputs[1]
<1>1. IsExecutable(g) /\ NamesExist(g)
  BY DEF IsFoldingOf
<1>2. Len(g.nodes) \in Nat /\ "inputs" \in DOMAIN g
  BY <1>1, ExecutableParts DEF IsExecutable
<1>3. h.inputs = g.inputs /\ DOMAIN h.tensors = DOMAIN g.tensors
  BY <1>2, FoldedAll DEF IsFoldedGraph
<1>4. ASSUME NEW t \in DOMAIN g.tensors
      PROVE  /\ (\A i \in 1 .. Len(g.nodes) : IsFoldedAt(fold, g, i) => t # g.nodes[i].outputs[1])
                  => h.tensors[t] = g.tensors[t]
             /\ \A i \in 1 .. Len(g.nodes) : IsFoldedAt(fold, g, i) /\ t = g.nodes[i].outputs[1]
                  => h.tensors[t].data # NoData
  <2>1. FoldedTensor(fold, g, Len(g.nodes), t)
    BY FoldedAll DEF IsFoldedGraph
  <2> QED BY <2>1 DEF FoldedTensor, IsFoldedAt
<1>5. \A i \in 1 .. Len(g.nodes) : g.nodes[i].outputs[1] \in DOMAIN g.tensors
  BY <1>1, ResultNamed
<1>6. \A i \in 1 .. Len(g.nodes) : IsFoldedAt(fold, g, i) => g.nodes[i].outputs[1] \in GivenTensors(h)
  BY <1>3, <1>4, <1>5 DEF GivenTensors, HasData
<1>7. GivenTensors(g) \subseteq GivenTensors(h)
  <2> SUFFICES ASSUME NEW t \in GivenTensors(g) PROVE t \in GivenTensors(h)
    OBVIOUS
  <2>1. t \in DOMAIN g.tensors
    BY DEF GivenTensors
  <2>2. \/ h.tensors[t] = g.tensors[t]
        \/ \E i \in 1 .. Len(g.nodes) : IsFoldedAt(fold, g, i) /\ t = g.nodes[i].outputs[1]
    BY <1>4, <2>1
  <2> QED BY <1>3, <1>6, <2>2 DEF GivenTensors, HasData
<1>8. ASSUME NEW t \in GivenTensors(h) \ GivenTensors(g)
      PROVE  \E i \in 1 .. Len(g.nodes) : IsFoldedAt(fold, g, i) /\ t = g.nodes[i].outputs[1]
  BY <1>3, <1>4 DEF GivenTensors, HasData
<1> QED BY <1>6, <1>7, <1>8

\* What folding leaves can run.
LEMMA FoldedRuns ==
  ASSUME NEW g, NEW fold, IsFoldingOf(fold, g), NEW h, h = fold[Len(g.nodes)]
  PROVE  CanRun(h, g.nodes, Left(fold, g))
<1>1. IsExecutable(g) /\ NamesExist(g)
  BY DEF IsFoldingOf
<1>2. Len(g.nodes) \in Nat /\ DOMAIN g.nodes = 1 .. Len(g.nodes)
  BY <1>1, ExecutableParts
<1>3. ASSUME NEW i \in Left(fold, g)
      PROVE  /\ 1 \in DOMAIN g.nodes[i].outputs
             /\ \A t \in Range(g.nodes[i].inputs) :
                  t \in GivenTensors(h) \/ \E j \in Left(fold, g) : j < i /\ t \in Range(g.nodes[j].outputs)
             /\ Range(g.nodes[i].outputs) \cap GivenTensors(h) = {}
             /\ \A j \in Left(fold, g) : j < i =>
                  /\ g.nodes[j].id # g.nodes[i].id
                  /\ Range(g.nodes[j].outputs) \cap Range(g.nodes[i].outputs) = {}
  <2>1. i \in 1 .. Len(g.nodes) /\ ~IsFoldedAt(fold, g, i)
    BY DEF Left
  <2>2. /\ 1 \in DOMAIN g.nodes[i].outputs
        /\ Range(g.nodes[i].inputs) \subseteq KnownBefore(g, i)
        /\ Range(g.nodes[i].outputs) \cap KnownBefore(g, i) = {}
    BY <1>1, <2>1, ExecutableParts
  <2>3. ASSUME NEW t \in Range(g.nodes[i].inputs)
        PROVE  t \in GivenTensors(h) \/ \E j \in Left(fold, g) : j < i /\ t \in Range(g.nodes[j].outputs)
    <3>1. CASE t \in GivenTensors(g)
      BY <3>1, FoldedGiven
    <3>2. CASE t \notin GivenTensors(g)
      <4>1. PICK j \in 1 .. i - 1 : t \in Range(g.nodes[j].outputs)
        BY <2>2, <3>2, KnownBeforeIs
      <4>2. j \in 1 .. Len(g.nodes) /\ j < i
        BY <1>2, <2>1, <4>1
      <4>3. CASE IsFoldedAt(fold, g, j)
        <5>1. Range(g.nodes[j].outputs) = {g.nodes[j].outputs[1]}
          BY <4>2, <4>3, FoldedNode
        <5>2. t = g.nodes[j].outputs[1]
          BY <4>1, <5>1
        <5> QED BY <4>2, <4>3, <5>2, FoldedGiven
      <4>4. CASE ~IsFoldedAt(fold, g, j)
        BY <4>1, <4>2, <4>4 DEF Left
      <4> QED BY <4>3, <4>4
    <3> QED BY <3>1, <3>2
  <2>4. ASSUME NEW t \in Range(g.nodes[i].outputs), t \in GivenTensors(h) PROVE FALSE
    <3>1. t \notin GivenTensors(g)
      BY <2>2, KnownBeforeIs
    <3>2. PICK j \in 1 .. Len(g.nodes) : IsFoldedAt(fold, g, j) /\ t = g.nodes[j].outputs[1]
      BY <2>4, <3>1, FoldedGiven
    <3>3. t \in Range(g.nodes[j].outputs)
      BY <1>1, <3>2, FirstResult
    <3>4. i = j
      BY <1>1, <2>1, <3>3, ResultOfOne
    <3> QED BY <2>1, <3>2, <3>4
  <2>5. ASSUME NEW j \in Left(fold, g), j < i
        PROVE  /\ g.nodes[j].id # g.nodes[i].id
               /\ Range(g.nodes[j].outputs) \cap Range(g.nodes[i].outputs) = {}
    <3>1. j \in 1 .. Len(g.nodes) /\ j \in 1 .. i - 1 /\ i \in DOMAIN g.nodes
      BY <1>2, <2>1, <2>5 DEF Left
    <3>2. g.nodes[j].id # g.nodes[i].id
      BY <1>1, <3>1 DEF IsExecutable
    <3>3. ASSUME NEW t \in Range(g.nodes[j].outputs), t \in Range(g.nodes[i].outputs) PROVE FALSE
      <4>1. i = j
        BY <1>1, <2>1, <3>1, <3>3, ResultOfOne
      <4> QED BY <2>5, <4>1, <1>2, <2>1
    <3> QED BY <3>2, <3>3
  <2> QED BY <2>2, <2>3, <2>4, <2>5
<1> QED BY <1>3 DEF CanRun

FoldsByAxis(fold, g) ==
  \A i \in 1 .. Len(g.nodes) :
    g.nodes[i].opcode = "CONCAT" /\ IsFoldedAt(fold, g, i) =>
      Attribute(g.nodes[i], "axis", 0) = Attribute(g.nodes[i], "dim", 0)

\* NumPy computes what the operation computes.
LEMMA EvaluatesAsComputed ==
  ASSUME NEW node, NEW x,
         node.opcode = "CONCAT" => Attribute(node, "axis", 0) = Attribute(node, "dim", 0),
         EvaluateNode(node.opcode, x, node.attributes) # NoData
  PROVE  Compute(node, x) = EvaluateNode(node.opcode, x, node.attributes)
<1> DEFINE attr(key, default) == Attribute(node, key, default)
<1>1. CASE node.opcode \in {"ADD", "SUB", "MUL", "DIV"}
  <2>1. PICK y : y = Map2(node.opcode, x[1], x[2])
    OBVIOUS
  <2>2. Compute(node, x) = y
    BY <1>1, <2>1 DEF Compute
  <2>3. EvaluateNode(node.opcode, x, node.attributes) = y
    BY <1>1, <2>1 DEF EvaluateNode
  <2> QED BY <2>2, <2>3
<1>2. CASE node.opcode \in {"NEG", "SQRT", "RSQRT"}
  <2>1. PICK y : y = Map1(node.opcode, x[1])
    OBVIOUS
  <2>2. Compute(node, x) = y
    BY <1>2, <2>1 DEF Compute
  <2>3. EvaluateNode(node.opcode, x, node.attributes) = y
    BY <1>2, <2>1 DEF EvaluateNode
  <2> QED BY <2>2, <2>3
<1>3. CASE node.opcode = "POW"
  <2>1. PICK y : y = RaisedTo(x, node.attributes)
    OBVIOUS
  <2>2. Compute(node, x) = y
    BY <1>3, <2>1 DEF Compute
  <2>3. EvaluateNode(node.opcode, x, node.attributes) = y
    BY <1>3, <2>1 DEF EvaluateNode
  <2> QED BY <2>2, <2>3
<1>4. CASE node.opcode = "TRANSPOSE"
  <2>1. PICK y : y = TransposeOf(x[1], Attribute(node, "dim0", 0), Attribute(node, "dim1", 1))
    OBVIOUS
  <2>2. Compute(node, x) = y
    BY <1>4, <2>1 DEF Compute
  <2>3. EvaluateNode(node.opcode, x, node.attributes) = y
    BY <1>4, <2>1 DEF EvaluateNode, Attribute
  <2> QED BY <2>2, <2>3
<1>5. CASE node.opcode = "CONCAT"
  <2>1. PICK y : y = JoinedAlong(x, Attribute(node, "dim", 0))
    OBVIOUS
  <2>2. Compute(node, x) = y
    BY <1>5, <2>1 DEF Compute
  <2>3. Attribute(node, "axis", 0) = Attribute(node, "dim", 0)
    BY <1>5
  <2>4. EvaluateNode(node.opcode, x, node.attributes) = JoinedAlong(x, Attribute(node, "axis", 0))
    BY <1>5 DEF EvaluateNode, Attribute
  <2> QED BY <2>1, <2>2, <2>3, <2>4
<1>6. CASE node.opcode = "RESHAPE"
  <2>1. PICK s : s = Attribute(node, "shape", <<>>)
    OBVIOUS
  <2>2. CASE s = <<>>
    <3>1. EvaluateNode(node.opcode, x, node.attributes) = NoData
      BY <1>6, <2>1, <2>2 DEF EvaluateNode, Attribute
    <3> QED BY <3>1
  <2>3. CASE s # <<>>
    <3>1. "shape" \in DOMAIN node.attributes /\ s = node.attributes["shape"]
      BY <2>1, <2>3 DEF Attribute
    <3>2. EvaluateNode(node.opcode, x, node.attributes) = ReshapeOf(x[1], s)
      BY <1>6, <2>3, <3>1 DEF EvaluateNode
    <3>3. Attribute(node, "shape", x[1].shape) = s
      BY <3>1 DEF Attribute
    <3>4. Compute(node, x) = ReshapeOf(x[1], Attribute(node, "shape", x[1].shape))
      BY <1>6 DEF Compute
    <3> QED BY <3>2, <3>3, <3>4
  <2> QED BY <2>2, <2>3
<1>7. CASE node.opcode = "PERMUTE"
  <2>1. PICK s : s = Attribute(node, "dims", <<>>)
    OBVIOUS
  <2>2. CASE s = <<>>
    <3>1. EvaluateNode(node.opcode, x, node.attributes) = NoData
      BY <1>7, <2>1, <2>2 DEF EvaluateNode, Attribute
    <3> QED BY <3>1
  <2>3. CASE s # <<>>
    <3>1. "dims" \in DOMAIN node.attributes /\ s = node.attributes["dims"]
      BY <2>1, <2>3 DEF Attribute
    <3>2. EvaluateNode(node.opcode, x, node.attributes) = PermuteOf(x[1], s)
      BY <1>7, <2>3, <3>1 DEF EvaluateNode
    <3>3. PermutedDims(node) = s
      BY <2>1, <2>3 DEF PermutedDims
    <3>4. Compute(node, x) = PermuteOf(x[1], PermutedDims(node))
      BY <1>7 DEF Compute
    <3> QED BY <3>2, <3>3, <3>4
  <2> QED BY <2>2, <2>3
<1>8. CASE node.opcode \notin {"ADD", "SUB", "MUL", "DIV", "NEG", "SQRT", "RSQRT", "POW",
                               "TRANSPOSE", "CONCAT", "RESHAPE", "PERMUTE"}
  <2>1. EvaluateNode(node.opcode, x, node.attributes) = NoData
    BY <1>8 DEF EvaluateNode
  <2> QED BY <2>1
<1> QED BY <1>1, <1>2, <1>3, <1>4, <1>5, <1>6, <1>7, <1>8

\* What t holds once folding has seen n operations: what a folded one put there,
\* or what the graph gives it.
ConstantFrom(fold, g, env, n, t) ==
  \/ \E j \in 1 .. n : /\ IsFoldedAt(fold, g, j) /\ t = g.nodes[j].outputs[1]
                        /\ fold[n].tensors[t].data = FoldedAt(fold, g, j)
  \/ ~IsResult(g, t) /\ Given(g, env, t) = fold[n].tensors[t].data

\* A tensor that is a known constant when operation i is seen.
LEMMA KnownConstant ==
  ASSUME NEW g, NEW fold, IsFoldingOf(fold, g), NEW i \in 1 .. Len(g.nodes),
         NEW t, IsKnownConstant(fold[i - 1], t), NEW env, GivesInputs(env, g)
  PROVE  ConstantFrom(fold, g, env, i - 1, t)
<1>1. IsExecutable(g) /\ HasFields(g) /\ IsFolding(fold, g)
  BY DEF IsFoldingOf, IsTyped
<1>2. PICK n : n = i - 1
  OBVIOUS
<1>3. n \in 0 .. Len(g.nodes) /\ Len(g.nodes) \in Nat /\ i - 1 = n
  BY <1>1, <1>2, ExecutableParts
<1>4. IsFoldedGraph(fold, g, n)
  BY <1>1, <1>3, FoldingTensors
<1>5. t \in DOMAIN fold[n].tensors /\ fold[n].tensors[t].storage = "CONSTANT" /\ fold[n].tensors[t].data # NoData
  BY <1>2 DEF IsKnownConstant, HasTensor, Storage, HasData
<1>6. t \in DOMAIN g.tensors
  BY <1>4, <1>5 DEF IsFoldedGraph
<1>7. FoldedTensor(fold, g, n, t)
  BY <1>4, <1>6 DEF IsFoldedGraph
<1>8. CASE \E j \in 1 .. n : IsFoldedAt(fold, g, j) /\ t = g.nodes[j].outputs[1]
  BY <1>3, <1>6, <1>7, <1>8 DEF FoldedTensor, ConstantFrom
<1>9. CASE \A j \in 1 .. n : IsFoldedAt(fold, g, j) => t # g.nodes[j].outputs[1]
  <2>1. fold[n].tensors[t] = g.tensors[t]
    BY <1>7, <1>9 DEF FoldedTensor
  <2>2. t \in GivenTensors(g)
    BY <1>5, <1>6, <2>1 DEF GivenTensors, HasData
  <2>3. ~IsResult(g, t)
    <3> SUFFICES ASSUME NEW j \in 1 .. Len(g.nodes), t = g.nodes[j].outputs[1] PROVE FALSE
      BY DEF IsResult
    <3>1. t \in Range(g.nodes[j].outputs)
      BY <1>1, FirstResult
    <3>2. t \in KnownBefore(g, j)
      BY <2>2, KnownBeforeIs
    <3> QED BY <1>1, <3>1, <3>2, ExecutableParts
  <2>4. t \notin DOMAIN env
    BY <1>5, <1>6, <2>1 DEF GivesInputs, Storage
  <2>5. Given(g, env, t) = g.tensors[t].data
    BY <1>5, <1>6, <2>1, <2>4 DEF Given, Val, Leaves, HasData
  <2> QED BY <1>3, <2>1, <2>3, <2>5 DEF ConstantFrom
<1> QED BY <1>8, <1>9

\* What is folded is what running the graph computes.
LEMMA FoldedValues ==
  ASSUME NEW g, NEW fold, IsFoldingOf(fold, g), NEW env, GivesInputs(env, g), FoldsByAxis(fold, g),
         NEW V, Solves(V, g, env)
  PROVE  \A i \in 1 .. Len(g.nodes) : IsFoldedAt(fold, g, i) =>
           Val(V, g.nodes[i].outputs[1]) = FoldedAt(fold, g, i)
<1>1. Len(g.nodes) \in Nat
  BY ExecutableParts DEF IsFoldingOf
<1> DEFINE Good == {k \in 0 .. Len(g.nodes) : \A i \in 1 .. k : IsFoldedAt(fold, g, i) =>
                      Val(V, g.nodes[i].outputs[1]) = FoldedAt(fold, g, i)}
<1>2. 0 \in Good
  BY <1>1
<1>3. ASSUME NEW n \in Nat, n < Len(g.nodes), n \in Good PROVE n + 1 \in Good
  <2>1. PICK k : k = n + 1
    OBVIOUS
  <2>2. /\ k \in 1 .. Len(g.nodes) /\ k \in 0 .. Len(g.nodes) /\ k - 1 = n
        /\ \A i \in 1 .. k : i \in 1 .. n \/ i = k
    BY <1>1, <1>3, <2>1
  <2>3. ASSUME IsFoldedAt(fold, g, k)
        PROVE  Val(V, g.nodes[k].outputs[1]) = FoldedAt(fold, g, k)
    <3>1. PICK node : node = g.nodes[k]
      OBVIOUS
    <3>2. PICK x : x = fold[n]
      OBVIOUS
    <3>3. PICK args : args = [m \in DOMAIN node.inputs |-> x.tensors[Operand(node, m)].data]
      OBVIOUS
    <3>4. FoldedAt(fold, g, k) = FoldedValue(x, node) /\ FoldedValue(x, node) # NoData
      BY <2>2, <2>3, <3>1, <3>2 DEF FoldedAt, IsFoldedAt
    <3>5. \A m \in DOMAIN node.inputs : IsKnownConstant(x, Operand(node, m))
      BY <3>4 DEF FoldedValue
    <3>6. FoldedValue(x, node) = EvaluateNode(node.opcode, args, node.attributes)
      BY <3>3, <3>4 DEF FoldedValue
    <3>7. ASSUME NEW m \in DOMAIN node.inputs
          PROVE  Val(V, node.inputs[m]) = args[m] /\ args[m] # Undefined
      <4>1. PICK t : t = node.inputs[m]
        OBVIOUS
      <4>2. Operand(node, m) = t
        BY <4>1 DEF Operand
      <4>3. IsKnownConstant(fold[k - 1], t)
        BY <2>2, <3>2, <3>5, <4>2
      <4>4. args[m] = x.tensors[t].data
        BY <3>3, <4>2
      <4>5. x.tensors[t].data # Undefined
        BY <3>5, <4>2 DEF IsKnownConstant, HasData, NoData
      <4>6. ConstantFrom(fold, g, env, k - 1, t)
        BY <2>2, <4>3, KnownConstant
      <4>7. ConstantFrom(fold, g, env, n, t)
        BY <2>2, <4>6
      <4>8. Val(V, t) = x.tensors[t].data
        BY <1>3, <3>2, <4>7 DEF Solves, ConstantFrom
      <4> QED BY <4>1, <4>4, <4>5, <4>8
    <3>8. Args(V, node) = args
      BY <3>3, <3>7 DEF Args
    <3>9. Known(V, node)
      BY <3>7 DEF Known
    <3>10. node.opcode = "CONCAT" => Attribute(node, "axis", 0) = Attribute(node, "dim", 0)
      BY <2>2, <2>3, <3>1 DEF FoldsByAxis
    <3>11. Compute(node, args) = EvaluateNode(node.opcode, args, node.attributes)
      BY <3>4, <3>6, <3>10, EvaluatesAsComputed
    <3>12. Val(V, node.outputs[1]) = Outcome(V, g, env, node)
      BY <2>2, <3>1 DEF Solves
    <3>13. Outcome(V, g, env, node) = Compute(node, args)
      BY <3>8, <3>9 DEF Outcome
    <3> QED BY <3>1, <3>4, <3>6, <3>11, <3>12, <3>13
  <2> QED BY <1>3, <2>1, <2>2, <2>3
<1>4. Len(g.nodes) \in Good
  <2>1. \A n \in Nat : n < Len(g.nodes) /\ n \in Good => n + 1 \in Good
    BY <1>3
  <2>2. Len(g.nodes) \in 0 .. Len(g.nodes)
    BY <1>1
  <2> HIDE DEF Good
  <2> QED BY <1>1, <1>2, <2>1, <2>2, UpTo
<1> QED BY <1>4

\* So the values of the graph are those of what folding leaves of it.
LEMMA FoldedSolves ==
  ASSUME NEW g, NEW fold, IsFoldingOf(fold, g), NEW h, h = fold[Len(g.nodes)],
         NEW env, GivesInputs(env, g), FoldsByAxis(fold, g), NEW V, Solves(V, g, env)
  PROVE  ListSolved(V, h, env, g.nodes, Left(fold, g))
<1>1. IsExecutable(g) /\ NamesExist(g)
  BY DEF IsFoldingOf
<1>2. Len(g.nodes) \in Nat /\ {"inputs", "tensors"} \subseteq DOMAIN g
  BY <1>1, ExecutableParts DEF IsExecutable
<1>3. DOMAIN h.tensors = DOMAIN g.tensors
  BY FoldedAll DEF IsFoldedGraph
<1>4. ASSUME NEW t, \A i \in 1 .. Len(g.nodes) : IsFoldedAt(fold, g, i) => t # g.nodes[i].outputs[1]
      PROVE  Given(h, env, t) = Given(g, env, t)
  <2>1. CASE t \in DOMAIN g.tensors
    <3>1. FoldedTensor(fold, g, Len(g.nodes), t)
      BY <2>1, FoldedAll DEF IsFoldedGraph
    <3>2. h.tensors[t] = g.tensors[t]
      BY <1>4, <3>1 DEF FoldedTensor
    <3> QED BY <1>3, <3>2 DEF Given, Val, Leaves, HasData
  <2>2. CASE t \notin DOMAIN g.tensors
    BY <1>3, <2>2 DEF Given, Val, Leaves
  <2> QED BY <2>1, <2>2
<1>5. ASSUME NEW i \in 1 .. Len(g.nodes), IsFoldedAt(fold, g, i)
      PROVE  Given(h, env, g.nodes[i].outputs[1]) = FoldedAt(fold, g, i)
  <2>1. PICK t : t = g.nodes[i].outputs[1]
    OBVIOUS
  <2>2. t \in DOMAIN g.tensors /\ t \in Range(g.nodes[i].outputs)
    BY <1>1, <2>1, ResultNamed, FirstResult
  <2>3. FoldedTensor(fold, g, Len(g.nodes), t)
    BY <2>2, FoldedAll DEF IsFoldedGraph
  <2>4. h.tensors[t].data = FoldedAt(fold, g, i) /\ FoldedAt(fold, g, i) # NoData
    BY <1>5, <2>1, <2>3 DEF FoldedTensor, IsFoldedAt
  <2>5. t \notin DOMAIN env
    <3>1. t \notin GivenTensors(g)
      BY <1>1, <2>2, ExecutableParts, KnownBeforeIs
    <3> QED BY <2>2, <3>1 DEF GivesInputs, GivenTensors
  <2>6. Given(h, env, t) = h.tensors[t].data
    BY <1>3, <2>2, <2>4, <2>5 DEF Given, Val, Leaves, HasData
  <2> QED BY <2>1, <2>4, <2>6
<1>6. ASSUME NEW i \in Left(fold, g)
      PROVE  Val(V, g.nodes[i].outputs[1]) = Outcome(V, h, env, g.nodes[i])
  <2>1. i \in 1 .. Len(g.nodes) /\ ~IsFoldedAt(fold, g, i)
    BY DEF Left
  <2>2. \A j \in 1 .. Len(g.nodes) : IsFoldedAt(fold, g, j) =>
          g.nodes[i].outputs[1] # g.nodes[j].outputs[1]
    BY <1>1, <2>1, ResultsDiffer
  <2>3. Given(h, env, g.nodes[i].outputs[1]) = Given(g, env, g.nodes[i].outputs[1])
    BY <1>4, <2>2
  <2>4. Val(V, g.nodes[i].outputs[1]) = Outcome(V, g, env, g.nodes[i])
    BY <2>1 DEF Solves
  <2> QED BY <2>3, <2>4 DEF Outcome
<1>7. ASSUME NEW t, \A i \in Left(fold, g) : t # g.nodes[i].outputs[1]
      PROVE  Val(V, t) = Given(h, env, t)
  <2>1. CASE \E i \in 1 .. Len(g.nodes) : IsFoldedAt(fold, g, i) /\ t = g.nodes[i].outputs[1]
    BY <1>5, <2>1, FoldedValues
  <2>2. CASE \A i \in 1 .. Len(g.nodes) : IsFoldedAt(fold, g, i) => t # g.nodes[i].outputs[1]
    <3>1. ~IsResult(g, t)
      BY <1>7, <2>2 DEF IsResult, Left
    <3>2. Val(V, t) = Given(g, env, t)
      BY <3>1 DEF Solves
    <3> QED BY <1>4, <2>2, <3>2
  <2> QED BY <2>1, <2>2
<1> QED BY <1>6, <1>7 DEF ListSolved

\* The fields a folded graph has.
LEMMA FoldedFields ==
  ASSUME NEW g, NEW fold, IsFoldingOf(fold, g), NEW h, h = fold[Len(g.nodes)]
  PROVE  /\ DOMAIN h = DOMAIN g /\ DOMAIN h.tensors = DOMAIN g.tensors
         /\ h.inputs = g.inputs /\ h.outputs = g.outputs /\ h.states = g.states
         /\ IsGraph(h) /\ HasFields(h)
<1>1. IsExecutable(g)
  BY DEF IsFoldingOf
<1>2. /\ {"tensors", "nodes", "inputs", "outputs", "parameters", "states"} \subseteq DOMAIN g
      /\ IsSequence(g.inputs) /\ IsSequence(g.states)
  BY <1>1 DEF IsExecutable
<1>3. /\ DOMAIN h = DOMAIN g /\ DOMAIN h.tensors = DOMAIN g.tensors /\ HasFields(h)
      /\ \A field \in DOMAIN g \ {"nodes", "tensors"} : h[field] = g[field]
  BY FoldedAll DEF IsFoldedGraph
<1>4. h.inputs = g.inputs /\ h.outputs = g.outputs /\ h.states = g.states
  BY <1>2, <1>3
<1> QED BY <1>2, <1>3, <1>4 DEF IsGraph

\* A graph whose folded concatenations go by axis is folded so.
LEMMA FoldsByAxisToo ==
  ASSUME NEW g, NEW fold, IsFoldingOf(fold, g), ConstantFolding(g) = fold[Len(g.nodes)],
         ConcatsByAxis(g)
  PROVE  FoldsByAxis(fold, g)
<1>1. PICK h : h = fold[Len(g.nodes)]
  OBVIOUS
<1>2. PICK place : IsListing(h.nodes, g.nodes, Left(fold, g), place)
  BY <1>1, FoldedListing
<1>3. IsExecutable(g) /\ DOMAIN h.nodes = 1 .. Len(h.nodes)
  BY <1>2 DEF IsFoldingOf, IsListing, IsSequence
<1>4. ASSUME NEW i \in 1 .. Len(g.nodes), IsFoldedAt(fold, g, i)
      PROVE  g.nodes[i] \notin Nodes(h)
  <2>1. SUFFICES ASSUME g.nodes[i] \in Nodes(h) PROVE FALSE
    OBVIOUS
  <2>2. PICK p \in 1 .. Len(h.nodes) : h.nodes[p] = g.nodes[i]
    BY <1>3, <2>1 DEF Nodes, Range
  <2>3. PICK j \in Left(fold, g) : place[j] = p
    BY <1>2 DEF IsListing
  <2>4. g.nodes[j] = g.nodes[i]
    BY <1>2, <2>2, <2>3 DEF IsListing
  <2>5. j \in 1 .. Len(g.nodes) /\ ~IsFoldedAt(fold, g, j)
    BY <2>3 DEF Left
  <2>6. i = j
    BY <1>3, <2>4, <2>5, ResultsDiffer
  <2> QED BY <1>4, <2>5, <2>6
<1> QED BY <1>1, <1>4 DEF ConcatsByAxis, FoldsByAxis

\* Constant folding, on any graph that can run and whose folded concatenations give
\* their dimension in both ways, as "axis" and as "dim": what is left can run, and
\* computes the same from any values of the inputs.
THEOREM ConstantFoldingCorrect ==
  ASSUME NEW g, IsExecutable(g), IsTyped(g), NamesExist(g), ConcatsByAxis(g)
  PROVE  /\ IsExecutable(ConstantFolding(g))
         /\ \A env : GivesInputs(env, g) => Results(ConstantFolding(g), env) = Results(g, env)
<1>1. Len(g.nodes) \in Nat /\ "nodes" \in DOMAIN g
  BY ExecutableParts DEF IsExecutable
<1>2. PICK fold : IsFolding(fold, g) /\ ConstantFolding(g) = fold[Len(g.nodes)]
  BY <1>1, FoldingDefined
<1>3. IsFoldingOf(fold, g)
  BY <1>2 DEF IsFoldingOf
<1>4. PICK h : h = fold[Len(g.nodes)]
  OBVIOUS
<1>5. IsGraph(h) /\ h.outputs = g.outputs
  BY <1>3, <1>4, FoldedFields
<1>6. PICK place : IsListing(h.nodes, g.nodes, Left(fold, g), place)
  BY <1>3, <1>4, FoldedListing
<1>7. CanRun(h, g.nodes, Left(fold, g))
  BY <1>3, <1>4, FoldedRuns
<1>8. IsExecutable(h)
  <2>1. PICK X : X = Left(fold, g)
    OBVIOUS
  <2>2. X \in SUBSET Nat
    BY <1>1, <2>1 DEF Left
  <2>3. PICK ops : ops = g.nodes
    OBVIOUS
  <2>4. IsListing(h.nodes, ops, X, place) /\ CanRun(h, ops, X)
    BY <1>6, <1>7, <2>1, <2>3
  <2> QED BY <1>5, <2>2, <2>4, ListedExecutable
<1>9. ASSUME NEW env, GivesInputs(env, g) PROVE Results(h, env) = Results(g, env)
  <2>1. PICK V : V = Values(g, env)
    OBVIOUS
  <2>2. Solves(V, g, env)
    BY <2>1, ValuesSolve
  <2>3. ListSolved(V, h, env, g.nodes, Left(fold, g))
    BY <1>2, <1>3, <1>4, <1>9, <2>2, FoldedSolves, FoldsByAxisToo
  <2>4. Solves(V, h, env)
    BY <1>6, <2>3, ListedSolves
  <2>5. Results(g, env) = [k \in DOMAIN g.outputs |-> Val(V, g.outputs[k])]
    BY <2>2, ResultsOf
  <2>6. Results(h, env) = [k \in DOMAIN h.outputs |-> Val(V, h.outputs[k])]
    BY <1>8, <2>4, ResultsOf
  <2> QED BY <1>5, <2>5, <2>6
<1> QED BY <1>2, <1>4, <1>8, <1>9

--------------------------------------------------------------------------------
(* Regular graphs: what the passes take for granted of a graph, and keep.       *)

\* The parts of the definition by name.
LEMMA RegularParts ==
  ASSUME NEW g, IsRegular(g)
  PROVE  /\ IsExecutable(g) /\ IsTyped(g) /\ NamesExist(g)
         /\ Len(g.nodes) \in Nat /\ DOMAIN g.nodes = 1 .. Len(g.nodes)
<1>1. IsExecutable(g)
  BY DEF IsRegular
<1>2. Len(g.nodes) \in Nat /\ DOMAIN g.nodes = 1 .. Len(g.nodes)
  BY <1>1, ExecutableParts
<1>3. IsTyped(g)
  BY <1>2 DEF IsRegular, IsTyped, IsNodeOf, IsRegularOp
<1>4. NamesExist(g)
  <2>1. ASSUME NEW n \in Nodes(g) PROVE Range(n.inputs) \cup Range(n.outputs) \subseteq DOMAIN g.tensors
    <3>1. PICK i \in 1 .. Len(g.nodes) : n = g.nodes[i]
      BY <1>2 DEF Nodes, Range
    <3> QED BY <3>1 DEF IsRegular, IsNodeOf
  <2> QED BY <2>1 DEF NamesExist, IsRegular, Wanted
<1> QED BY <1>1, <1>2, <1>3, <1>4

\* The one result of an operation.
LEMMA RegularNode ==
  ASSUME NEW g, IsRegular(g), NEW i \in 1 .. Len(g.nodes)
  PROVE  /\ IsNodeOf(g, g.nodes[i]) /\ IsRegularOp(g.nodes[i])
         /\ IsSequence(g.nodes[i].inputs) /\ IsSequence(g.nodes[i].outputs)
         /\ Range(g.nodes[i].outputs) = {g.nodes[i].outputs[1]}
<1>1. IsRegularOp(g.nodes[i]) /\ IsNodeOf(g, g.nodes[i])
  BY DEF IsRegular, IsNodeOf
<1>2. IsSequence(g.nodes[i].inputs) /\ IsSequence(g.nodes[i].outputs) /\ Len(g.nodes[i].outputs) = 1
  BY <1>1 DEF IsRegularOp, IsOp
<1>3. DOMAIN g.nodes[i].outputs = {1}
  BY <1>2 DEF IsSequence
<1> QED BY <1>1, <1>2, <1>3 DEF Range

\* An operation has no other.
LEMMA OneResult ==
  ASSUME NEW g, IsRegular(g), NEW i \in 1 .. Len(g.nodes), NEW t \in Range(g.nodes[i].outputs)
  PROVE  t = g.nodes[i].outputs[1]
<1>1. Range(g.nodes[i].outputs) = {g.nodes[i].outputs[1]}
  BY RegularNode
<1> QED BY <1>1

\* A graph of listed operations.
LEMMA ListedRegular ==
  ASSUME NEW h, IsGraph(h), HasFields(h), Wanted(h) \subseteq DOMAIN h.tensors,
         NEW ops, NEW X \in SUBSET Nat, NEW place, IsListing(h.nodes, ops, X, place),
         CanRun(h, ops, X), \A i \in X : IsNodeOf(h, ops[i])
  PROVE  IsRegular(h)
<1>1. IsExecutable(h)
  BY ListedExecutable
<1>2. ASSUME NEW p \in 1 .. Len(h.nodes) PROVE IsNodeOf(h, h.nodes[p])
  <2>1. PICK i \in X : place[i] = p
    BY DEF IsListing
  <2>2. h.nodes[p] = ops[i]
    BY <2>1 DEF IsListing
  <2> QED BY <2>2
<1> QED BY <1>1, <1>2 DEF IsRegular

\* Constant folding keeps a graph regular.
LEMMA FoldingRegular ==
  ASSUME NEW g, IsRegular(g)
  PROVE  IsRegular(ConstantFolding(g))
<1>1. IsExecutable(g) /\ IsTyped(g) /\ NamesExist(g) /\ Len(g.nodes) \in Nat
  BY RegularParts
<1>2. "nodes" \in DOMAIN g
  BY <1>1 DEF IsExecutable
<1>3. PICK fold : IsFolding(fold, g) /\ ConstantFolding(g) = fold[Len(g.nodes)]
  BY <1>1, <1>2, FoldingDefined
<1>4. IsFoldingOf(fold, g)
  BY <1>1, <1>3 DEF IsFoldingOf
<1>5. PICK h : h = fold[Len(g.nodes)]
  OBVIOUS
<1>6. /\ DOMAIN h.tensors = DOMAIN g.tensors /\ h.outputs = g.outputs /\ h.states = g.states
      /\ IsGraph(h) /\ HasFields(h)
  BY <1>4, <1>5, FoldedFields
<1>7. PICK place : IsListing(h.nodes, g.nodes, Left(fold, g), place)
  BY <1>4, <1>5, FoldedListing
<1>8. CanRun(h, g.nodes, Left(fold, g))
  BY <1>4, <1>5, FoldedRuns
<1>9. PICK X : X = Left(fold, g)
  OBVIOUS
<1>10. X \in SUBSET Nat /\ X \subseteq 1 .. Len(g.nodes)
  BY <1>1, <1>9 DEF Left
<1>11. PICK ops : ops = g.nodes
  OBVIOUS
<1>12. \A i \in X : IsNodeOf(h, ops[i])
  BY <1>6, <1>10, <1>11, RegularNode DEF IsNodeOf
<1>13. Wanted(h) \subseteq DOMAIN h.tensors
  BY <1>6 DEF IsRegular, Wanted
<1>14. IsListing(h.nodes, ops, X, place) /\ CanRun(h, ops, X)
  BY <1>7, <1>8, <1>9, <1>11
<1>15. IsRegular(h)
  BY <1>6, <1>10, <1>12, <1>13, <1>14, ListedRegular
<1> QED BY <1>3, <1>5, <1>15

\* So does dead code elimination.
LEMMA DeadCodeRegular ==
  ASSUME NEW g, IsRegular(g)
  PROVE  IsRegular(DeadCodeElimination(g))
<1>0. IsExecutable(g) /\ HasFields(g) /\ Wanted(g) \subseteq DOMAIN g.tensors
  BY DEF IsRegular
<1>1. PICK L : L = LiveTensors(g)
  OBVIOUS
<1>2. PICK K : K = L \cup AlwaysKept(g)
  OBVIOUS
<1>3. PICK h : h = Retain(g, L, K)
  OBVIOUS
<1>4. h = DeadCodeElimination(g)
  BY <1>1, <1>2, <1>3 DEF DeadCodeElimination
<1>5. PICK upto : IsRetained(h, g, L, K, upto)
  BY <1>0, <1>3, Retains
<1>6. IsLiveSet(L, g) /\ L \subseteq K
  BY <1>0, <1>1, <1>2, LiveSet
<1>7. IsRemoval(h, g, L, K, upto)
  BY <1>0, <1>5, <1>6 DEF IsRemoval
<1>8. IsExecutable(h)
  BY <1>0, <1>4, DeadCodeCorrect
<1>9. /\ h.tensors = [t \in DOMAIN g.tensors \cap K |-> g.tensors[t]] /\ h.outputs = g.outputs
      /\ Range(h.inputs) = Range(g.inputs) \cap K /\ Range(h.states) = Range(g.states) \cap K
  BY <1>5 DEF IsRetained
<1>10. HasFields(h)
  BY <1>0, <1>9 DEF HasFields
<1>11. Wanted(h) \subseteq DOMAIN h.tensors
  BY <1>0, <1>6, <1>9 DEF Wanted, IsLiveSet
<1>12. ASSUME NEW i \in 1 .. Len(h.nodes) PROVE IsNodeOf(h, h.nodes[i])
  <2>1. PICK k \in 1 .. Len(g.nodes) :
          Range(g.nodes[k].outputs) \cap L # {} /\ Len(upto[k]) = i /\ h.nodes[i] = g.nodes[k]
    BY <1>7, PlaceOfLive
  <2>2. /\ IsNodeOf(g, g.nodes[k]) /\ IsRegularOp(g.nodes[k]) /\ IsSequence(g.nodes[k].inputs)
        /\ Range(g.nodes[k].outputs) = {g.nodes[k].outputs[1]}
    BY RegularNode
  <2>3. Range(g.nodes[k].outputs) \subseteq L
    BY <2>1, <2>2
  <2>4. Range(g.nodes[k].inputs) \subseteq L
    BY <1>6, <2>1 DEF IsLiveSet
  <2>5. Range(g.nodes[k].inputs) \cup Range(g.nodes[k].outputs) \subseteq DOMAIN h.tensors
    BY <1>6, <1>9, <2>2, <2>3, <2>4 DEF IsNodeOf
  <2> QED BY <2>1, <2>2, <2>5 DEF IsNodeOf
<1> QED BY <1>4, <1>8, <1>10, <1>11, <1>12 DEF IsRegular

--------------------------------------------------------------------------------
(* Graphs whose operations are rewritten.                                       *)

\* h is g but for its operations.
IsRewriting(h, g) ==
  /\ DOMAIN h = DOMAIN g /\ DOMAIN h.tensors = DOMAIN g.tensors /\ HasFields(h)
  /\ h.inputs = g.inputs /\ h.outputs = g.outputs /\ h.states = g.states
  /\ \A t \in DOMAIN g.tensors :
       /\ h.tensors[t].data = g.tensors[t].data /\ h.tensors[t].storage = g.tensors[t].storage
       /\ h.tensors[t].shape = g.tensors[t].shape

\* The operation at i has the result that the operation src[i] of g has.
Rearranges(g, ops, X, src) ==
  /\ X \subseteq 1 .. Len(g.nodes)
  /\ \A i \in X : /\ src[i] \in 1 .. Len(g.nodes) /\ ops[i].outputs = g.nodes[src[i]].outputs
                  /\ ops[i].id = g.nodes[i].id
  /\ \A i, j \in X : src[i] = src[j] => i = j

ReadsBefore(g, ops, X) ==
  \A i \in X : \A t \in Range(ops[i].inputs) :
    t \in GivenTensors(g) \/ \E j \in X : j < i /\ t \in Range(ops[j].outputs)

\* A rewritten graph is given the same tensors.
LEMMA RewritingGiven ==
  ASSUME NEW g, NEW h, IsRewriting(h, g)
  PROVE  GivenTensors(h) = GivenTensors(g)
BY DEF IsRewriting, GivenTensors, HasData

\* Rearranged operations that read what is there before them can run.
LEMMA RewritingRuns ==
  ASSUME NEW g, IsRegular(g), NEW h, IsRewriting(h, g), NEW ops, NEW X, NEW src,
         Rearranges(g, ops, X, src), ReadsBefore(g, ops, X)
  PROVE  CanRun(h, ops, X)
<1>1. IsExecutable(g) /\ Len(g.nodes) \in Nat /\ DOMAIN g.nodes = 1 .. Len(g.nodes)
  BY RegularParts
<1>2. GivenTensors(h) = GivenTensors(g)
  BY RewritingGiven
<1>3. ASSUME NEW i \in X
      PROVE  /\ 1 \in DOMAIN ops[i].outputs
             /\ \A t \in Range(ops[i].inputs) :
                  t \in GivenTensors(h) \/ \E j \in X : j < i /\ t \in Range(ops[j].outputs)
             /\ Range(ops[i].outputs) \cap GivenTensors(h) = {}
             /\ \A j \in X : j < i => /\ ops[j].id # ops[i].id
                                      /\ Range(ops[j].outputs) \cap Range(ops[i].outputs) = {}
  <2>1. /\ src[i] \in 1 .. Len(g.nodes) /\ ops[i].outputs = g.nodes[src[i]].outputs
        /\ ops[i].id = g.nodes[i].id /\ i \in 1 .. Len(g.nodes)
    BY DEF Rearranges
  <2>2. 1 \in DOMAIN ops[i].outputs
    BY <1>1, <2>1, ExecutableParts
  <2>3. \A t \in Range(ops[i].inputs) :
          t \in GivenTensors(h) \/ \E j \in X : j < i /\ t \in Range(ops[j].outputs)
    BY <1>2 DEF ReadsBefore
  <2>4. Range(ops[i].outputs) \cap GivenTensors(h) = {}
    <3>1. Range(g.nodes[src[i]].outputs) \cap KnownBefore(g, src[i]) = {}
      BY <1>1, <2>1, ExecutableParts
    <3>2. GivenTensors(g) \subseteq KnownBefore(g, src[i])
      BY KnownBeforeIs
    <3> QED BY <1>2, <2>1, <3>1, <3>2
  <2>5. ASSUME NEW j \in X, j < i
        PROVE  ops[j].id # ops[i].id /\ Range(ops[j].outputs) \cap Range(ops[i].outputs) = {}
    <3>1. /\ src[j] \in 1 .. Len(g.nodes) /\ ops[j].outputs = g.nodes[src[j]].outputs
          /\ ops[j].id = g.nodes[j].id /\ j \in 1 .. Len(g.nodes)
      BY DEF Rearranges
    <3>2. i \in DOMAIN g.nodes /\ j \in 1 .. i - 1 /\ i # j
      BY <1>1, <2>1, <2>5, <3>1
    <3>3. g.nodes[j].id /= g.nodes[i].id
      BY <1>1, <3>2 DEF IsExecutable
    <3>4. src[i] # src[j]
      BY <3>2 DEF Rearranges
    <3>5. ASSUME NEW t \in Range(g.nodes[src[j]].outputs), t \in Range(g.nodes[src[i]].outputs)
          PROVE  FALSE
      <4>1. PICK a : a = src[j]
        OBVIOUS
      <4>2. PICK b : b = src[i]
        OBVIOUS
      <4>3. a \in 1 .. Len(g.nodes) /\ b \in 1 .. Len(g.nodes) /\ a # b
        BY <2>1, <3>1, <3>4, <4>1, <4>2
      <4>4. t \in Range(g.nodes[a].outputs) /\ t \in Range(g.nodes[b].outputs)
        BY <3>5, <4>1, <4>2
      <4> QED BY <1>1, <4>3, <4>4, ResultOfOne
    <3> QED BY <2>1, <3>1, <3>3, <3>5
  <2> QED BY <2>2, <2>3, <2>4, <2>5
<1> QED BY <1>3 DEF CanRun

\* They make the rewritten graph regular.
LEMMA RewritingRegular ==
  ASSUME NEW g, IsRegular(g), NEW h, IsRewriting(h, g), NEW ops, NEW X, NEW src,
         Rearranges(g, ops, X, src), ReadsBefore(g, ops, X),
         NEW place, IsListing(h.nodes, ops, X, place), \A i \in X : IsNodeOf(g, ops[i])
  PROVE  IsRegular(h)
<1>1. IsExecutable(g) /\ Len(g.nodes) \in Nat
  BY RegularParts
<1>2. IsGraph(h) /\ HasFields(h)
  BY <1>1 DEF IsRewriting, IsGraph, IsExecutable
<1>3. Wanted(h) \subseteq DOMAIN h.tensors
  BY DEF IsRegular, IsRewriting, Wanted
<1>4. X \in SUBSET Nat
  BY <1>1 DEF Rearranges
<1>5. CanRun(h, ops, X)
  BY RewritingRuns
<1>6. DOMAIN h.tensors = DOMAIN g.tensors
  BY DEF IsRewriting
<1>7. \A i \in X : IsNodeOf(h, ops[i])
  BY <1>6 DEF IsNodeOf
<1> QED BY <1>2, <1>3, <1>4, <1>5, <1>7, ListedRegular

--------------------------------------------------------------------------------
(* Operations that take over results: c that of tail[c], further down, when     *)
(* only operations that go read what c and those between have computed.         *)

IsTakeover(g, C, tail, Gone) ==
  /\ C \subseteq 1 .. Len(g.nodes) /\ Gone \subseteq 1 .. Len(g.nodes) /\ C \cap Gone = {}
  /\ \A c \in C : tail[c] \in Gone /\ c < tail[c]
  /\ \A c, d \in C : tail[c] = tail[d] => c = d
  /\ \A i \in C \cup Gone : (\A c \in C : i # tail[c]) =>
       \A k \in 1 .. Len(g.nodes) : g.nodes[i].outputs[1] \in Range(g.nodes[k].inputs) => k \in Gone

Remaining(g, Gone) == 1 .. Len(g.nodes) \ Gone

TakesOver(g, C, tail, Gone, ops) ==
  \A i \in Remaining(g, Gone) :
    /\ ops[i].inputs = g.nodes[i].inputs /\ ops[i].id = g.nodes[i].id
    /\ i \in C => ops[i].outputs = g.nodes[tail[i]].outputs
    /\ i \notin C => ops[i].outputs = g.nodes[i].outputs

Source(C, tail, X) == [i \in X |-> IF i \in C THEN tail[i] ELSE i]

\* Taking over rearranges.
LEMMA TakeoverRearranges ==
  ASSUME NEW g, NEW C, NEW tail, NEW Gone, IsTakeover(g, C, tail, Gone),
         NEW ops, TakesOver(g, C, tail, Gone, ops), NEW X, X = Remaining(g, Gone)
  PROVE  Rearranges(g, ops, X, Source(C, tail, X))
<1>1. PICK src : src = Source(C, tail, X)
  OBVIOUS
<1>2. \A i \in X : (i \in C => src[i] = tail[i]) /\ (i \notin C => src[i] = i)
  BY <1>1 DEF Source
<1>3. X \subseteq 1 .. Len(g.nodes) /\ \A i \in X : i \notin Gone
  BY DEF Remaining
<1>4. ASSUME NEW i \in X
      PROVE  /\ src[i] \in 1 .. Len(g.nodes) /\ ops[i].outputs = g.nodes[src[i]].outputs
             /\ ops[i].id = g.nodes[i].id
  BY <1>2, <1>3 DEF IsTakeover, TakesOver
<1>5. ASSUME NEW i \in X, NEW j \in X, src[i] = src[j] PROVE i = j
  BY <1>2, <1>3, <1>5 DEF IsTakeover
<1>6. Rearranges(g, ops, X, src)
  BY <1>3, <1>4, <1>5 DEF Rearranges
<1> QED BY <1>1, <1>6

\* After a takeover everything is read after it is there.
LEMMA TakeoverReads ==
  ASSUME NEW g, IsRegular(g), NEW C, NEW tail, NEW Gone, IsTakeover(g, C, tail, Gone),
         NEW ops, TakesOver(g, C, tail, Gone, ops), NEW X, X = Remaining(g, Gone)
  PROVE  ReadsBefore(g, ops, X)
<1>1. IsExecutable(g) /\ Len(g.nodes) \in Nat
  BY RegularParts
<1> SUFFICES ASSUME NEW i \in X, NEW t \in Range(ops[i].inputs), t \notin GivenTensors(g)
             PROVE  \E j \in X : j < i /\ t \in Range(ops[j].outputs)
  BY DEF ReadsBefore
<1>2. i \in 1 .. Len(g.nodes) /\ i \notin Gone /\ t \in Range(g.nodes[i].inputs)
  BY DEF Remaining, TakesOver
<1>3. Range(g.nodes[i].inputs) \subseteq KnownBefore(g, i)
  BY <1>1, <1>2, ExecutableParts
<1>4. PICK j \in 1 .. i - 1 : t \in Range(g.nodes[j].outputs)
  BY <1>2, <1>3, KnownBeforeIs
<1>5. j \in 1 .. Len(g.nodes) /\ j < i
  BY <1>1, <1>2, <1>4
<1>6. t = g.nodes[j].outputs[1]
  BY <1>4, <1>5, OneResult
<1>7. CASE \E c \in C : j = tail[c]
  <2>1. PICK c \in C : j = tail[c]
    BY <1>7
  <2>2. c \in X /\ c < j /\ c \in 1 .. Len(g.nodes)
    BY <2>1 DEF IsTakeover, Remaining
  <2>3. ops[c].outputs = g.nodes[j].outputs
    BY <2>1, <2>2 DEF TakesOver
  <2>4. c < i
    BY <1>1, <1>2, <1>5, <2>2
  <2> QED BY <1>4, <2>2, <2>3, <2>4
<1>8. CASE \A c \in C : j # tail[c]
  <2>1. j \notin C \cup Gone
    BY <1>2, <1>6, <1>8 DEF IsTakeover
  <2>2. j \in X /\ ops[j].outputs = g.nodes[j].outputs
    BY <1>5, <2>1 DEF Remaining, TakesOver
  <2> QED BY <1>4, <1>5, <2>2
<1> QED BY <1>7, <1>8

\* A rewriting by which results are taken over.
LEMMA TakeoverRegular ==
  ASSUME NEW g, IsRegular(g), NEW h, IsRewriting(h, g),
         NEW C, NEW tail, NEW Gone, IsTakeover(g, C, tail, Gone),
         NEW ops, TakesOver(g, C, tail, Gone, ops), NEW X, X = Remaining(g, Gone),
         NEW place, IsListing(h.nodes, ops, X, place), \A i \in X : IsNodeOf(g, ops[i])
  PROVE  IsRegular(h)
<1>1. PICK src : src = Source(C, tail, X)
  OBVIOUS
<1>2. Rearranges(g, ops, X, src)
  BY <1>1, TakeoverRearranges
<1>3. ReadsBefore(g, ops, X)
  BY TakeoverReads
<1> QED BY <1>2, <1>3, RewritingRegular

--------------------------------------------------------------------------------
(* Operations that do an operand's work too: c reads what a producer of its     *)
(* operands reads, and a producer that nothing else reads goes.                 *)

IsInlining(g, C, Gone, ops) ==
  /\ C \subseteq 1 .. Len(g.nodes) /\ Gone \subseteq 1 .. Len(g.nodes) /\ C \cap Gone = {}
  /\ \A p \in Gone : \E c \in C :
       /\ \A k \in 1 .. Len(g.nodes) : g.nodes[p].outputs[1] \in Range(g.nodes[k].inputs) => k = c
       /\ g.nodes[p].outputs[1] \notin Range(ops[c].inputs)
  /\ \A i \in Remaining(g, Gone) :
       /\ ops[i].outputs = g.nodes[i].outputs /\ ops[i].id = g.nodes[i].id
       /\ \A t \in Range(ops[i].inputs) :
            \/ t \in Range(g.nodes[i].inputs)
            \/ i \in C /\ \E p \in 1 .. Len(g.nodes) : p < i /\ p \notin C /\ t \in Range(g.nodes[p].inputs)

\* Inlining rearranges.
LEMMA InliningRearranges ==
  ASSUME NEW g, NEW C, NEW Gone, NEW ops, IsInlining(g, C, Gone, ops),
         NEW X, X = Remaining(g, Gone)
  PROVE  Rearranges(g, ops, X, [i \in X |-> i])
<1>1. PICK src : src = [i \in X |-> i]
  OBVIOUS
<1>2. \A i \in X : src[i] = i
  BY <1>1
<1>3. X \subseteq 1 .. Len(g.nodes)
  BY DEF Remaining
<1>4. Rearranges(g, ops, X, src)
  BY <1>2, <1>3 DEF Rearranges, IsInlining
<1> QED BY <1>1, <1>4

\* After inlining everything is read after it is there.
LEMMA InliningReads ==
  ASSUME NEW g, IsRegular(g), NEW C, NEW Gone, NEW ops, IsInlining(g, C, Gone, ops),
         NEW X, X = Remaining(g, Gone)
  PROVE  ReadsBefore(g, ops, X)
<1>1. IsExecutable(g) /\ Len(g.nodes) \in Nat
  BY RegularParts
<1> SUFFICES ASSUME NEW i \in X, NEW t \in Range(ops[i].inputs), t \notin GivenTensors(g)
             PROVE  \E j \in X : j < i /\ t \in Range(ops[j].outputs)
  BY DEF ReadsBefore
<1>2. i \in 1 .. Len(g.nodes) /\ i \notin Gone
  BY DEF Remaining
<1>3. PICK m \in 1 .. Len(g.nodes) :
        m <= i /\ t \in Range(g.nodes[m].inputs) /\ (m = i \/ (i \in C /\ m \notin C))
  BY <1>1, <1>2 DEF IsInlining
<1>4. Range(g.nodes[m].inputs) \subseteq KnownBefore(g, m)
  BY <1>1, ExecutableParts
<1>5. PICK j \in 1 .. m - 1 : t \in Range(g.nodes[j].outputs)
  BY <1>3, <1>4, KnownBeforeIs
<1>6. j \in 1 .. Len(g.nodes) /\ j < i
  BY <1>1, <1>2, <1>3, <1>5
<1>7. t = g.nodes[j].outputs[1]
  BY <1>5, <1>6, OneResult
<1>8. j \notin Gone
  <2> SUFFICES ASSUME j \in Gone PROVE FALSE
    OBVIOUS
  <2>1. PICK c \in C :
          /\ \A k \in 1 .. Len(g.nodes) : g.nodes[j].outputs[1] \in Range(g.nodes[k].inputs) => k = c
          /\ g.nodes[j].outputs[1] \notin Range(ops[c].inputs)
    BY DEF IsInlining
  <2>2. m = c
    BY <1>3, <1>7, <2>1
  <2>3. m = i
    BY <1>3, <2>2
  <2> QED BY <1>7, <2>1, <2>2, <2>3
<1>9. j \in X
  BY <1>6, <1>8 DEF Remaining
<1>10. ops[j].outputs = g.nodes[j].outputs
  BY <1>9 DEF IsInlining
<1> QED BY <1>5, <1>6, <1>9, <1>10

\* A rewriting by which operands' work is taken over.
LEMMA InliningRegular ==
  ASSUME NEW g, IsRegular(g), NEW h, IsRewriting(h, g),
         NEW C, NEW Gone, NEW ops, IsInlining(g, C, Gone, ops), NEW X, X = Remaining(g, Gone),
         NEW place, IsListing(h.nodes, ops, X, place), \A i \in X : IsNodeOf(g, ops[i])
  PROVE  IsRegular(h)
<1>1. PICK src : src = [i \in X |-> i]
  OBVIOUS
<1>2. Rearranges(g, ops, X, src)
  BY <1>1, InliningRearranges
<1>3. ReadsBefore(g, ops, X)
  BY InliningReads
<1> QED BY <1>2, <1>3, RewritingRegular

--------------------------------------------------------------------------------
(* What a sweep leaves, and who reads a tensor.                                 *)

IsIdFilter(upto, nodes, ids) ==
  upto = [k \in 0 .. Len(nodes) |->
            IF k = 0 THEN <<>>
            ELSE IF nodes[k].id \notin ids THEN Append(upto[k - 1], nodes[k]) ELSE upto[k - 1]]

Staying(nodes, ids) == {i \in 1 .. Len(nodes) : nodes[i].id \notin ids}

\* Filtering by ids is filtering.
LEMMA IdFilterIsFilter ==
  ASSUME NEW S, NEW nodes \in Seq(S), NEW ids, NEW upto
  PROVE  IsIdFilter(upto, nodes, ids) <=> IsFilter(upto, nodes, {n \in S : n.id \notin ids})
<1>1. \A k \in 0 .. Len(nodes) : k # 0 =>
        (nodes[k].id \notin ids <=> nodes[k] \in {n \in S : n.id \notin ids})
  <2> TAKE k \in 0 .. Len(nodes)
  <2> HAVE k # 0
  <2>1. k \in 1 .. Len(nodes)
    OBVIOUS
  <2>2. nodes[k] \in S
    BY <2>1
  <2> QED BY <2>2
<1>2. PICK Y : Y = {n \in S : n.id \notin ids}
  OBVIOUS
<1>3. \A k \in 0 .. Len(nodes) :
        (IF k = 0 THEN <<>>
         ELSE IF nodes[k].id \notin ids THEN Append(upto[k - 1], nodes[k]) ELSE upto[k - 1])
        = (IF k = 0 THEN <<>>
           ELSE IF nodes[k] \in Y THEN Append(upto[k - 1], nodes[k]) ELSE upto[k - 1])
  BY <1>1, <1>2
<1>4. IsIdFilter(upto, nodes, ids) <=> IsFilter(upto, nodes, Y)
  BY <1>3 DEF IsIdFilter, IsFilter
<1> QED BY <1>2, <1>4

\* What a sweep leaves is listed.
LEMMA SweepListing ==
  ASSUME NEW nodes, IsSequence(nodes), NEW ids, NEW list, list = WithoutOps(nodes, ids),
         NEW X, X = Staying(nodes, ids)
  PROVE  \E place : IsListing(list, nodes, X, place)
<1>1. PICK S : S = Range(nodes)
  OBVIOUS
<1>2. nodes \in Seq(S)
  BY <1>1 DEF IsSequence
<1>3. PICK Y : Y = {n \in S : n.id \notin ids}
  OBVIOUS
<1>4. PICK upto : upto = CHOOSE f : IsIdFilter(f, nodes, ids)
  OBVIOUS
<1>5. \E f : IsFilter(f, nodes, Y)
  BY <1>2, FilterDefined
<1>6. \E f : IsIdFilter(f, nodes, ids)
  BY <1>2, <1>3, <1>5, IdFilterIsFilter
<1>7. IsIdFilter(upto, nodes, ids)
  BY <1>4, <1>6
<1>8. IsFilter(upto, nodes, Y)
  BY <1>2, <1>3, <1>7, IdFilterIsFilter
<1>9. list = upto[Len(nodes)]
  BY <1>4 DEF WithoutOps, Filtered, IsIdFilter
<1>10. X = {i \in 1 .. Len(nodes) : nodes[i] \in Y}
  <2>1. \A i \in 1 .. Len(nodes) : nodes[i] \in S
    BY <1>2
  <2> QED BY <1>3, <2>1 DEF Staying
<1>11. IsListing(upto[Len(nodes)], nodes, X, [i \in X |-> Len(upto[i])])
  BY <1>2, <1>8, <1>10, FilterListing
<1> QED BY <1>9, <1>11

\* A concatenation of parts.
IsFlattening(flat, parts) ==
  flat = [i \in 1 .. Len(parts) |-> IF i = 1 THEN parts[i] ELSE flat[i - 1] \o parts[i]]

\* There is such a function.
LEMMA FlatteningDefined ==
  ASSUME NEW parts, Len(parts) \in Nat \ {0}
  PROVE  \E flat : IsFlattening(flat, parts)
<1> DEFINE First(f, k) == f = [i \in 1 .. k |-> IF i = 1 THEN parts[i] ELSE f[i - 1] \o parts[i]]
           S == {k \in Nat : \E f : First(f, k)}
<1>1. 0 \in S
  <2> DEFINE f == [n \in 1 .. 0 |-> <<>>]
  <2>1. f = [i \in 1 .. 0 |-> IF i = 1 THEN parts[i] ELSE f[i - 1] \o parts[i]]
    OBVIOUS
  <2> HIDE DEF f
  <2> QED BY <2>1
<1>2. ASSUME NEW k \in Nat, k < Len(parts), k \in S PROVE k + 1 \in S
  <2>1. PICK f : First(f, k)
    BY <1>2
  <2> DEFINE h == [i \in 1 .. (k + 1) |-> IF i = 1 THEN parts[i] ELSE f[i - 1] \o parts[i]]
  <2>2. ASSUME NEW i \in 1 .. (k + 1), i # 1 PROVE f[i - 1] = h[i - 1]
    <3>1. i - 1 \in 1 .. k /\ i - 1 \in 1 .. (k + 1)
      BY <2>2
    <3>2. f[i - 1] = IF i - 1 = 1 THEN parts[i - 1] ELSE f[(i - 1) - 1] \o parts[i - 1]
      BY <2>1, <3>1
    <3>3. h[i - 1] = IF i - 1 = 1 THEN parts[i - 1] ELSE f[(i - 1) - 1] \o parts[i - 1]
      BY <3>1
    <3> QED BY <3>2, <3>3
  <2>3. h = [i \in 1 .. (k + 1) |-> IF i = 1 THEN parts[i] ELSE h[i - 1] \o parts[i]]
    <3>1. \A i \in 1 .. (k + 1) :
            (IF i = 1 THEN parts[i] ELSE f[i - 1] \o parts[i])
            = (IF i = 1 THEN parts[i] ELSE h[i - 1] \o parts[i])
      <4> TAKE i \in 1 .. (k + 1)
      <4>1. CASE i = 1
        BY <4>1
      <4>2. CASE i # 1
        <5>1. f[i - 1] = h[i - 1]
          BY <2>2, <4>2
        <5> HIDE DEF h
        <5> QED BY <5>1
      <4> QED BY <4>1, <4>2
    <3> QED BY <3>1
  <2>4. First(h, k + 1)
    BY <2>3
  <2>5. k + 1 \in Nat
    OBVIOUS
  <2> HIDE DEF h, First
  <2> QED BY <2>4, <2>5
<1>3. Len(parts) \in S
  <2>1. \A n \in Nat : n < Len(parts) /\ n \in S => n + 1 \in S
    BY <1>2
  <2>2. Len(parts) \in 0 .. Len(parts)
    OBVIOUS
  <2> HIDE DEF S
  <2> QED BY <1>1, <2>1, <2>2, UpTo
<1> QED BY <1>3 DEF IsFlattening

\* The whole has the elements of the first n parts, each part's in places of its own.
IsJoin(whole, parts, S, n) ==
  /\ whole \in Seq(S) /\ Len(whole) \in Nat
  /\ \A i \in 1 .. n : Len(parts[i]) <= Len(whole)
  /\ \A i, j \in 1 .. n : i # j => Len(parts[i]) + Len(parts[j]) <= Len(whole)
  /\ \A p \in 1 .. Len(whole) : \E i \in 1 .. n : whole[p] \in Range(parts[i])

\* A part is the whole of itself.
LEMMA OneJoin ==
  ASSUME NEW S, NEW parts, parts[1] \in Seq(S)
  PROVE  IsJoin(parts[1], parts, S, 1)
<1>1. DOMAIN parts[1] = 1 .. Len(parts[1]) /\ Len(parts[1]) \in Nat
  OBVIOUS
<1>2. 1 .. 1 = {1}
  OBVIOUS
<1>3. \A p \in 1 .. Len(parts[1]) : parts[1][p] \in Range(parts[1])
  BY <1>1 DEF Range
<1> QED BY <1>1, <1>2, <1>3 DEF IsJoin

\* One part more.
LEMMA JoinGrows ==
  ASSUME NEW S, NEW parts, NEW n \in Nat, NEW whole, IsJoin(whole, parts, S, n),
         \A i \in 1 .. n + 1 : parts[i] \in Seq(S), NEW m, m = n + 1
  PROVE  IsJoin(whole \o parts[m], parts, S, m)
<1>1. parts[m] \in Seq(S) /\ Len(parts[m]) \in Nat /\ DOMAIN parts[m] = 1 .. Len(parts[m])
  OBVIOUS
<1>2. PICK w : w = whole \o parts[m]
  OBVIOUS
<1>3. whole \in Seq(S) /\ Len(whole) \in Nat
  BY DEF IsJoin
<1>4. w \in Seq(S) /\ Len(w) = Len(whole) + Len(parts[m])
  BY <1>1, <1>2, <1>3, ConcatLen
<1>5. \A i \in 1 .. m : i \in 1 .. n \/ i = m
  OBVIOUS
<1>6. \A i \in 1 .. n : Len(parts[i]) \in Nat /\ Len(parts[i]) <= Len(whole)
  BY DEF IsJoin
<1>7. \A i \in 1 .. m : Len(parts[i]) <= Len(w)
  BY <1>1, <1>3, <1>4, <1>5, <1>6
<1>8. ASSUME NEW i \in 1 .. m, NEW j \in 1 .. m, i # j PROVE Len(parts[i]) + Len(parts[j]) <= Len(w)
  <2>1. CASE i \in 1 .. n /\ j \in 1 .. n
    <3>1. Len(parts[i]) + Len(parts[j]) <= Len(whole)
      BY <1>8, <2>1 DEF IsJoin
    <3>2. PICK l : l = Len(w)
      OBVIOUS
    <3>3. PICK a : a = Len(whole)
      OBVIOUS
    <3>4. PICK b : b = Len(parts[i])
      OBVIOUS
    <3>5. PICK c : c = Len(parts[j])
      OBVIOUS
    <3>6. b \in Nat /\ c \in Nat /\ a \in Nat /\ b + c <= a
      BY <1>3, <1>6, <2>1, <3>1, <3>3, <3>4, <3>5
    <3>7. \E k \in Nat : l = a + k
      BY <1>1, <1>4, <3>2, <3>3
    <3>8. b + c <= l
      BY <3>6, <3>7
    <3> QED BY <3>2, <3>4, <3>5, <3>8
  <2>2. CASE i \in 1 .. n /\ j = m
    BY <1>1, <1>3, <1>4, <1>6, <2>2
  <2>3. CASE i = m /\ j \in 1 .. n
    BY <1>1, <1>3, <1>4, <1>6, <2>3
  <2>4. i \in 1 .. n \/ i = m
    BY <1>5
  <2>5. j \in 1 .. n \/ j = m
    BY <1>5
  <2> QED BY <1>8, <2>1, <2>2, <2>3, <2>4, <2>5
<1>9. ASSUME NEW p \in 1 .. Len(w) PROVE \E i \in 1 .. m : w[p] \in Range(parts[i])
  <2>1. CASE p \in 1 .. Len(whole)
    <3>1. w[p] = whole[p]
      BY <1>1, <1>2, <1>3, <2>1, ConcatLeft
    <3>2. PICK i \in 1 .. n : whole[p] \in Range(parts[i])
      BY <2>1 DEF IsJoin
    <3>3. i \in 1 .. m
      OBVIOUS
    <3> QED BY <3>1, <3>2, <3>3
  <2>2. CASE p \notin 1 .. Len(whole)
    <3>1. PICK q : q = p - Len(whole)
      OBVIOUS
    <3>2. q \in 1 .. Len(parts[m]) /\ p = Len(whole) + q
      BY <1>1, <1>3, <1>4, <2>2, <3>1
    <3>3. w[p] = parts[m][q]
      BY <1>1, <1>2, <1>3, <3>2, ConcatRight
    <3>4. m \in 1 .. m /\ parts[m][q] \in Range(parts[m])
      BY <1>1, <3>2 DEF Range
    <3> QED BY <3>3, <3>4
  <2> QED BY <2>1, <2>2
<1>10. \A i, j \in 1 .. m : i # j => Len(parts[i]) + Len(parts[j]) <= Len(w)
  BY <1>8
<1>11. \A p \in 1 .. Len(w) : \E i \in 1 .. m : w[p] \in Range(parts[i])
  BY <1>9
<1>12. w \in Seq(S) /\ Len(w) \in Nat
  BY <1>1, <1>3, <1>4
<1>13. IsJoin(w, parts, S, m)
  BY <1>7, <1>10, <1>11, <1>12, Zenon DEF IsJoin
<1> QED BY <1>2, <1>13

\* A flattening is the whole of its parts.
LEMMA FlatteningHolds ==
  ASSUME NEW S, NEW parts, Len(parts) \in Nat \ {0}, \A i \in 1 .. Len(parts) : parts[i] \in Seq(S),
         NEW flat, IsFlattening(flat, parts)
  PROVE  IsJoin(flat[Len(parts)], parts, S, Len(parts))
<1> DEFINE Good == {n \in Nat : n # 0 => IsJoin(flat[n], parts, S, n)}
<1>0. 0 \in Good
  OBVIOUS
<1>1. ASSUME NEW n \in Nat, n < Len(parts), n \in Good PROVE n + 1 \in Good
  <2>1. PICK m : m = n + 1
    OBVIOUS
  <2>2. m \in 1 .. Len(parts) /\ m - 1 = n /\ m \in Nat
    BY <1>1, <2>1
  <2>3. flat[m] = IF m = 1 THEN parts[m] ELSE flat[m - 1] \o parts[m]
    BY <2>2 DEF IsFlattening
  <2>4. CASE m = 1
    <3>1. flat[m] = parts[1]
      BY <2>3, <2>4
    <3>2. IsJoin(parts[1], parts, S, 1)
      BY <2>2, <2>4, OneJoin
    <3> QED BY <2>1, <2>2, <2>4, <3>1, <3>2
  <2>5. CASE m # 1
    <3>1. n # 0
      BY <2>1, <2>5
    <3>2. IsJoin(flat[n], parts, S, n)
      BY <1>1, <3>1
    <3>3. \A i \in 1 .. n + 1 : parts[i] \in Seq(S)
      BY <1>1
    <3>4. IsJoin(flat[n] \o parts[m], parts, S, m)
      BY <2>1, <3>2, <3>3, JoinGrows
    <3>5. flat[m] = flat[n] \o parts[m]
      BY <2>2, <2>3, <2>5
    <3>6. IsJoin(flat[m], parts, S, m)
      BY <3>4, <3>5
    <3> QED BY <2>1, <2>2, <3>6
  <2> QED BY <2>4, <2>5
<1>2. \A n \in 0 .. Len(parts) : n \in Good
  <2>1. \A n \in Nat : n < Len(parts) /\ n \in Good => n + 1 \in Good
    BY <1>1
  <2> HIDE DEF Good
  <2> QED BY <1>0, <2>1, UpTo
<1>3. Len(parts) \in 0 .. Len(parts) /\ Len(parts) # 0
  OBVIOUS
<1>4. Len(parts) \in Good
  BY <1>2, <1>3
<1> QED BY <1>3, <1>4

\* Where t is an operand of node.
Uses(node, t) == {j \in DOMAIN node.inputs : node.inputs[j] = t}

\* An operand is one at least once.
LEMMA UseCount ==
  ASSUME NEW node, IsSequence(node.inputs), NEW t
  PROVE  /\ Cardinality(Uses(node, t)) \in Nat
         /\ t \in Range(node.inputs) <=> Cardinality(Uses(node, t)) >= 1
<1>1. DOMAIN node.inputs = 1 .. Len(node.inputs) /\ Len(node.inputs) \in Nat
  BY DEF IsSequence
<1>2. IsFiniteSet(1 .. Len(node.inputs))
  BY <1>1, FS_Interval
<1>3. Uses(node, t) \subseteq 1 .. Len(node.inputs)
  BY <1>1 DEF Uses
<1>4. IsFiniteSet(Uses(node, t))
  BY <1>2, <1>3, FS_Subset
<1>5. Cardinality(Uses(node, t)) \in Nat
  BY <1>4, FS_CardinalityType
<1>6. Cardinality(Uses(node, t)) = 0 <=> Uses(node, t) = {}
  BY <1>4, FS_EmptySet
<1>7. t \in Range(node.inputs) <=> Uses(node, t) # {}
  BY DEF Range, Uses
<1> QED BY <1>5, <1>6, <1>7

\* There are operations, with operands.
HasOps(g) ==
  /\ Len(g.nodes) \in Nat /\ DOMAIN g.nodes = 1 .. Len(g.nodes)
  /\ \A i \in 1 .. Len(g.nodes) : IsSequence(g.nodes[i].inputs)

\* A regular graph has such operations.
LEMMA RegularOps ==
  ASSUME NEW g, IsRegular(g)
  PROVE  HasOps(g)
<1>1. Len(g.nodes) \in Nat /\ DOMAIN g.nodes = 1 .. Len(g.nodes)
  BY RegularParts
<1>2. \A k \in 1 .. Len(g.nodes) : IsSequence(g.nodes[k].inputs)
  BY RegularNode
<1> QED BY <1>1, <1>2 DEF HasOps

\* The consumers are readers, and there are as many as there are readers at least.
LEMMA ConsumersAre ==
  ASSUME NEW g, HasOps(g), NEW t
  PROVE  /\ Consumers(g, t) \in Seq(Range(g.nodes)) /\ ConsumerCount(g, t) \in Nat
         /\ \A p \in 1 .. ConsumerCount(g, t) : \E i \in Readers(g, t) : Consumers(g, t)[p] = g.nodes[i]
         /\ Readers(g, t) # {} => ConsumerCount(g, t) >= 1
         /\ \A i, j \in Readers(g, t) : i # j => ConsumerCount(g, t) >= 2
         /\ \A i \in 1 .. Len(g.nodes) : Cardinality(Uses(g.nodes[i], t)) <= ConsumerCount(g, t)
<1>1. Len(g.nodes) \in Nat /\ DOMAIN g.nodes = 1 .. Len(g.nodes)
  BY DEF HasOps
<1>2. PICK parts : parts = [i \in DOMAIN g.nodes |->
        [k \in 1 .. Cardinality({j \in DOMAIN g.nodes[i].inputs : g.nodes[i].inputs[j] = t})
           |-> g.nodes[i]]]
  OBVIOUS
<1>3. Consumers(g, t) = FlattenSeq(parts)
  BY <1>2 DEF Consumers
<1>4. Len(parts) = Len(g.nodes)
  BY <1>1, <1>2
<1>5. ASSUME NEW i \in 1 .. Len(g.nodes)
      PROVE  /\ parts[i] \in Seq(Range(g.nodes)) /\ Len(parts[i]) \in Nat
             /\ i \in Readers(g, t) <=> Len(parts[i]) >= 1
             /\ \A n \in Range(parts[i]) : n = g.nodes[i]
             /\ i \notin Readers(g, t) => Range(parts[i]) = {}
             /\ Len(parts[i]) = Cardinality(Uses(g.nodes[i], t))
  <2>1. PICK c : c = Cardinality(Uses(g.nodes[i], t))
    OBVIOUS
  <2>2. c \in Nat /\ (i \in Readers(g, t) <=> c >= 1)
    BY <2>1, UseCount DEF Readers, HasOps
  <2>3. parts[i] = [k \in 1 .. c |-> g.nodes[i]]
    BY <1>1, <1>2, <2>1 DEF Uses
  <2>4. g.nodes[i] \in Range(g.nodes)
    BY <1>1 DEF Range
  <2>5. parts[i] \in Seq(Range(g.nodes)) /\ Len(parts[i]) = c
    BY <2>2, <2>3, <2>4
  <2>6. DOMAIN parts[i] = 1 .. c
    BY <2>3
  <2>7. \A n \in Range(parts[i]) : n = g.nodes[i]
    BY <2>3 DEF Range
  <2>8. c = 0 => Range(parts[i]) = {}
    BY <2>6 DEF Range
  <2> QED BY <2>1, <2>2, <2>5, <2>7, <2>8
<1>6. CASE Len(g.nodes) = 0
  <2>1. Readers(g, t) = {}
    BY <1>6 DEF Readers
  <2>2. parts = <<>>
    BY <1>1, <1>2, <1>6
  <2>3. Consumers(g, t) = <<>>
    BY <1>3, <1>4, <1>6, <2>2 DEF FlattenSeq
  <2>4. ConsumerCount(g, t) = 0
    BY <2>3 DEF ConsumerCount
  <2>5. Consumers(g, t) \in Seq(Range(g.nodes))
    BY <2>3
  <2>6. 1 .. Len(g.nodes) = {}
    BY <1>6
  <2> QED BY <2>1, <2>4, <2>5, <2>6
<1>7. CASE Len(g.nodes) # 0
  <2>1. PICK flat : flat = CHOOSE f : IsFlattening(f, parts)
    OBVIOUS
  <2>2. Len(parts) \in Nat \ {0}
    BY <1>1, <1>4, <1>7
  <2>3. IsFlattening(flat, parts)
    BY <2>1, <2>2, FlatteningDefined
  <2>4. FlattenSeq(parts) = flat[Len(parts)]
    BY <2>1, <2>2 DEF FlattenSeq, IsFlattening
  <2>5. PICK N : N = Len(parts)
    OBVIOUS
  <2>6. \A i \in 1 .. Len(parts) : parts[i] \in Seq(Range(g.nodes))
    BY <1>4, <1>5
  <2>7. IsJoin(flat[N], parts, Range(g.nodes), N)
    BY <2>2, <2>3, <2>5, <2>6, FlatteningHolds
  <2>8. /\ flat[N] \in Seq(Range(g.nodes))
        /\ \A i \in 1 .. N : Len(parts[i]) <= Len(flat[N])
        /\ \A i, j \in 1 .. N : i # j => Len(parts[i]) + Len(parts[j]) <= Len(flat[N])
        /\ \A p \in 1 .. Len(flat[N]) : \E i \in 1 .. N : flat[N][p] \in Range(parts[i])
    BY <2>7 DEF IsJoin
  <2>9. Consumers(g, t) = flat[N] /\ ConsumerCount(g, t) = Len(flat[N]) /\ Len(flat[N]) \in Nat
    BY <1>3, <2>4, <2>5, <2>8 DEF ConsumerCount
  <2>10. \A i \in Readers(g, t) : i \in 1 .. N /\ Len(parts[i]) \in Nat /\ Len(parts[i]) >= 1
    BY <1>4, <1>5, <2>5 DEF Readers
  <2>11. ASSUME NEW p \in 1 .. ConsumerCount(g, t)
         PROVE  \E i \in Readers(g, t) : Consumers(g, t)[p] = g.nodes[i]
    <3>1. PICK i \in 1 .. N : flat[N][p] \in Range(parts[i])
      BY <2>8, <2>9
    <3>2. i \in Readers(g, t) /\ flat[N][p] = g.nodes[i]
      BY <1>4, <1>5, <2>5, <3>1
    <3> QED BY <2>9, <3>2
  <2>12. ASSUME NEW i \in Readers(g, t) PROVE ConsumerCount(g, t) >= 1
    BY <2>8, <2>9, <2>10
  <2>13. ASSUME NEW i \in Readers(g, t), NEW j \in Readers(g, t), i # j PROVE ConsumerCount(g, t) >= 2
    <3>1. i \in 1 .. N /\ j \in 1 .. N /\ Len(parts[i]) >= 1 /\ Len(parts[j]) >= 1
          /\ Len(parts[i]) \in Nat /\ Len(parts[j]) \in Nat
      BY <2>10
    <3>2. Len(parts[i]) + Len(parts[j]) <= Len(flat[N])
      BY <2>8, <2>13, <3>1
    <3>3. PICK a : a = Len(parts[i])
      OBVIOUS
    <3>4. PICK b : b = Len(parts[j])
      OBVIOUS
    <3>5. PICK c : c = Len(flat[N])
      OBVIOUS
    <3>6. a \in Nat /\ b \in Nat /\ c \in Nat /\ a >= 1 /\ b >= 1 /\ a + b <= c
      BY <2>9, <3>1, <3>2, <3>3, <3>4, <3>5
    <3>7. c >= 2
      BY <3>6
    <3> QED BY <2>9, <3>5, <3>7
  <2>14. ASSUME NEW i \in 1 .. Len(g.nodes)
         PROVE  Cardinality(Uses(g.nodes[i], t)) <= ConsumerCount(g, t)
    BY <1>4, <1>5, <2>5, <2>8, <2>9
  <2> QED BY <2>8, <2>9, <2>11, <2>12, <2>13, <2>14
<1> QED BY <1>6, <1>7

\* Read by at most one: every reader is the one.
LEMMA SoleReader ==
  ASSUME NEW g, HasOps(g), NEW t, ConsumerCount(g, t) <= 1,
         NEW i \in Readers(g, t), NEW j \in Readers(g, t)
  PROVE  i = j
<1>1. /\ ConsumerCount(g, t) \in Nat
      /\ \A a, b \in Readers(g, t) : a # b => ConsumerCount(g, t) >= 2
  BY ConsumersAre
<1> QED BY <1>1

\* Two things that differ are two.
LEMMA PairCount ==
  ASSUME NEW a, NEW b, a # b
  PROVE  Cardinality({a, b}) = 2
<1>1. IsFiniteSet({b}) /\ Cardinality({b}) = 1
  BY FS_Singleton
<1>2. PICK B : B = {b}
  OBVIOUS
<1>3. a \notin B /\ IsFiniteSet(B) /\ Cardinality(B) = 1
  BY <1>1, <1>2
<1>4. Cardinality(B \cup {a}) = Cardinality(B) + 1
  BY <1>3, FS_AddElement
<1>5. {a, b} = B \cup {a}
  BY <1>2
<1>6. Cardinality(B \cup {a}) = 2
  BY ONLY <1>3, <1>4
<1> QED BY ONLY <1>5, <1>6

\* Read by at most one: it has it as one operand.
LEMMA SoleUse ==
  ASSUME NEW g, HasOps(g), NEW t, ConsumerCount(g, t) <= 1, NEW i \in 1 .. Len(g.nodes),
         NEW a \in DOMAIN g.nodes[i].inputs, g.nodes[i].inputs[a] = t,
         NEW b \in DOMAIN g.nodes[i].inputs, g.nodes[i].inputs[b] = t
  PROVE  a = b
<1> SUFFICES ASSUME a # b PROVE FALSE
  OBVIOUS
<1>1. PICK U : U = Uses(g.nodes[i], t)
  OBVIOUS
<1>2. Cardinality(U) <= ConsumerCount(g, t) /\ ConsumerCount(g, t) \in Nat
  BY <1>1, ConsumersAre
<1>3. DOMAIN g.nodes[i].inputs = 1 .. Len(g.nodes[i].inputs) /\ Len(g.nodes[i].inputs) \in Nat
  BY DEF HasOps, IsSequence
<1>4. IsFiniteSet(1 .. Len(g.nodes[i].inputs))
  <2>1. PICK n \in Nat : n = Len(g.nodes[i].inputs)
    BY <1>3
  <2>2. IsFiniteSet(1 .. n)
    BY FS_Interval
  <2> QED BY <2>1, <2>2
<1>5. U \subseteq 1 .. Len(g.nodes[i].inputs)
  BY <1>1, <1>3 DEF Uses
<1>6. IsFiniteSet(U) /\ Cardinality(U) \in Nat
  BY <1>4, <1>5, FS_Subset, FS_CardinalityType
<1>7. {a, b} \subseteq U
  BY <1>1 DEF Uses
<1>8. Cardinality({a, b}) <= Cardinality(U)
  BY <1>6, <1>7, FS_Subset
<1>9. Cardinality({a, b}) = 2
  BY PairCount
<1> QED BY <1>2, <1>6, <1>8, <1>9

\* The only consumer is the only reader.
LEMMA SoleConsumer ==
  ASSUME NEW g, HasOps(g), NEW t, ConsumerCount(g, t) = 1
  PROVE  \E i \in 1 .. Len(g.nodes) : Readers(g, t) = {i} /\ Consumers(g, t)[1] = g.nodes[i]
<1>1. PICK i \in Readers(g, t) : Consumers(g, t)[1] = g.nodes[i]
  <2>1. \A p \in 1 .. ConsumerCount(g, t) : \E i \in Readers(g, t) : Consumers(g, t)[p] = g.nodes[i]
    BY ConsumersAre
  <2>2. 1 \in 1 .. ConsumerCount(g, t)
    OBVIOUS
  <2> QED BY <2>1, <2>2
<1>2. \A j \in Readers(g, t) : j = i
  BY SoleReader
<1>3. Readers(g, t) = {i}
  BY <1>2
<1>4. i \in 1 .. Len(g.nodes)
  BY DEF Readers
<1> QED BY <1>1, <1>3, <1>4

--------------------------------------------------------------------------------
(* The passes that go over the operations one by one.                           *)

PatternStep(g, state, node) ==
  IF node.opcode = "UNSQUEEZE"
  THEN AddPermutation(state, node, SqueezedPermutation(g, node, OnlyReader(g, node.outputs[1])))
  ELSE state

StepOf(pass, g, state, node) ==
  CASE pass = "prune" -> PruneNode(state, node)
    [] pass = "pattern" -> PatternStep(g, state, node)
    [] pass = "conv2d_relu" -> ConvReluNode(state, node)
    [] pass = "sdpa_transpose" -> SdpaNode(state, node)
    [] pass = "swiglu" -> Visit(state, node, SwigluNode)
    [] pass = "bias_gelu" -> Visit(state, node, BiasGeluNode)

\* walk[k] is the state when k operations have been seen.
IsPass(walk, pass, g, start) ==
  walk = [k \in 0 .. Len(g.nodes) |->
            IF k = 0 THEN start ELSE StepOf(pass, g, walk[k - 1], g.nodes[k])]

\* There is such a function.
LEMMA PassDefined ==
  ASSUME NEW pass, NEW g, NEW start, Len(g.nodes) \in Nat
  PROVE  \E walk : IsPass(walk, pass, g, start)
<1> DEFINE First(f, k) == f = [n \in 0 .. k |-> IF n = 0 THEN start
                                                ELSE StepOf(pass, g, f[n - 1], g.nodes[n])]
           S == {k \in Nat : \E f : First(f, k)}
<1>1. 0 \in S
  <2> DEFINE f == [n \in 0 .. 0 |-> start]
  <2>1. f = [n \in 0 .. 0 |-> IF n = 0 THEN start ELSE StepOf(pass, g, f[n - 1], g.nodes[n])]
    OBVIOUS
  <2> HIDE DEF f
  <2> QED BY <2>1
<1>2. ASSUME NEW k \in Nat, k < Len(g.nodes), k \in S PROVE k + 1 \in S
  <2>1. PICK f : First(f, k)
    BY <1>2
  <2> DEFINE h == [n \in 0 .. (k + 1) |-> IF n = 0 THEN start
                                          ELSE StepOf(pass, g, f[n - 1], g.nodes[n])]
  <2>2. ASSUME NEW n \in 0 .. (k + 1), n # 0 PROVE f[n - 1] = h[n - 1]
    <3>1. n - 1 \in 0 .. k /\ n - 1 \in 0 .. (k + 1)
      BY <2>2
    <3>2. f[n - 1] = IF n - 1 = 0 THEN start ELSE StepOf(pass, g, f[(n - 1) - 1], g.nodes[n - 1])
      BY <2>1, <3>1
    <3>3. h[n - 1] = IF n - 1 = 0 THEN start ELSE StepOf(pass, g, f[(n - 1) - 1], g.nodes[n - 1])
      BY <3>1
    <3> QED BY <3>2, <3>3
  <2>3. h = [n \in 0 .. (k + 1) |-> IF n = 0 THEN start
                                    ELSE StepOf(pass, g, h[n - 1], g.nodes[n])]
    <3>1. \A n \in 0 .. (k + 1) :
            (IF n = 0 THEN start ELSE StepOf(pass, g, f[n - 1], g.nodes[n]))
            = (IF n = 0 THEN start ELSE StepOf(pass, g, h[n - 1], g.nodes[n]))
      <4> TAKE n \in 0 .. (k + 1)
      <4>1. CASE n = 0
        BY <4>1
      <4>2. CASE n # 0
        <5>1. f[n - 1] = h[n - 1]
          BY <2>2, <4>2
        <5> HIDE DEF h
        <5> QED BY <5>1
      <4> QED BY <4>1, <4>2
    <3> QED BY <3>1
  <2> HIDE DEF h
  <2> QED BY <2>3
<1>3. Len(g.nodes) \in S
  <2>1. \A n \in Nat : n < Len(g.nodes) /\ n \in S => n + 1 \in S
    BY <1>2
  <2>2. Len(g.nodes) \in 0 .. Len(g.nodes)
    OBVIOUS
  <2> HIDE DEF S
  <2> QED BY <1>1, <2>1, <2>2, UpTo
<1> QED BY <1>3 DEF IsPass

\* One step of it.
LEMMA PassStep ==
  ASSUME NEW pass, NEW g, NEW start, Len(g.nodes) \in Nat, NEW walk, IsPass(walk, pass, g, start)
  PROVE  /\ walk[0] = start
         /\ \A k \in 1 .. Len(g.nodes) : walk[k] = StepOf(pass, g, walk[k - 1], g.nodes[k])
BY DEF IsPass

--------------------------------------------------------------------------------
(* Pruning                                                                      *)

PruneStart(g) == [graph |-> Emptied(g), remap |-> <<>>]

IsPrune(prune, g) ==
  prune = [k \in 0 .. Len(g.nodes) |->
             IF k = 0 THEN PruneStart(g) ELSE PruneNode(prune[k - 1], g.nodes[k])]

\* There is such a function, and PrunedGraph is made of its last value.
LEMMA PruneDefined ==
  ASSUME NEW g, Len(g.nodes) \in Nat
  PROVE  \E prune : IsPrune(prune, g) /\ PrunedGraph(g) = WithNamesReplaced(prune[Len(g.nodes)])
<1>1. PICK prune : prune = CHOOSE f : IsPrune(f, g)
  OBVIOUS
<1>2. PICK walk : IsPass(walk, "prune", g, PruneStart(g))
  BY PassDefined
<1>3. IsPrune(walk, g)
  BY <1>2 DEF IsPass, IsPrune, StepOf
<1>4. IsPrune(prune, g)
  BY <1>1, <1>3
<1>5. PrunedGraph(g) = WithNamesReplaced(prune[Len(g.nodes)])
  BY <1>1 DEF PrunedGraph, OverNodes, IsPrune, PruneStart, Emptied
<1> QED BY <1>4, <1>5

\* Where it prunes.
IsPrunedAt(prune, g, i) ==
  /\ IsIdentity(prune[i - 1].graph, g.nodes[i])
  /\ ~IsOutputOrState(prune[i - 1].graph, g.nodes[i].outputs[1])

\* The state of the walk is made of what it should be.
IsPruneState(s, g) == DOMAIN s = {"graph", "remap"} /\ IsRewriting(s.graph, g)

Adapted(g, node) ==
  IF node.opcode = "CAST" /\ IsAdaptedInput(g, node)
  THEN [g EXCEPT !.tensors[Operand(node, 1)].dtype = g.tensors[node.outputs[1]].dtype]
  ELSE g

GraphFields == {"nodes", "tensors", "inputs", "outputs", "states"}

\* Adapting an input's type keeps all but the type.
LEMMA AdaptedState ==
  ASSUME NEW g, GraphFields \subseteq DOMAIN g, NEW x, IsRewriting(x, g), NEW node,
         NEW h, h = Adapted(x, node)
  PROVE  IsRewriting(h, g) /\ h.nodes = x.nodes
<1>1. CASE ~(node.opcode = "CAST" /\ IsAdaptedInput(x, node))
  BY <1>1 DEF Adapted
<1>2. CASE node.opcode = "CAST" /\ IsAdaptedInput(x, node)
  <2>1. PICK u : u = Operand(node, 1)
    OBVIOUS
  <2>2. PICK d : d = x.tensors[node.outputs[1]].dtype
    OBVIOUS
  <2>3. h = [x EXCEPT !.tensors[u].dtype = d]
    BY <1>2, <2>1, <2>2 DEF Adapted
  <2>4. DOMAIN x = DOMAIN g /\ HasFields(x)
    BY DEF IsRewriting
  <2>5. /\ DOMAIN h = DOMAIN x /\ h.nodes = x.nodes /\ h.inputs = x.inputs
        /\ h.outputs = x.outputs /\ h.states = x.states
        /\ h.tensors = [x.tensors EXCEPT ![u].dtype = d]
    BY <2>3, <2>4 DEF GraphFields
  <2>6. /\ DOMAIN h.tensors = DOMAIN x.tensors
        /\ \A t \in DOMAIN x.tensors : /\ DOMAIN h.tensors[t] = DOMAIN x.tensors[t]
                                       /\ h.tensors[t].data = x.tensors[t].data
                                       /\ h.tensors[t].storage = x.tensors[t].storage
                                       /\ h.tensors[t].shape = x.tensors[t].shape
    BY <2>4, <2>5 DEF HasFields
  <2>7. HasFields(h)
    BY <2>4, <2>6 DEF HasFields
  <2> QED BY <2>5, <2>6, <2>7 DEF IsRewriting
<1> QED BY <1>1, <1>2

\* One operation: it is pruned or kept.
Prunes(s, node) == IsIdentity(s.graph, node) /\ ~IsOutputOrState(s.graph, node.outputs[1])

IsPrunedTo(s, node, r) ==
  /\ r.graph.nodes = s.graph.nodes
  /\ r.remap = With(s.remap, node.outputs[1], Renamed(s.remap, Operand(node, 1)))

IsKeptTo(s, node, r) ==
  r.graph.nodes = Append(s.graph.nodes, node) /\ r.remap = s.remap

\* One operation, from any state.
LEMMA PruneNodeParts ==
  ASSUME NEW g, GraphFields \subseteq DOMAIN g, NEW s, IsPruneState(s, g), NEW node,
         NEW r, r = PruneNode(s, node)
  PROVE  /\ IsPruneState(r, g)
         /\ Prunes(s, node) => IsPrunedTo(s, node, r)
         /\ ~Prunes(s, node) => IsKeptTo(s, node, r)
<1>1. PICK h : h = Adapted(s.graph, node)
  OBVIOUS
<1>2. DOMAIN s = {"graph", "remap"} /\ IsRewriting(s.graph, g)
  BY DEF IsPruneState
<1>3. IsRewriting(h, g) /\ h.nodes = s.graph.nodes
  BY <1>1, <1>2, AdaptedState
<1>4. CASE Prunes(s, node)
  <2>1. r = [s EXCEPT !.graph = h,
               !.remap = With(s.remap, node.outputs[1], Renamed(s.remap, Operand(node, 1)))]
    BY <1>1, <1>4 DEF PruneNode, Adapted, Prunes
  <2>2. DOMAIN r = {"graph", "remap"} /\ r.graph = h
        /\ r.remap = With(s.remap, node.outputs[1], Renamed(s.remap, Operand(node, 1)))
    BY <1>2, <2>1
  <2>3. IsPruneState(r, g)
    BY <1>3, <2>2 DEF IsPruneState
  <2>4. IsPrunedTo(s, node, r)
    BY <1>3, <2>2 DEF IsPrunedTo
  <2> QED BY <1>4, <2>3, <2>4
<1>5. CASE ~Prunes(s, node)
  <2>1. r = [s EXCEPT !.graph = [h EXCEPT !.nodes = Append(h.nodes, node)]]
    BY <1>1, <1>5 DEF PruneNode, Adapted, Prunes
  <2>2. PICK z : z = [h EXCEPT !.nodes = Append(h.nodes, node)]
    OBVIOUS
  <2>3. /\ DOMAIN z = DOMAIN h /\ z.nodes = Append(h.nodes, node) /\ z.tensors = h.tensors
        /\ z.inputs = h.inputs /\ z.outputs = h.outputs /\ z.states = h.states
    BY <1>3, <2>2 DEF IsRewriting, GraphFields
  <2>4. DOMAIN r = {"graph", "remap"} /\ r.graph = z /\ r.remap = s.remap
    BY <1>2, <2>1, <2>2
  <2>5. IsRewriting(z, g)
    BY <1>3, <2>3 DEF IsRewriting, HasFields
  <2>6. IsPruneState(r, g)
    BY <2>4, <2>5 DEF IsPruneState
  <2>7. IsKeptTo(s, node, r)
    BY <1>3, <2>3, <2>4 DEF IsKeptTo
  <2> QED BY <1>5, <2>6, <2>7
<1> QED BY <1>4, <1>5

\* One step of the walk.
LEMMA PruneSteps ==
  ASSUME NEW g, IsRegular(g), NEW prune, IsPrune(prune, g)
  PROVE  /\ prune[0] = PruneStart(g)
         /\ \A k \in 1 .. Len(g.nodes) : prune[k] = PruneNode(prune[k - 1], g.nodes[k])
<1>1. Len(g.nodes) \in Nat
  BY RegularParts
<1> QED BY <1>1 DEF IsPrune

\* Every state of the walk is made so.
LEMMA PruneStates ==
  ASSUME NEW g, IsRegular(g), NEW prune, IsPrune(prune, g)
  PROVE  \A k \in 0 .. Len(g.nodes) : IsPruneState(prune[k], g)
<1>1. IsExecutable(g) /\ HasFields(g) /\ Len(g.nodes) \in Nat
  BY RegularParts DEF IsRegular
<1>2. GraphFields \subseteq DOMAIN g
  BY <1>1 DEF IsExecutable, GraphFields
<1> DEFINE Good == {k \in Nat : IsPruneState(prune[k], g)}
<1>3. 0 \in Good
  <2>1. prune[0] = PruneStart(g)
    BY PruneSteps
  <2>2. PICK e : e = Emptied(g)
    OBVIOUS
  <2>3. /\ DOMAIN e = DOMAIN g /\ e.tensors = g.tensors /\ e.inputs = g.inputs
        /\ e.outputs = g.outputs /\ e.states = g.states
    BY <1>2, <2>2 DEF Emptied, GraphFields
  <2>4. DOMAIN prune[0] = {"graph", "remap"} /\ prune[0].graph = e
    BY <2>1, <2>2 DEF PruneStart
  <2>5. IsRewriting(e, g)
    BY <1>1, <2>3 DEF IsRewriting, HasFields
  <2>6. IsPruneState(prune[0], g)
    BY <2>4, <2>5 DEF IsPruneState
  <2> QED BY <2>6
<1>4. ASSUME NEW n \in Nat, n < Len(g.nodes), n \in Good PROVE n + 1 \in Good
  <2>1. PICK k : k = n + 1
    OBVIOUS
  <2>2. k \in 1 .. Len(g.nodes) /\ k - 1 = n /\ k \in Nat
    BY <1>1, <1>4, <2>1
  <2>3. prune[k] = PruneNode(prune[n], g.nodes[k])
    BY <2>2, PruneSteps
  <2>4. IsPruneState(prune[n], g)
    BY <1>4
  <2>5. IsPruneState(prune[k], g)
    BY <1>2, <2>3, <2>4, PruneNodeParts
  <2> QED BY <2>1, <2>2, <2>5
<1>5. \A n \in 0 .. Len(g.nodes) : n \in Good
  <2>1. \A n \in Nat : n < Len(g.nodes) /\ n \in Good => n + 1 \in Good
    BY <1>4
  <2> HIDE DEF Good
  <2> QED BY <1>1, <1>3, <2>1, UpTo
<1> QED BY <1>5

\* One operation of the walk.
LEMMA PruneStep ==
  ASSUME NEW g, IsRegular(g), NEW prune, IsPrune(prune, g), NEW k \in 1 .. Len(g.nodes)
  PROVE  /\ IsPrunedAt(prune, g, k) => IsPrunedTo(prune[k - 1], g.nodes[k], prune[k])
         /\ ~IsPrunedAt(prune, g, k) => IsKeptTo(prune[k - 1], g.nodes[k], prune[k])
<1>1. IsExecutable(g) /\ Len(g.nodes) \in Nat
  BY RegularParts
<1>2. GraphFields \subseteq DOMAIN g
  BY <1>1 DEF IsExecutable, GraphFields
<1>3. PICK s : s = prune[k - 1]
  OBVIOUS
<1>4. k - 1 \in 0 .. Len(g.nodes)
  BY <1>1
<1>5. IsPruneState(s, g)
  BY <1>3, <1>4, PruneStates
<1>6. prune[k] = PruneNode(s, g.nodes[k])
  BY <1>3, PruneSteps
<1>7. IsPrunedAt(prune, g, k) <=> Prunes(s, g.nodes[k])
  BY <1>3 DEF IsPrunedAt, Prunes
<1>8. /\ Prunes(s, g.nodes[k]) => IsPrunedTo(s, g.nodes[k], prune[k])
      /\ ~Prunes(s, g.nodes[k]) => IsKeptTo(s, g.nodes[k], prune[k])
  BY <1>2, <1>5, <1>6, PruneNodeParts
<1> QED BY <1>3, <1>7, <1>8

Unpruned(prune, g) == {i \in 1 .. Len(g.nodes) : ~IsPrunedAt(prune, g, i)}

UnprunedNodes(prune, g) == {g.nodes[i] : i \in Unpruned(prune, g)}

\* What pruning leaves is filtered.
LEMMA PruningLeaves ==
  ASSUME NEW g, IsRegular(g), NEW prune, IsPrune(prune, g), NEW upto,
         upto = [k \in 0 .. Len(g.nodes) |-> prune[k].graph.nodes]
  PROVE  IsFilter(upto, g.nodes, UnprunedNodes(prune, g))
<1>1. IsExecutable(g) /\ Len(g.nodes) \in Nat
  BY RegularParts
<1>2. \A k \in 0 .. Len(g.nodes) :
        upto[k] = IF k = 0 THEN <<>>
                  ELSE IF g.nodes[k] \in UnprunedNodes(prune, g) THEN Append(upto[k - 1], g.nodes[k])
                  ELSE upto[k - 1]
  <2> TAKE k \in 0 .. Len(g.nodes)
  <2>1. CASE k = 0
    <3>1. prune[0] = PruneStart(g)
      BY PruneSteps
    <3>2. "nodes" \in DOMAIN g
      BY <1>1 DEF IsExecutable
    <3>3. prune[0].graph.nodes = <<>>
      BY <3>1, <3>2 DEF PruneStart, Emptied
    <3> QED BY <2>1, <3>3
  <2>2. CASE k # 0
    <3>1. k \in 1 .. Len(g.nodes)
      BY <1>1, <2>2
    <3>2. PICK n : n = k - 1
      OBVIOUS
    <3>3. n \in 0 .. Len(g.nodes)
      BY <1>1, <3>1, <3>2
    <3>4. /\ IsPrunedAt(prune, g, k) => IsPrunedTo(prune[n], g.nodes[k], prune[k])
          /\ ~IsPrunedAt(prune, g, k) => IsKeptTo(prune[n], g.nodes[k], prune[k])
      BY <3>1, <3>2, PruneStep
    <3>5. /\ IsPrunedAt(prune, g, k) => prune[k].graph.nodes = prune[n].graph.nodes
          /\ ~IsPrunedAt(prune, g, k) => prune[k].graph.nodes = Append(prune[n].graph.nodes, g.nodes[k])
      BY <3>4 DEF IsPrunedTo, IsKeptTo
    <3>6. g.nodes[k] \in UnprunedNodes(prune, g) <=> ~IsPrunedAt(prune, g, k)
      BY <1>1, <3>1, IdsDiffer DEF UnprunedNodes, Unpruned
    <3> QED BY <2>2, <3>2, <3>3, <3>5, <3>6
  <2> QED BY <2>1, <2>2
<1>3. upto = [k \in 0 .. Len(g.nodes) |-> upto[k]]
  OBVIOUS
<1> QED BY <1>2, <1>3 DEF IsFilter

\* And so listed.
LEMMA PrunedListing ==
  ASSUME NEW g, IsRegular(g), NEW prune, IsPrune(prune, g)
  PROVE  \E place : IsListing(prune[Len(g.nodes)].graph.nodes, g.nodes, Unpruned(prune, g), place)
<1>1. IsExecutable(g)
  BY RegularParts
<1>2. g.nodes \in Seq(Range(g.nodes)) /\ Len(g.nodes) \in Nat
  BY <1>1, ExecutableParts
<1>3. PICK upto : upto = [k \in 0 .. Len(g.nodes) |-> prune[k].graph.nodes]
  OBVIOUS
<1>4. IsFilter(upto, g.nodes, UnprunedNodes(prune, g))
  BY <1>3, PruningLeaves
<1>5. PICK X : X = Unpruned(prune, g)
  OBVIOUS
<1>6. X = {i \in 1 .. Len(g.nodes) : g.nodes[i] \in UnprunedNodes(prune, g)}
  BY <1>1, <1>5, IdsDiffer DEF Unpruned, UnprunedNodes
<1>7. IsListing(upto[Len(g.nodes)], g.nodes, X, [i \in X |-> Len(upto[i])])
  BY <1>2, <1>4, <1>6, FilterListing
<1>8. upto[Len(g.nodes)] = prune[Len(g.nodes)].graph.nodes
  BY <1>2, <1>3
<1> QED BY <1>5, <1>7, <1>8

\* With operands renamed.
RenamedOps(remap, ops) == [i \in DOMAIN ops |-> RenamedNode(remap, ops[i])]

\* With names replaced it is listed too.
LEMMA RenamingListing ==
  ASSUME NEW list, NEW ops, NEW X, NEW place, IsListing(list, ops, X, place), X \subseteq DOMAIN ops,
         NEW remap
  PROVE  IsListing(RenamedOps(remap, list), RenamedOps(remap, ops), X, place)
<1>1. PICK l : l = RenamedOps(remap, list)
  OBVIOUS
<1>2. PICK o : o = RenamedOps(remap, ops)
  OBVIOUS
<1>3. Len(list) \in Nat /\ DOMAIN list = 1 .. Len(list)
  BY DEF IsListing, IsSequence
<1>4. l = [i \in 1 .. Len(list) |-> RenamedNode(remap, list[i])]
  BY <1>1, <1>3 DEF RenamedOps
<1>5. l \in Seq({RenamedNode(remap, list[i]) : i \in 1 .. Len(list)}) /\ Len(l) = Len(list)
  BY <1>3, <1>4
<1>6. IsSequence(l)
  BY <1>5, SequenceOfRange
<1>7. ASSUME NEW i \in X PROVE place[i] \in 1 .. Len(l) /\ l[place[i]] = o[i]
  <2>1. place[i] \in 1 .. Len(list) /\ list[place[i]] = ops[i] /\ i \in DOMAIN ops
    BY DEF IsListing
  <2> QED BY <1>2, <1>4, <1>5, <2>1 DEF RenamedOps
<1>8. \A p \in 1 .. Len(l) : \E i \in X : place[i] = p
  BY <1>5 DEF IsListing
<1>9. \A i, j \in X : i < j => place[i] < place[j]
  BY DEF IsListing
<1>10. IsListing(l, o, X, place)
  BY <1>3, <1>5, <1>6, <1>7, <1>8, <1>9 DEF IsListing
<1> QED BY <1>1, <1>2, <1>10

\* What is pruned has one operand.
LEMMA PrunedOperand ==
  ASSUME NEW g, IsRegular(g), NEW prune, NEW i \in 1 .. Len(g.nodes), IsPrunedAt(prune, g, i)
  PROVE  Operand(g.nodes[i], 1) \in Range(g.nodes[i].inputs)
<1>1. g.nodes[i].opcode \in UnaryOps
  BY DEF IsPrunedAt, IsIdentity, UnaryOps
<1>2. Len(g.nodes[i].inputs) = 1 /\ IsSequence(g.nodes[i].inputs)
  BY <1>1, RegularNode DEF IsRegularOp
<1>3. 1 \in DOMAIN g.nodes[i].inputs
  BY <1>2 DEF IsSequence
<1> QED BY <1>3 DEF Operand, Range

\* Given, or the result of an operation before i that stays.
IsSettled(prune, g, i, u) ==
  u \in GivenTensors(g) \/ \E j \in Unpruned(prune, g) : j < i /\ u = g.nodes[j].outputs[1]

IsRemap(prune, g, k) ==
  /\ DOMAIN prune[k].remap = {g.nodes[i].outputs[1] : i \in {i \in 1 .. k : IsPrunedAt(prune, g, i)}}
  /\ \A i \in 1 .. k : IsPrunedAt(prune, g, i) =>
       IsSettled(prune, g, i, prune[k].remap[g.nodes[i].outputs[1]])

\* So is every operand, under its new name.
LEMMA RenamedSettled ==
  ASSUME NEW g, IsRegular(g), NEW prune, NEW k \in 0 .. Len(g.nodes), IsRemap(prune, g, k),
         NEW i \in 1 .. Len(g.nodes), i <= k + 1, NEW u \in Range(g.nodes[i].inputs)
  PROVE  IsSettled(prune, g, i, Renamed(prune[k].remap, u))
<1>1. IsExecutable(g) /\ Len(g.nodes) \in Nat
  BY RegularParts
<1>2. u \in KnownBefore(g, i)
  BY <1>1, ExecutableParts
<1>3. CASE u \in GivenTensors(g)
  <2>1. ASSUME NEW j \in 1 .. k, u = g.nodes[j].outputs[1] PROVE FALSE
    <3>1. j \in 1 .. Len(g.nodes)
      BY <1>1
    <3>2. u \in Range(g.nodes[j].outputs)
      BY <1>1, <2>1, <3>1, FirstResult
    <3>3. u \in KnownBefore(g, j)
      BY <1>3, KnownBeforeIs
    <3> QED BY <1>1, <3>1, <3>2, <3>3, ExecutableParts
  <2>2. u \notin DOMAIN prune[k].remap
    BY <2>1 DEF IsRemap
  <2> QED BY <1>3, <2>2 DEF Renamed, IsSettled
<1>4. CASE u \notin GivenTensors(g)
  <2>1. PICK j \in 1 .. i - 1 : u \in Range(g.nodes[j].outputs)
    BY <1>2, <1>4, KnownBeforeIs
  <2>2. j \in 1 .. Len(g.nodes) /\ j < i /\ j \in 1 .. k
    BY <1>1, <2>1
  <2>3. u = g.nodes[j].outputs[1]
    BY <2>1, <2>2, OneResult
  <2>4. CASE IsPrunedAt(prune, g, j)
    <3>1. u \in DOMAIN prune[k].remap
      BY <2>2, <2>3, <2>4 DEF IsRemap
    <3>2. IsSettled(prune, g, j, prune[k].remap[u])
      BY <2>2, <2>3, <2>4 DEF IsRemap
    <3>3. IsSettled(prune, g, i, prune[k].remap[u])
      BY <1>1, <2>2, <3>2 DEF IsSettled, Unpruned
    <3> QED BY <3>1, <3>3 DEF Renamed
  <2>5. CASE ~IsPrunedAt(prune, g, j)
    <3>1. ASSUME NEW m \in 1 .. k, u = g.nodes[m].outputs[1], IsPrunedAt(prune, g, m) PROVE FALSE
      <4>1. m \in 1 .. Len(g.nodes)
        BY <1>1
      <4>2. m = j
        BY <1>1, <2>2, <2>3, <3>1, <4>1, ResultsDiffer
      <4> QED BY <2>5, <3>1, <4>2
    <3>2. u \notin DOMAIN prune[k].remap
      BY <3>1 DEF IsRemap
    <3>3. j \in Unpruned(prune, g)
      BY <2>2, <2>5 DEF Unpruned
    <3> QED BY <2>2, <2>3, <3>2, <3>3 DEF Renamed, IsSettled
  <2> QED BY <2>4, <2>5
<1> QED BY <1>3, <1>4

\* Names of what is pruned lead to what stays, or is given.
LEMMA Remaps ==
  ASSUME NEW g, IsRegular(g), NEW prune, IsPrune(prune, g)
  PROVE  \A k \in 0 .. Len(g.nodes) : IsRemap(prune, g, k)
<1>1. IsExecutable(g) /\ Len(g.nodes) \in Nat
  BY RegularParts
<1> DEFINE Good == {k \in Nat : IsRemap(prune, g, k)}
<1>2. 0 \in Good
  <2>1. prune[0] = PruneStart(g)
    BY PruneSteps
  <2>2. DOMAIN prune[0].remap = {}
    BY <2>1 DEF PruneStart
  <2>3. IsRemap(prune, g, 0)
    BY <2>2 DEF IsRemap
  <2> QED BY <2>3
<1>3. ASSUME NEW n \in Nat, n < Len(g.nodes), n \in Good PROVE n + 1 \in Good
  <2>1. PICK k : k = n + 1
    OBVIOUS
  <2>2. k \in 1 .. Len(g.nodes) /\ k - 1 = n /\ k \in Nat /\ n \in 0 .. Len(g.nodes)
    BY <1>1, <1>3, <2>1
  <2>3. /\ IsPrunedAt(prune, g, k) => IsPrunedTo(prune[k - 1], g.nodes[k], prune[k])
        /\ ~IsPrunedAt(prune, g, k) => IsKeptTo(prune[k - 1], g.nodes[k], prune[k])
    BY <2>2, PruneStep
  <2>4. IsRemap(prune, g, n)
    BY <1>3
  <2>5. \A i \in 1 .. k : i \in 1 .. n \/ i = k
    BY <2>1
  <2>6. 1 .. n \subseteq 1 .. k
    BY <2>1
  <2>7. CASE ~IsPrunedAt(prune, g, k)
    <3>1. prune[k].remap = prune[n].remap
      BY <2>2, <2>3, <2>7 DEF IsKeptTo
    <3>2. {i \in 1 .. k : IsPrunedAt(prune, g, i)} = {i \in 1 .. n : IsPrunedAt(prune, g, i)}
      BY <2>5, <2>6, <2>7
    <3>3. IsRemap(prune, g, k)
      BY <2>4, <2>5, <2>7, <3>1, <3>2 DEF IsRemap
    <3> QED BY <2>1, <2>2, <3>3
  <2>8. CASE IsPrunedAt(prune, g, k)
    <3>1. PICK o : o = g.nodes[k].outputs[1]
      OBVIOUS
    <3>2. PICK v : v = Renamed(prune[n].remap, Operand(g.nodes[k], 1))
      OBVIOUS
    <3>3. prune[k].remap = With(prune[n].remap, o, v)
      BY <2>2, <2>3, <2>8, <3>1, <3>2 DEF IsPrunedTo
    <3>4. /\ DOMAIN prune[k].remap = DOMAIN prune[n].remap \cup {o} /\ prune[k].remap[o] = v
          /\ \A t \in DOMAIN prune[n].remap : t # o => prune[k].remap[t] = prune[n].remap[t]
      BY <3>3 DEF With
    <3>5. DOMAIN prune[n].remap
            = {g.nodes[i].outputs[1] : i \in {i \in 1 .. n : IsPrunedAt(prune, g, i)}}
      BY <2>4 DEF IsRemap
    <3>6. {i \in 1 .. k : IsPrunedAt(prune, g, i)} = {i \in 1 .. n : IsPrunedAt(prune, g, i)} \cup {k}
      BY <2>2, <2>5, <2>6, <2>8
    <3>7. DOMAIN prune[k].remap
            = {g.nodes[i].outputs[1] : i \in {i \in 1 .. k : IsPrunedAt(prune, g, i)}}
      BY <3>1, <3>4, <3>5, <3>6
    <3>8. Operand(g.nodes[k], 1) \in Range(g.nodes[k].inputs)
      BY <2>2, <2>8, PrunedOperand
    <3>9. IsSettled(prune, g, k, v)
      <4>1. PICK u \in Range(g.nodes[k].inputs) : u = Operand(g.nodes[k], 1)
        BY <3>8
      <4>2. k <= n + 1
        BY <2>1
      <4>3. IsSettled(prune, g, k, Renamed(prune[n].remap, u))
        BY <2>2, <2>4, <4>2, RenamedSettled
      <4> QED BY <3>2, <4>1, <4>3
    <3>10. ASSUME NEW i \in 1 .. k, IsPrunedAt(prune, g, i)
           PROVE  IsSettled(prune, g, i, prune[k].remap[g.nodes[i].outputs[1]])
      <4>1. CASE i = k
        BY <3>1, <3>4, <3>9, <4>1
      <4>2. CASE i \in 1 .. n
        <5>1. IsSettled(prune, g, i, prune[n].remap[g.nodes[i].outputs[1]])
          BY <2>4, <3>10, <4>2 DEF IsRemap
        <5>2. g.nodes[i].outputs[1] \in DOMAIN prune[n].remap
          BY <3>5, <3>10, <4>2
        <5>3. g.nodes[i].outputs[1] # o
          <6>1. i \in 1 .. Len(g.nodes) /\ i # k
            BY <1>1, <2>1, <2>2, <4>2
          <6> QED BY <1>1, <2>2, <3>1, <6>1, ResultsDiffer
        <5> QED BY <3>4, <5>1, <5>2, <5>3
      <4> QED BY <2>5, <4>1, <4>2
    <3>11. IsRemap(prune, g, k)
      BY <3>7, <3>10 DEF IsRemap
    <3> QED BY <2>1, <2>2, <3>11
  <2> QED BY <2>7, <2>8
<1>4. \A n \in 0 .. Len(g.nodes) : n \in Good
  <2>1. \A n \in Nat : n < Len(g.nodes) /\ n \in Good => n + 1 \in Good
    BY <1>3
  <2> HIDE DEF Good
  <2> QED BY <1>1, <1>2, <2>1, UpTo
<1> QED BY <1>4

\* An operation with its operands renamed.
IsRenaming(r, n, remap) ==
  /\ IsRegularOp(r) /\ r.outputs = n.outputs /\ r.id = n.id /\ r.opcode = n.opcode
  /\ Len(r.inputs) = Len(n.inputs)
  /\ \A k \in DOMAIN n.inputs : r.inputs[k] = Renamed(remap, n.inputs[k])
  /\ \A t \in Range(r.inputs) : \E u \in Range(n.inputs) : t = Renamed(remap, u)

\* Renaming is that.
LEMMA RenamedParts ==
  ASSUME NEW n, IsRegularOp(n), NEW remap
  PROVE  IsRenaming(RenamedNode(remap, n), n, remap)
<1>0. PICK r : r = RenamedNode(remap, n)
  OBVIOUS
<1>1. OpFields \subseteq DOMAIN n /\ IsSequence(n.inputs) /\ IsSequence(n.outputs)
  BY DEF IsRegularOp, IsOp
<1>2. /\ DOMAIN r = DOMAIN n /\ r.outputs = n.outputs /\ r.id = n.id /\ r.opcode = n.opcode
      /\ r.inputs = [k \in DOMAIN n.inputs |-> Renamed(remap, n.inputs[k])]
  BY <1>0, <1>1 DEF RenamedNode, OpFields
<1>3. DOMAIN n.inputs = 1 .. Len(n.inputs) /\ Len(n.inputs) \in Nat
  BY <1>1 DEF IsSequence
<1>4. r.inputs \in Seq({Renamed(remap, n.inputs[k]) : k \in 1 .. Len(n.inputs)})
      /\ Len(r.inputs) = Len(n.inputs)
  BY <1>2, <1>3
<1>5. IsSequence(r.inputs)
  BY <1>4, SequenceOfRange
<1>6. IsRegularOp(r)
  BY <1>1, <1>2, <1>4, <1>5 DEF IsRegularOp, IsOp
<1>7. \A t \in Range(r.inputs) : \E u \in Range(n.inputs) : t = Renamed(remap, u)
  BY <1>2 DEF Range
<1> QED BY <1>0, <1>2, <1>4, <1>6, <1>7 DEF IsRenaming

\* What the pruning leaves.
IsPrunedGraph(h, g, prune, ops, X, src, place) ==
  /\ IsPrune(prune, g) /\ IsRewriting(h, g)
  /\ X = Unpruned(prune, g) /\ ops = RenamedOps(prune[Len(g.nodes)].remap, g.nodes)
  /\ Rearranges(g, ops, X, src) /\ ReadsBefore(g, ops, X)
  /\ IsListing(h.nodes, ops, X, place) /\ \A i \in X : IsNodeOf(g, ops[i])

\* Pruning is that.
LEMMA PruningIs ==
  ASSUME NEW g, IsRegular(g)
  PROVE  \E prune, ops, X, src, place : IsPrunedGraph(PrunedGraph(g), g, prune, ops, X, src, place)
<1>1. IsExecutable(g) /\ NamesExist(g) /\ Len(g.nodes) \in Nat /\ DOMAIN g.nodes = 1 .. Len(g.nodes)
  BY RegularParts
<1>2. PICK prune : IsPrune(prune, g) /\ PrunedGraph(g) = WithNamesReplaced(prune[Len(g.nodes)])
  BY <1>1, PruneDefined
<1>3. PICK N : N = Len(g.nodes)
  OBVIOUS
<1>4. PICK remap : remap = prune[N].remap
  OBVIOUS
<1>5. PICK x : x = prune[N].graph
  OBVIOUS
<1>6. N \in 0 .. Len(g.nodes)
  BY <1>1, <1>3
<1>7. IsPruneState(prune[N], g)
  BY <1>2, <1>6, PruneStates
<1>8. PICK h : h = PrunedGraph(g)
  OBVIOUS
<1>9. IsRewriting(x, g)
  BY <1>5, <1>7 DEF IsPruneState
<1>10. h = [x EXCEPT !.nodes = RenamedOps(remap, x.nodes)]
  <2>1. PICK p : p = prune[N]
    OBVIOUS
  <2>2. h = WithNamesReplaced(p)
    BY <1>2, <1>3, <1>8, <2>1
  <2>3. WithNamesReplaced(p) = [p.graph EXCEPT !.nodes = RenamedOps(p.remap, p.graph.nodes)]
    BY DEF WithNamesReplaced, RenamedOps
  <2> QED BY <1>4, <1>5, <2>1, <2>2, <2>3
<1>11. {"nodes", "tensors", "inputs", "outputs", "states"} \subseteq DOMAIN x
  BY <1>1, <1>9 DEF IsExecutable, IsRewriting
<1>12. /\ DOMAIN h = DOMAIN x /\ h.nodes = RenamedOps(remap, x.nodes) /\ h.tensors = x.tensors
       /\ h.inputs = x.inputs /\ h.outputs = x.outputs /\ h.states = x.states
  BY <1>10, <1>11
<1>13. IsRewriting(h, g)
  BY <1>9, <1>12 DEF IsRewriting, HasFields
<1>14. PICK X : X = Unpruned(prune, g)
  OBVIOUS
<1>15. PICK ops : ops = RenamedOps(remap, g.nodes)
  OBVIOUS
<1>16. X \subseteq 1 .. Len(g.nodes) /\ X \subseteq DOMAIN g.nodes
  BY <1>1, <1>14 DEF Unpruned
<1>17. \E place : IsListing(h.nodes, ops, X, place)
  <2>1. PICK place : IsListing(x.nodes, g.nodes, X, place)
    BY <1>2, <1>3, <1>5, <1>14, PrunedListing
  <2>2. IsListing(RenamedOps(remap, x.nodes), RenamedOps(remap, g.nodes), X, place)
    BY <1>16, <2>1, RenamingListing
  <2> QED BY <1>12, <1>15, <2>2
<1>18. IsRemap(prune, g, N)
  BY <1>2, <1>6, Remaps
<1>19. ASSUME NEW i \in X
       PROVE  /\ IsRegularOp(ops[i]) /\ ops[i].outputs = g.nodes[i].outputs /\ ops[i].id = g.nodes[i].id
              /\ ops[i].opcode = g.nodes[i].opcode /\ Len(ops[i].inputs) = Len(g.nodes[i].inputs)
              /\ \A k \in DOMAIN g.nodes[i].inputs : ops[i].inputs[k] = Renamed(remap, g.nodes[i].inputs[k])
              /\ \A t \in Range(ops[i].inputs) : \E u \in Range(g.nodes[i].inputs) : t = Renamed(remap, u)
  <2>1. i \in 1 .. Len(g.nodes)
    BY <1>16
  <2>2. ops[i] = RenamedNode(remap, g.nodes[i])
    BY <1>15, <1>16 DEF RenamedOps
  <2>3. IsRegularOp(g.nodes[i])
    BY <2>1, RegularNode
  <2>4. IsRenaming(ops[i], g.nodes[i], remap)
    BY <2>2, <2>3, RenamedParts
  <2> QED BY <2>4 DEF IsRenaming
<1>20. ASSUME NEW i \in X, NEW t \in Range(ops[i].inputs) PROVE IsSettled(prune, g, i, t)
  <2>1. PICK u \in Range(g.nodes[i].inputs) : t = Renamed(remap, u)
    BY <1>19
  <2>2. i \in 1 .. Len(g.nodes) /\ i <= N + 1
    BY <1>1, <1>3, <1>16
  <2>3. IsSettled(prune, g, i, Renamed(prune[N].remap, u))
    BY <1>6, <1>18, <2>2, RenamedSettled
  <2> QED BY <1>4, <2>1, <2>3
<1>21. PICK src : src = [i \in X |-> i]
  OBVIOUS
<1>22. Rearranges(g, ops, X, src)
  BY <1>16, <1>19, <1>21 DEF Rearranges
<1>23. ReadsBefore(g, ops, X)
  <2> SUFFICES ASSUME NEW i \in X, NEW t \in Range(ops[i].inputs), t \notin GivenTensors(g)
               PROVE  \E j \in X : j < i /\ t \in Range(ops[j].outputs)
    BY DEF ReadsBefore
  <2>1. PICK j \in X : j < i /\ t = g.nodes[j].outputs[1]
    BY <1>14, <1>20 DEF IsSettled
  <2>2. t \in Range(g.nodes[j].outputs)
    BY <1>1, <1>16, <2>1, FirstResult
  <2> QED BY <1>19, <2>1, <2>2
<1>24. ASSUME NEW i \in X PROVE IsNodeOf(g, ops[i])
  <2>1. i \in 1 .. Len(g.nodes)
    BY <1>16
  <2>2. IsNodeOf(g, g.nodes[i]) /\ IsSequence(g.nodes[i].inputs)
    BY <2>1, RegularNode
  <2>3. ASSUME NEW t \in Range(ops[i].inputs) PROVE t \in DOMAIN g.tensors
    <3>1. CASE t \in GivenTensors(g)
      BY <3>1 DEF GivenTensors
    <3>2. CASE t \notin GivenTensors(g)
      <4>1. PICK j \in X : t = g.nodes[j].outputs[1]
        BY <1>14, <1>20, <3>2 DEF IsSettled
      <4>2. j \in 1 .. Len(g.nodes)
        BY <1>16
      <4> QED BY <1>1, <4>1, <4>2, ResultNamed
    <3> QED BY <3>1, <3>2
  <2>4. Range(ops[i].outputs) \subseteq DOMAIN g.tensors
    BY <1>19, <2>2 DEF IsNodeOf
  <2> QED BY <1>19, <2>2, <2>3, <2>4 DEF IsNodeOf
<1>25. PICK place : IsListing(h.nodes, ops, X, place)
  BY <1>17
<1>26. \A i \in X : IsNodeOf(g, ops[i])
  BY <1>24
<1>27. IsPrunedGraph(h, g, prune, ops, X, src, place)
  BY <1>2, <1>3, <1>4, <1>13, <1>14, <1>15, <1>22, <1>23, <1>25, <1>26 DEF IsPrunedGraph
<1> QED BY <1>8, <1>27

\* Pruning keeps a graph regular.
LEMMA PruningRegular ==
  ASSUME NEW g, IsRegular(g)
  PROVE  IsRegular(PrunedGraph(g))
<1>1. PICK h : h = PrunedGraph(g)
  OBVIOUS
<1>2. PICK prune, ops, X, src, place : IsPrunedGraph(h, g, prune, ops, X, src, place)
  BY <1>1, PruningIs
<1>3. /\ IsRewriting(h, g) /\ Rearranges(g, ops, X, src) /\ ReadsBefore(g, ops, X)
      /\ IsListing(h.nodes, ops, X, place) /\ \A i \in X : IsNodeOf(g, ops[i])
  BY <1>2 DEF IsPrunedGraph
<1>4. IsRegular(h)
  BY <1>3, RewritingRegular
<1> QED BY <1>1, <1>4

--------------------------------------------------------------------------------
(* The pattern of an unsqueeze, a transposition and a squeeze                   *)

\* A count of one is one reader.
LEMMA OnlyReaderIs ==
  ASSUME NEW g, IsRegular(g), NEW i \in 1 .. Len(g.nodes), ConsumerCount(g, Result(g, i)) = 1
  PROVE  /\ IsSolelyRead(g, i)
         /\ Consumers(g, Result(g, i))[1] = g.nodes[SoleReaderOf(g, i)]
<1>1. PICK t : t = Result(g, i)
  OBVIOUS
<1>2. PICK m \in 1 .. Len(g.nodes) : Readers(g, t) = {m} /\ Consumers(g, t)[1] = g.nodes[m]
  BY <1>1, RegularOps, SoleConsumer
<1>3. PICK n : n = SoleReaderOf(g, i)
  OBVIOUS
<1>4. n \in 1 .. Len(g.nodes) /\ Readers(g, t) = {n}
  BY <1>1, <1>2, <1>3 DEF SoleReaderOf
<1>5. n = m
  BY <1>2, <1>4
<1> QED BY <1>1, <1>2, <1>3, <1>4, <1>5 DEF IsSolelyRead

\* What reads only one result reads it after that.
LEMMA NextIsLater ==
  ASSUME NEW g, IsRegular(g), NEW i \in 1 .. Len(g.nodes), IsSolelyRead(g, i)
  PROVE  Result(g, i) \in Range(g.nodes[SoleReaderOf(g, i)].inputs) /\ i < SoleReaderOf(g, i)
<1>1. IsExecutable(g)
  BY RegularParts
<1>2. PICK m \in 1 .. Len(g.nodes) : m = SoleReaderOf(g, i)
  BY DEF IsSolelyRead
<1>3. Result(g, i) \in Range(g.nodes[m].inputs)
  BY <1>2 DEF IsSolelyRead, Readers
<1>4. Result(g, i) \in Range(g.nodes[i].outputs)
  BY <1>1, FirstResult DEF Result
<1>5. i < m
  BY <1>1, <1>3, <1>4, ReadsEarlier
<1> QED BY <1>2, <1>3, <1>5

\* An operation with one operand is the next of one operation at most.
LEMMA NextOfOne ==
  ASSUME NEW g, IsRegular(g), NEW i \in 1 .. Len(g.nodes), IsSolelyRead(g, i),
         NEW j \in 1 .. Len(g.nodes), IsSolelyRead(g, j), SoleReaderOf(g, i) = SoleReaderOf(g, j),
         g.nodes[SoleReaderOf(g, i)].opcode \in UnaryOps
  PROVE  i = j
<1>1. IsExecutable(g)
  BY RegularParts
<1>2. PICK m \in 1 .. Len(g.nodes) : m = SoleReaderOf(g, i)
  BY DEF IsSolelyRead
<1>3. Result(g, i) \in Range(g.nodes[m].inputs)
  BY <1>2, NextIsLater
<1>4. Result(g, j) \in Range(g.nodes[m].inputs)
  BY <1>2, NextIsLater
<1>5. Len(g.nodes[m].inputs) = 1 /\ IsSequence(g.nodes[m].inputs)
  BY <1>2, RegularNode DEF IsRegularOp
<1>6. DOMAIN g.nodes[m].inputs = {1}
  BY <1>5 DEF IsSequence
<1>7. Result(g, i) = Result(g, j)
  BY <1>3, <1>4, <1>6 DEF Range
<1> QED BY <1>1, <1>7, ResultsDiffer DEF Result

IsPermutationAt(perm, g, c) ==
  /\ OpFields \subseteq DOMAIN perm /\ perm.id = g.nodes[c].id /\ perm.opcode = "PERMUTE"
  /\ perm.inputs = g.nodes[c].inputs /\ perm.outputs = g.nodes[LastOf(g, c)].outputs
  /\ perm.attributes = [dims |-> RemoveAt(PatternDims(g, c), PatternPlace(g, c))]

MatchIds(g, c) == {g.nodes[c].id, g.nodes[MiddleOf(g, c)].id, g.nodes[LastOf(g, c)].id}

\* The head of a sequence of one.
LEMMA HeadIs ==
  ASSUME NEW S, NEW s \in Seq(S), Len(s) = 1
  PROVE  Head(s) = s[1]
OBVIOUS

\* An only reader that is an operation.
LEMMA OnlyReaderFound ==
  ASSUME NEW g, IsRegular(g), NEW i \in 1 .. Len(g.nodes),
         OnlyReader(g, Result(g, i)) # NoNode
  PROVE  IsSolelyRead(g, i) /\ OnlyReader(g, Result(g, i)) = g.nodes[SoleReaderOf(g, i)]
<1>1. ConsumerCount(g, Result(g, i)) = 1
  BY DEF OnlyReader
<1>2. IsSolelyRead(g, i) /\ Consumers(g, Result(g, i))[1] = g.nodes[SoleReaderOf(g, i)]
  BY <1>1, OnlyReaderIs
<1>5. Consumers(g, Result(g, i)) \in Seq(Range(g.nodes))
  BY RegularOps, ConsumersAre
<1>6. Head(Consumers(g, Result(g, i))) = Consumers(g, Result(g, i))[1]
  BY <1>1, <1>5, HeadIs DEF ConsumerCount
<1> QED BY <1>1, <1>2, <1>6 DEF OnlyReader

\* Only a transposition or a permutation moves the new dimension.
LEMMA DimsFound ==
  ASSUME NEW g, NEW unsqueeze, NEW move, DimsOfPattern(g, unsqueeze, move) # <<>>
  PROVE  move.opcode \in {"TRANSPOSE", "PERMUTE"}
BY DEF DimsOfPattern

\* What is known of a permutation that is found.
LEMMA PermutationFound ==
  ASSUME NEW unsqueeze, NEW move, NEW remove, NEW dims,
         NEW s, s = Axis(Attribute(remove, "dim", 0), Len(dims)),
         NEW found, found = PermutationOf(unsqueeze, move, remove, dims), found.perm # NoNode
  PROVE  /\ move # NoNode /\ remove.opcode = "SQUEEZE" /\ dims # <<>>
         /\ found.ids = {unsqueeze.id, move.id, remove.id}
         /\ OpFields \subseteq DOMAIN found.perm /\ found.perm.id = unsqueeze.id
         /\ found.perm.opcode = "PERMUTE"
         /\ found.perm.inputs = unsqueeze.inputs /\ found.perm.outputs = remove.outputs
         /\ found.perm.attributes = [dims |-> RemoveAt(dims, s)] /\ IsPattern(dims, s)
<1>1. CASE move /= NoNode /\ remove.opcode = "SQUEEZE" /\ dims /= <<>>
           /\ s \in DOMAIN dims /\ dims[s] = -1
  <2>1. PICK a : a = [dims |-> RemoveAt(dims, s)]
    OBVIOUS
  <2>2. found = [perm |-> Operation(unsqueeze.id, "PERMUTE", unsqueeze.inputs, remove.outputs, a),
                 ids |-> {unsqueeze.id, move.id, remove.id}]
    BY <1>1, <2>1 DEF PermutationOf
  <2> QED BY <1>1, <2>1, <2>2 DEF Operation, OpFields, IsPattern
<1>2. CASE ~(move /= NoNode /\ remove.opcode = "SQUEEZE" /\ dims /= <<>>
             /\ s \in DOMAIN dims /\ dims[s] = -1)
  <2>1. found = [perm |-> NoNode, ids |-> {}]
    BY <1>2 DEF PermutationOf
  <2> QED BY <2>1
<1> QED BY <1>1, <1>2

\* A permutation that is found is that of a match.
LEMMA MatchFound ==
  ASSUME NEW g, IsRegular(g), NEW i \in 1 .. Len(g.nodes), g.nodes[i].opcode = "UNSQUEEZE",
         NEW found,
         found = SqueezedPermutation(g, g.nodes[i], OnlyReader(g, g.nodes[i].outputs[1])),
         found.perm # NoNode
  PROVE  /\ IsMatch(g, i) /\ found.ids = MatchIds(g, i) /\ IsPermutationAt(found.perm, g, i)
<1>1. PICK move : move = OnlyReader(g, Result(g, i))
  OBVIOUS
<1>2. PICK remove : remove = IF move = NoNode THEN NoNode ELSE OnlyReader(g, move.outputs[1])
  OBVIOUS
<1>3. PICK dims : dims = IF move = NoNode THEN <<>> ELSE DimsOfPattern(g, g.nodes[i], move)
  OBVIOUS
<1>15. PICK s : s = Axis(Attribute(remove, "dim", 0), Len(dims))
  OBVIOUS
<1>4. found = PermutationOf(g.nodes[i], move, remove, dims)
  BY <1>1, <1>2, <1>3 DEF SqueezedPermutation, Result
<1>5. /\ move # NoNode /\ remove.opcode = "SQUEEZE" /\ dims # <<>>
      /\ found.ids = {g.nodes[i].id, move.id, remove.id}
      /\ OpFields \subseteq DOMAIN found.perm /\ found.perm.id = g.nodes[i].id
      /\ found.perm.opcode = "PERMUTE"
      /\ found.perm.inputs = g.nodes[i].inputs /\ found.perm.outputs = remove.outputs
      /\ found.perm.attributes = [dims |-> RemoveAt(dims, s)] /\ IsPattern(dims, s)
  BY <1>4, <1>15, PermutationFound
<1>6. IsSolelyRead(g, i) /\ move = g.nodes[SoleReaderOf(g, i)]
  BY <1>1, <1>5, OnlyReaderFound
<1>7. PICK m \in 1 .. Len(g.nodes) : m = SoleReaderOf(g, i)
  BY <1>6 DEF IsSolelyRead
<1>8. move.opcode \in {"TRANSPOSE", "PERMUTE"}
  BY <1>3, <1>5, DimsFound
<1>9. remove = OnlyReader(g, Result(g, m))
  BY <1>2, <1>5, <1>6, <1>7 DEF Result
<1>10. remove # NoNode
  BY <1>5 DEF NoNode
<1>11. IsSolelyRead(g, m) /\ remove = g.nodes[SoleReaderOf(g, m)]
  BY <1>9, <1>10, OnlyReaderFound
<1>16. dims = PatternDims(g, i) /\ s = PatternPlace(g, i)
  BY <1>3, <1>5, <1>6, <1>7, <1>11, <1>15 DEF PatternDims, PatternPlace, MiddleOf, LastOf
<1>12. IsMatch(g, i)
  BY <1>5, <1>6, <1>7, <1>8, <1>11, <1>16 DEF IsMatch, MiddleOf, LastOf
<1>13. found.ids = MatchIds(g, i)
  BY <1>5, <1>6, <1>7, <1>11 DEF MatchIds, MiddleOf, LastOf
<1>14. IsPermutationAt(found.perm, g, i)
  BY <1>5, <1>7, <1>11, <1>16 DEF IsPermutationAt, LastOf
<1> QED BY <1>12, <1>13, <1>14

\* No two operations have one id.
LEMMA IdsAreUnique ==
  ASSUME NEW g, IsExecutable(g), NEW i \in 1 .. Len(g.nodes), NEW j \in 1 .. Len(g.nodes),
         g.nodes[i].id = g.nodes[j].id
  PROVE  i = j
<1>1. Len(g.nodes) \in Nat /\ DOMAIN g.nodes = 1 .. Len(g.nodes)
  BY ExecutableParts
<1>2. ASSUME NEW a \in 1 .. Len(g.nodes), NEW b \in 1 .. Len(g.nodes), a < b,
             g.nodes[a].id = g.nodes[b].id
      PROVE  FALSE
  <2>1. a \in 1 .. b - 1 /\ b \in DOMAIN g.nodes
    BY <1>1, <1>2
  <2> QED BY <1>2, <2>1 DEF IsExecutable
<1> QED BY <1>1, <1>2

PatternStart == [gone |-> {}, perms |-> <<>>]

IsPatternWalk(walk, g) ==
  walk = [k \in 0 .. Len(g.nodes) |->
            IF k = 0 THEN PatternStart ELSE PatternStep(g, walk[k - 1], g.nodes[k])]

\* There is such a function, and the replacement is made of its last value.
LEMMA PatternWalkDefined ==
  ASSUME NEW g, Len(g.nodes) \in Nat
  PROVE  \E walk : /\ IsPatternWalk(walk, g)
                   /\ FuseUnsqueezeTransposeSqueeze(g) = ReplaceByPermutations(g, walk[Len(g.nodes)])
<1>1. PICK walk : walk = CHOOSE f : IsPatternWalk(f, g)
  OBVIOUS
<1>2. PICK w : IsPass(w, "pattern", g, PatternStart)
  BY PassDefined
<1>3. IsPatternWalk(w, g)
  BY <1>2 DEF IsPass, IsPatternWalk, StepOf
<1>4. IsPatternWalk(walk, g)
  BY <1>1, <1>3
<1>5. FuseUnsqueezeTransposeSqueeze(g) = ReplaceByPermutations(g, walk[Len(g.nodes)])
  BY <1>1 DEF FuseUnsqueezeTransposeSqueeze, OverNodes, IsPatternWalk, PatternStart, PatternStep
<1> QED BY <1>4, <1>5

Matched(s, g) == {i \in 1 .. Len(g.nodes) : g.nodes[i].id \in DOMAIN s.perms}

IsPatternState(s, g) ==
  /\ DOMAIN s.perms = {g.nodes[c].id : c \in Matched(s, g)}
  /\ \A c \in Matched(s, g) : IsMatch(g, c) /\ IsPermutationAt(s.perms[g.nodes[c].id], g, c)
  /\ s.gone = UNION {MatchIds(g, c) : c \in Matched(s, g)}

\* One step of the walk.
LEMMA PatternStepKeeps ==
  ASSUME NEW g, IsRegular(g), NEW s, IsPatternState(s, g), NEW i \in 1 .. Len(g.nodes),
         NEW r, r = PatternStep(g, s, g.nodes[i])
  PROVE  IsPatternState(r, g)
<1>1. PICK n : n = g.nodes[i]
  OBVIOUS
<1>2. PICK found : found = SqueezedPermutation(g, n, OnlyReader(g, n.outputs[1]))
  OBVIOUS
<1>3. IsExecutable(g)
  BY RegularParts
<1>4. CASE n.opcode = "UNSQUEEZE" /\ n.id \notin s.gone /\ found.perm # NoNode
  <2>1. r = [gone |-> s.gone \cup found.ids, perms |-> With(s.perms, n.id, found.perm)]
    BY <1>1, <1>2, <1>4 DEF PatternStep, AddPermutation
  <2>2. r.gone = s.gone \cup found.ids /\ r.perms = With(s.perms, n.id, found.perm)
    BY <2>1
  <2>3. /\ DOMAIN r.perms = DOMAIN s.perms \cup {n.id} /\ r.perms[n.id] = found.perm
        /\ \A d \in DOMAIN s.perms : d # n.id => r.perms[d] = s.perms[d]
    BY <2>2 DEF With
  <2>4. IsMatch(g, i) /\ found.ids = MatchIds(g, i) /\ IsPermutationAt(found.perm, g, i)
    BY <1>1, <1>2, <1>4, MatchFound
  <2>5. Matched(r, g) = Matched(s, g) \cup {i}
    BY <1>1, <1>3, <2>3, IdsAreUnique DEF Matched
  <2>6. DOMAIN r.perms = {g.nodes[c].id : c \in Matched(r, g)}
    BY <1>1, <2>3, <2>5 DEF IsPatternState
  <2>7. ASSUME NEW c \in Matched(r, g)
        PROVE  IsMatch(g, c) /\ IsPermutationAt(r.perms[g.nodes[c].id], g, c)
    <3>1. CASE c = i
      BY <1>1, <2>3, <2>4, <3>1
    <3>2. CASE c # i
      <4>1. c \in Matched(s, g) /\ c \in 1 .. Len(g.nodes) /\ g.nodes[c].id \in DOMAIN s.perms
        BY <2>5, <3>2 DEF Matched
      <4>2. g.nodes[c].id # n.id
        BY <1>1, <1>3, <3>2, <4>1, IdsAreUnique
      <4>3. r.perms[g.nodes[c].id] = s.perms[g.nodes[c].id]
        BY <2>3, <4>1, <4>2
      <4> QED BY <4>1, <4>3 DEF IsPatternState
    <3> QED BY <3>1, <3>2
  <2>8. r.gone = UNION {MatchIds(g, c) : c \in Matched(r, g)}
    BY <2>2, <2>4, <2>5 DEF IsPatternState
  <2> QED BY <2>6, <2>7, <2>8 DEF IsPatternState
<1>5. CASE ~(n.opcode = "UNSQUEEZE" /\ n.id \notin s.gone /\ found.perm # NoNode)
  <2>1. r = s
    BY <1>1, <1>2, <1>5 DEF PatternStep, AddPermutation
  <2> QED BY <2>1
<1> QED BY <1>4, <1>5

\* Every state of the walk has permutations of matches.
LEMMA PatternStates ==
  ASSUME NEW g, IsRegular(g), NEW walk, IsPatternWalk(walk, g)
  PROVE  \A k \in 0 .. Len(g.nodes) : IsPatternState(walk[k], g)
<1>1. Len(g.nodes) \in Nat
  BY RegularParts
<1> DEFINE Good == {k \in Nat : IsPatternState(walk[k], g)}
<1>2. 0 \in Good
  <2>1. walk[0] = PatternStart
    BY <1>1 DEF IsPatternWalk
  <2>2. DOMAIN walk[0].perms = {} /\ walk[0].gone = {}
    BY <2>1 DEF PatternStart
  <2>3. Matched(walk[0], g) = {}
    BY <2>2 DEF Matched
  <2>4. IsPatternState(walk[0], g)
    BY <2>2, <2>3 DEF IsPatternState
  <2> QED BY <2>4
<1>3. ASSUME NEW n \in Nat, n < Len(g.nodes), n \in Good PROVE n + 1 \in Good
  <2>1. PICK k : k = n + 1
    OBVIOUS
  <2>2. k \in 1 .. Len(g.nodes) /\ k - 1 = n /\ k \in Nat /\ k # 0 /\ k \in 0 .. Len(g.nodes)
    BY <1>1, <1>3, <2>1
  <2>3. walk[k] = PatternStep(g, walk[n], g.nodes[k])
    BY <2>2 DEF IsPatternWalk
  <2>4. IsPatternState(walk[n], g)
    BY <1>3
  <2>5. IsPatternState(walk[k], g)
    BY <2>2, <2>3, <2>4, PatternStepKeeps
  <2> QED BY <2>1, <2>2, <2>5
<1>4. \A n \in 0 .. Len(g.nodes) : n \in Good
  <2>1. \A n \in Nat : n < Len(g.nodes) /\ n \in Good => n + 1 \in Good
    BY <1>3
  <2> HIDE DEF Good
  <2> QED BY <1>1, <1>2, <2>1, UpTo
<1> QED BY <1>4

\* The places of a match.
LEMMA MatchPlaces ==
  ASSUME NEW g, IsRegular(g), NEW c \in 1 .. Len(g.nodes), IsMatch(g, c)
  PROVE  /\ MiddleOf(g, c) \in 1 .. Len(g.nodes) /\ LastOf(g, c) \in 1 .. Len(g.nodes)
         /\ c < LastOf(g, c)
         /\ Readers(g, Result(g, c)) = {MiddleOf(g, c)}
         /\ Readers(g, Result(g, MiddleOf(g, c))) = {LastOf(g, c)}
<1>1. PICK m \in 1 .. Len(g.nodes) : m = MiddleOf(g, c)
  BY DEF IsMatch, IsSolelyRead, MiddleOf
<1>2. IsSolelyRead(g, c) /\ IsSolelyRead(g, m) /\ m = SoleReaderOf(g, c) /\ LastOf(g, c) = SoleReaderOf(g, m)
  BY <1>1 DEF IsMatch, MiddleOf, LastOf
<1>3. c < m
  BY <1>2, NextIsLater
<1>4. m < SoleReaderOf(g, m)
  BY <1>2, NextIsLater
<1>5. Len(g.nodes) \in Nat
  BY RegularParts
<1> QED BY <1>1, <1>2, <1>3, <1>4, <1>5 DEF IsSolelyRead

\* Two matches do not end with one squeeze.
LEMMA LastOfOne ==
  ASSUME NEW g, IsRegular(g), NEW c \in 1 .. Len(g.nodes), IsMatch(g, c),
         NEW d \in 1 .. Len(g.nodes), IsMatch(g, d), LastOf(g, c) = LastOf(g, d)
  PROVE  c = d
<1>1. PICK m \in 1 .. Len(g.nodes) : m = MiddleOf(g, c)
  BY MatchPlaces
<1>2. PICK k \in 1 .. Len(g.nodes) : k = MiddleOf(g, d)
  BY MatchPlaces
<1>3. /\ IsSolelyRead(g, c) /\ IsSolelyRead(g, m) /\ m = SoleReaderOf(g, c)
      /\ LastOf(g, c) = SoleReaderOf(g, m) /\ g.nodes[SoleReaderOf(g, m)].opcode \in UnaryOps
      /\ g.nodes[m].opcode \in UnaryOps
  BY <1>1 DEF IsMatch, MiddleOf, LastOf, UnaryOps
<1>4. /\ IsSolelyRead(g, d) /\ IsSolelyRead(g, k) /\ k = SoleReaderOf(g, d)
      /\ LastOf(g, d) = SoleReaderOf(g, k)
  BY <1>2 DEF IsMatch, MiddleOf, LastOf
<1>5. m = k
  BY <1>3, <1>4, NextOfOne
<1> QED BY <1>3, <1>4, <1>5, NextOfOne

\* The operations that a match makes superfluous.
Superfluous(g, C) == {MiddleOf(g, c) : c \in C} \cup {LastOf(g, c) : c \in C}

\* Matches are takeovers.
LEMMA PatternTakesOver ==
  ASSUME NEW g, IsRegular(g), NEW C \in SUBSET (1 .. Len(g.nodes)), \A c \in C : IsMatch(g, c)
  PROVE  IsTakeover(g, C, [c \in C |-> LastOf(g, c)], Superfluous(g, C))
<1>1. PICK tail : tail = [c \in C |-> LastOf(g, c)]
  OBVIOUS
<1>2. PICK Gone : Gone = Superfluous(g, C)
  OBVIOUS
<1>3. \A c \in C : /\ c \in 1 .. Len(g.nodes) /\ tail[c] = LastOf(g, c)
                   /\ MiddleOf(g, c) \in Gone /\ LastOf(g, c) \in Gone
  BY <1>1, <1>2 DEF Superfluous
<1>4. \A c \in C : /\ MiddleOf(g, c) \in 1 .. Len(g.nodes) /\ LastOf(g, c) \in 1 .. Len(g.nodes)
                   /\ c < LastOf(g, c)
                   /\ Readers(g, Result(g, c)) = {MiddleOf(g, c)}
                   /\ Readers(g, Result(g, MiddleOf(g, c))) = {LastOf(g, c)}
  BY MatchPlaces
<1>5. C \subseteq 1 .. Len(g.nodes) /\ Gone \subseteq 1 .. Len(g.nodes)
  BY <1>2, <1>4 DEF Superfluous
<1>6. C \cap Gone = {}
  <2> SUFFICES ASSUME NEW c \in C, NEW d \in C, c = MiddleOf(g, d) \/ c = LastOf(g, d) PROVE FALSE
    BY <1>2 DEF Superfluous
  <2>1. g.nodes[c].opcode = "UNSQUEEZE"
    BY DEF IsMatch
  <2>2. /\ g.nodes[MiddleOf(g, d)].opcode \in {"TRANSPOSE", "PERMUTE"}
        /\ g.nodes[LastOf(g, d)].opcode = "SQUEEZE"
    BY DEF IsMatch
  <2> QED BY <2>1, <2>2
<1>7. \A c \in C : tail[c] \in Gone /\ c < tail[c]
  BY <1>3, <1>4
<1>8. \A c, d \in C : tail[c] = tail[d] => c = d
  BY <1>3, LastOfOne
<1>9. ASSUME NEW i \in C \cup Gone, \A c \in C : i # tail[c],
             NEW k \in 1 .. Len(g.nodes), g.nodes[i].outputs[1] \in Range(g.nodes[k].inputs)
      PROVE  k \in Gone
  <2>1. k \in Readers(g, Result(g, i))
    BY <1>9 DEF Readers, Result
  <2>2. i \in C \/ \E c \in C : i = MiddleOf(g, c)
    BY <1>2, <1>3, <1>9 DEF Superfluous
  <2>3. CASE i \in C
    BY <1>3, <1>4, <2>1, <2>3
  <2>4. CASE \E c \in C : i = MiddleOf(g, c)
    BY <1>3, <1>4, <2>1, <2>4
  <2> QED BY <2>2, <2>3, <2>4
<1>10. IsTakeover(g, C, tail, Gone)
  BY <1>5, <1>6, <1>7, <1>8, <1>9 DEF IsTakeover
<1> QED BY <1>1, <1>2, <1>10

\* The operations with the permutations in their places.
PermutedOps(g, s) ==
  [i \in 1 .. Len(g.nodes) |-> IF g.nodes[i].id \in DOMAIN s.perms
                               THEN s.perms[g.nodes[i].id] ELSE g.nodes[i]]

\* The operation in a place.
LEMMA PermutedAt ==
  ASSUME NEW g, IsRegular(g), NEW s, IsPatternState(s, g), NEW i \in 1 .. Len(g.nodes),
         NEW op, op = PermutedOps(g, s)[i]
  PROVE  /\ op.id = g.nodes[i].id /\ op.inputs = g.nodes[i].inputs
         /\ i \in Matched(s, g) => op.outputs = g.nodes[LastOf(g, i)].outputs
         /\ i \notin Matched(s, g) => op.outputs = g.nodes[i].outputs
         /\ IsNodeOf(g, op)
<1>1. CASE i \in Matched(s, g)
  <2>1. op = s.perms[g.nodes[i].id]
    BY <1>1 DEF PermutedOps, Matched
  <2>2. IsMatch(g, i) /\ IsPermutationAt(op, g, i)
    BY <1>1, <2>1 DEF IsPatternState
  <2>3. PICK m \in 1 .. Len(g.nodes) : m = LastOf(g, i)
    BY <2>2, MatchPlaces
  <2>4. /\ op.id = g.nodes[i].id /\ op.inputs = g.nodes[i].inputs
        /\ op.outputs = g.nodes[m].outputs /\ OpFields \subseteq DOMAIN op /\ op.opcode = "PERMUTE"
    BY <2>2, <2>3 DEF IsPermutationAt
  <2>5. IsNodeOf(g, g.nodes[i]) /\ IsRegularOp(g.nodes[i])
    BY RegularNode
  <2>6. IsNodeOf(g, g.nodes[m]) /\ IsRegularOp(g.nodes[m])
    BY RegularNode
  <2>7. Len(op.inputs) = 1
    BY <2>2, <2>4, <2>5 DEF IsMatch, IsRegularOp, UnaryOps
  <2>8. IsRegularOp(op)
    BY <2>4, <2>5, <2>6, <2>7 DEF IsRegularOp, IsOp
  <2>9. Range(op.inputs) \cup Range(op.outputs) \subseteq DOMAIN g.tensors
    BY <2>4, <2>5, <2>6 DEF IsNodeOf
  <2> QED BY <1>1, <2>3, <2>4, <2>8, <2>9 DEF IsNodeOf
<1>2. CASE i \notin Matched(s, g)
  <2>1. op = g.nodes[i]
    BY <1>2 DEF PermutedOps, Matched
  <2> QED BY <1>2, <2>1, RegularNode
<1> QED BY <1>1, <1>2

\* What the replacement of the matches leaves.
Lasts(g, C) == [c \in C |-> LastOf(g, c)]

IsPatternGraph(h, g, s, ops, place) ==
  /\ IsRewriting(h, g) /\ h.tensors = g.tensors
  /\ IsPatternState(s, g) /\ ops = PermutedOps(g, s)
  /\ IsTakeover(g, Matched(s, g), Lasts(g, Matched(s, g)), Superfluous(g, Matched(s, g)))
  /\ TakesOver(g, Matched(s, g), Lasts(g, Matched(s, g)), Superfluous(g, Matched(s, g)), ops)
  /\ IsListing(h.nodes, ops, Remaining(g, Superfluous(g, Matched(s, g))), place)
  /\ \A i \in 1 .. Len(g.nodes) : IsNodeOf(g, ops[i])

\* The replacement does that.
LEMMA PatternIs ==
  ASSUME NEW g, IsRegular(g), NEW h, h = FuseUnsqueezeTransposeSqueeze(g)
  PROVE  \E s, ops, place : IsPatternGraph(h, g, s, ops, place)
<1>1. IsExecutable(g) /\ Len(g.nodes) \in Nat /\ DOMAIN g.nodes = 1 .. Len(g.nodes)
  BY RegularParts
<1>2. PICK walk : /\ IsPatternWalk(walk, g)
                  /\ FuseUnsqueezeTransposeSqueeze(g) = ReplaceByPermutations(g, walk[Len(g.nodes)])
  BY <1>1, PatternWalkDefined
<1>3. PICK s : s = walk[Len(g.nodes)]
  OBVIOUS
<1>4. IsPatternState(s, g)
  <2>1. Len(g.nodes) \in 0 .. Len(g.nodes)
    BY <1>1
  <2> QED BY <1>2, <1>3, <2>1, PatternStates
<1>6. PICK ops : ops = PermutedOps(g, s)
  OBVIOUS
<1>7. PICK ids : ids = s.gone \ DOMAIN s.perms
  OBVIOUS
<1>8. h = [g EXCEPT !.nodes = WithoutOps(ops, ids)]
  BY <1>1, <1>2, <1>3, <1>6, <1>7 DEF ReplaceByPermutations, PermutedOps
<1>9. GraphFields \subseteq DOMAIN g
  BY <1>1 DEF IsExecutable, GraphFields
<1>10. /\ DOMAIN h = DOMAIN g /\ h.nodes = WithoutOps(ops, ids) /\ h.tensors = g.tensors
       /\ h.inputs = g.inputs /\ h.outputs = g.outputs /\ h.states = g.states
  BY <1>8, <1>9 DEF GraphFields
<1>11. IsRewriting(h, g)
  BY <1>10 DEF IsRewriting, IsRegular, HasFields
<1>12. PICK C : C = Matched(s, g)
  OBVIOUS
<1>13. C \in SUBSET (1 .. Len(g.nodes)) /\ \A c \in C : IsMatch(g, c)
  BY <1>4, <1>12 DEF IsPatternState, Matched
<1>14. PICK Gone : Gone = Superfluous(g, C)
  OBVIOUS
<1>15. PICK tail : tail = Lasts(g, C)
  OBVIOUS
<1>16. IsTakeover(g, C, tail, Gone)
  BY <1>13, <1>14, <1>15, PatternTakesOver DEF Lasts
<1>17. ASSUME NEW i \in 1 .. Len(g.nodes)
       PROVE  /\ ops[i].id = g.nodes[i].id /\ ops[i].inputs = g.nodes[i].inputs
              /\ i \in C => ops[i].outputs = g.nodes[tail[i]].outputs
              /\ i \notin C => ops[i].outputs = g.nodes[i].outputs
              /\ IsNodeOf(g, ops[i])
  BY <1>4, <1>6, <1>12, <1>15, PermutedAt DEF Lasts
<1>18. PICK X : X = Remaining(g, Gone)
  OBVIOUS
<1>19. TakesOver(g, C, tail, Gone, ops)
  BY <1>17 DEF TakesOver, Remaining
<1>20. /\ ops = [i \in 1 .. Len(g.nodes) |-> ops[i]] /\ Len(ops) = Len(g.nodes) /\ IsSequence(ops)
  <2>1. ops = [i \in 1 .. Len(g.nodes) |-> ops[i]]
    BY <1>6 DEF PermutedOps
  <2>2. ops \in Seq({ops[i] : i \in 1 .. Len(g.nodes)}) /\ Len(ops) = Len(g.nodes)
    BY <1>1, <2>1
  <2> QED BY <2>1, <2>2, SequenceOfRange
<1>21. \A i \in 1 .. Len(g.nodes) : g.nodes[i].id \in ids <=> i \in Gone
  <2> TAKE i \in 1 .. Len(g.nodes)
  <2>1. g.nodes[i].id \in DOMAIN s.perms <=> i \in C
    BY <1>12 DEF Matched
  <2>2. g.nodes[i].id \in s.gone <=> \E c \in C : g.nodes[i].id \in MatchIds(g, c)
    BY <1>4, <1>12 DEF IsPatternState
  <2>3. \A c \in C : /\ c \in 1 .. Len(g.nodes) /\ MiddleOf(g, c) \in 1 .. Len(g.nodes)
                     /\ LastOf(g, c) \in 1 .. Len(g.nodes)
    BY <1>13, MatchPlaces
  <2>4. \A c \in C : g.nodes[i].id \in MatchIds(g, c) <=> i \in {c, MiddleOf(g, c), LastOf(g, c)}
    BY <1>1, <2>3, IdsAreUnique DEF MatchIds
  <2>5. C \cap Gone = {}
    BY <1>16 DEF IsTakeover
  <2>6. g.nodes[i].id \in s.gone <=> i \in C \cup Gone
    BY <1>14, <2>2, <2>4 DEF Superfluous
  <2> QED BY <1>7, <2>1, <2>5, <2>6
<1>22. X = Staying(ops, ids)
  BY <1>17, <1>18, <1>20, <1>21 DEF Staying, Remaining
<1>23. PICK place : IsListing(h.nodes, ops, X, place)
  BY <1>10, <1>20, <1>22, SweepListing
<1>24. \A i \in 1 .. Len(g.nodes) : IsNodeOf(g, ops[i])
  BY <1>17
<1>25. IsPatternGraph(h, g, s, ops, place)
  BY <1>4, <1>6, <1>10, <1>11, <1>12, <1>14, <1>15, <1>16, <1>18, <1>19, <1>23, <1>24 DEF IsPatternGraph
<1> QED BY <1>25

\* The replacement of matches keeps a graph regular.
LEMMA PatternRegular ==
  ASSUME NEW g, IsRegular(g)
  PROVE  IsRegular(FuseUnsqueezeTransposeSqueeze(g))
<1>1. PICK h : h = FuseUnsqueezeTransposeSqueeze(g)
  OBVIOUS
<1>2. PICK s, ops, place : IsPatternGraph(h, g, s, ops, place)
  BY <1>1, PatternIs
<1>3. PICK C : C = Matched(s, g)
  OBVIOUS
<1>4. PICK Gone : Gone = Superfluous(g, C)
  OBVIOUS
<1>5. PICK tail : tail = Lasts(g, C)
  OBVIOUS
<1>6. PICK X : X = Remaining(g, Gone)
  OBVIOUS
<1>7. /\ IsRewriting(h, g) /\ IsTakeover(g, C, tail, Gone) /\ TakesOver(g, C, tail, Gone, ops)
      /\ IsListing(h.nodes, ops, X, place) /\ \A i \in X : IsNodeOf(g, ops[i])
  BY <1>2, <1>3, <1>4, <1>5, <1>6 DEF IsPatternGraph, Remaining
<1>8. IsRegular(h)
  BY <1>6, <1>7, TakeoverRegular
<1> QED BY <1>1, <1>8

\* So do both together.
LEMMA RedundantRegular ==
  ASSUME NEW g, IsRegular(g)
  PROVE  IsRegular(RedundantCastPruner(g))
<1>1. IsRegular(FuseUnsqueezeTransposeSqueeze(g))
  BY PatternRegular
<1> QED BY <1>1, PruningRegular DEF RedundantCastPruner

--------------------------------------------------------------------------------
(* The fusions by which an operation takes over the result of the only          *)
(* operation that reads its own, in place.                                      *)

\* The attribute that says so.
KeyOf(head) == IF head = "CONV2D" THEN "fused_relu" ELSE "fused_transpose"
ValueOf(head) == IF head = "CONV2D" THEN TRUE ELSE 1

Tails(g, C) == {SoleReaderOf(g, c) : c \in C}

AreKinds(head, tail) == head # tail /\ tail \in UnaryOps

\* Pairs are takeovers.
LEMMA PairsTakeOver ==
  ASSUME NEW g, IsRegular(g), NEW head, NEW tail, AreKinds(head, tail),
         NEW C \in SUBSET (1 .. Len(g.nodes)), \A c \in C : IsPair(g, head, tail, c)
  PROVE  IsTakeover(g, C, [c \in C |-> SoleReaderOf(g, c)], Tails(g, C))
<1>1. PICK last : last = [c \in C |-> SoleReaderOf(g, c)]
  OBVIOUS
<1>2. PICK Gone : Gone = Tails(g, C)
  OBVIOUS
<1>3. \A c \in C : /\ c \in 1 .. Len(g.nodes) /\ last[c] = SoleReaderOf(g, c) /\ last[c] \in Gone
                   /\ IsSolelyRead(g, c) /\ g.nodes[last[c]].opcode = tail
                   /\ g.nodes[c].opcode = head
  BY <1>1, <1>2 DEF Tails, IsPair
<1>4. \A c \in C : last[c] \in 1 .. Len(g.nodes) /\ Readers(g, Result(g, c)) = {last[c]}
  BY <1>3 DEF IsSolelyRead
<1>5. Gone \subseteq 1 .. Len(g.nodes) /\ \A i \in Gone : \E c \in C : i = last[c]
  BY <1>2, <1>3, <1>4 DEF Tails
<1>6. C \cap Gone = {}
  BY <1>3, <1>5 DEF AreKinds
<1>7. \A c \in C : c < last[c]
  BY <1>3, NextIsLater
<1>8. \A c, d \in C : last[c] = last[d] => c = d
  BY <1>3, NextOfOne DEF AreKinds
<1>9. ASSUME NEW i \in C \cup Gone, \A c \in C : i # last[c],
             NEW k \in 1 .. Len(g.nodes), g.nodes[i].outputs[1] \in Range(g.nodes[k].inputs)
      PROVE  k \in Gone
  <2>1. k \in Readers(g, Result(g, i))
    BY <1>9 DEF Readers, Result
  <2>2. i \in C
    BY <1>5, <1>9
  <2> QED BY <1>3, <1>4, <2>1, <2>2
<1>10. IsTakeover(g, C, last, Gone)
  BY <1>3, <1>5, <1>6, <1>7, <1>8, <1>9 DEF IsTakeover
<1> QED BY <1>1, <1>2, <1>10

\* The operation at i of the graph being changed.
IsTaken(n, g, C, i) ==
  /\ n.id = g.nodes[i].id /\ n.opcode = g.nodes[i].opcode /\ n.inputs = g.nodes[i].inputs
  /\ OpFields \subseteq DOMAIN n
  /\ i \in C => /\ n.outputs = g.nodes[SoleReaderOf(g, i)].outputs
                /\ n.attributes = With(g.nodes[i].attributes, KeyOf(n.opcode), ValueOf(n.opcode))
  /\ i \notin C => n = g.nodes[i]

SameButNodes(x, g) ==
  /\ DOMAIN x = DOMAIN g /\ x.tensors = g.tensors /\ x.inputs = g.inputs
  /\ x.outputs = g.outputs /\ x.states = g.states

AreTaken(nodes, g, C) ==
  /\ IsSequence(nodes) /\ Len(nodes) = Len(g.nodes)
  /\ \A i \in 1 .. Len(g.nodes) : IsTaken(nodes[i], g, C, i)

ArePairs(g, head, tail, C) ==
  C \in SUBSET (1 .. Len(g.nodes)) /\ \A c \in C : IsPair(g, head, tail, c)

TailIds(g, C) == {g.nodes[SoleReaderOf(g, c)].id : c \in C}

IsTaking(s, g, C) ==
  /\ DOMAIN s = {"graph", "nodes", "removed"}
  /\ SameButNodes(s.graph, g) /\ AreTaken(s.graph.nodes, g, C)
  /\ s.removed = TailIds(g, C)

\* Nothing has taken over at first.
LEMMA TakingStarts ==
  ASSUME NEW g, IsRegular(g)
  PROVE  IsTaking(Walk(g), g, {})
<1>1. PICK s : s = Walk(g)
  OBVIOUS
<1>2. DOMAIN s = {"graph", "nodes", "removed"} /\ s.graph = g /\ s.removed = {}
  BY <1>1 DEF Walk
<1>3. IsSequence(g.nodes)
  BY RegularParts DEF IsExecutable
<1>4. \A i \in 1 .. Len(g.nodes) : IsTaken(g.nodes[i], g, {}, i)
  BY RegularNode DEF IsTaken, IsRegularOp, IsOp
<1>5. IsTaking(s, g, {})
  BY <1>2, <1>3, <1>4 DEF IsTaking, SameButNodes, AreTaken, TailIds
<1> QED BY <1>1, <1>5

\* An operation in its place.
LEMMA PutInPlace ==
  ASSUME NEW g, IsRegular(g), NEW C, NEW nodes, AreTaken(nodes, g, C),
         NEW p \in 1 .. Len(g.nodes), NEW n, n.id = g.nodes[p].id, IsTaken(n, g, C \cup {p}, p)
  PROVE  AreTaken(InPlace(nodes, n), g, C \cup {p})
<1>1. IsExecutable(g) /\ Len(g.nodes) \in Nat
  BY RegularParts
<1>2. PICK all : all = InPlace(nodes, n)
  OBVIOUS
<1>3. /\ DOMAIN nodes = 1 .. Len(g.nodes)
      /\ \A i \in 1 .. Len(g.nodes) : IsTaken(nodes[i], g, C, i)
  BY DEF AreTaken, IsSequence
<1>4. all = [i \in 1 .. Len(g.nodes) |-> IF nodes[i].id = n.id THEN n ELSE nodes[i]]
  BY <1>2, <1>3 DEF InPlace
<1>5. all \in Seq({IF nodes[i].id = n.id THEN n ELSE nodes[i] : i \in 1 .. Len(g.nodes)})
      /\ Len(all) = Len(g.nodes)
  BY <1>1, <1>4
<1>6. IsSequence(all)
  BY <1>5, SequenceOfRange
<1>7. ASSUME NEW i \in 1 .. Len(g.nodes) PROVE IsTaken(all[i], g, C \cup {p}, i)
  <2>1. IsTaken(nodes[i], g, C, i) /\ nodes[i].id = g.nodes[i].id
    BY <1>3 DEF IsTaken
  <2>2. CASE i = p
    BY <1>4, <2>1, <2>2
  <2>3. CASE i # p
    <3>1. nodes[i].id # n.id
      BY <1>1, <2>1, <2>3, IdsAreUnique
    <3>2. all[i] = nodes[i]
      BY <1>4, <3>1
    <3> QED BY <2>1, <2>3, <3>2 DEF IsTaken
  <2> QED BY <2>2, <2>3
<1>8. AreTaken(all, g, C \cup {p})
  BY <1>5, <1>6, <1>7 DEF AreTaken
<1> QED BY <1>2, <1>8

\* One more takes over.
LEMMA TakingExtends ==
  ASSUME NEW g, IsRegular(g), NEW s, NEW C, IsTaking(s, g, C),
         NEW p \in 1 .. Len(g.nodes), NEW m \in 1 .. Len(g.nodes), m = SoleReaderOf(g, p),
         NEW key, key = KeyOf(g.nodes[p].opcode), NEW value, value = ValueOf(g.nodes[p].opcode),
         NEW r,
         r = MarkRemoved([s EXCEPT !.graph.nodes = InPlace(@,
                            SetAttribute([g.nodes[p] EXCEPT !.outputs = g.nodes[m].outputs],
                                         key, value))],
                         {g.nodes[m].id})
  PROVE  IsTaking(r, g, C \cup {p})
<1>1. OpFields \subseteq DOMAIN g.nodes[p]
  BY RegularNode DEF IsRegularOp, IsOp
<1>2. PICK n : n = SetAttribute([g.nodes[p] EXCEPT !.outputs = g.nodes[m].outputs], key, value)
  OBVIOUS
<1>3. /\ DOMAIN n = DOMAIN g.nodes[p] /\ n.id = g.nodes[p].id /\ n.opcode = g.nodes[p].opcode
      /\ n.inputs = g.nodes[p].inputs /\ n.outputs = g.nodes[m].outputs
      /\ n.attributes = With(g.nodes[p].attributes, key, value)
  <2>1. PICK y : y = [g.nodes[p] EXCEPT !.outputs = g.nodes[m].outputs]
    OBVIOUS
  <2>2. /\ DOMAIN y = DOMAIN g.nodes[p] /\ y.id = g.nodes[p].id /\ y.opcode = g.nodes[p].opcode
        /\ y.inputs = g.nodes[p].inputs /\ y.outputs = g.nodes[m].outputs
        /\ y.attributes = g.nodes[p].attributes
    BY <1>1, <2>1 DEF OpFields
  <2>3. PICK a : a = With(y.attributes, key, value)
    OBVIOUS
  <2>4. n = [y EXCEPT !.attributes = a]
    BY <1>2, <2>1, <2>3 DEF SetAttribute
  <2> QED BY <1>1, <2>2, <2>3, <2>4 DEF OpFields
<1>4. IsTaken(n, g, C \cup {p}, p)
  BY <1>1, <1>3 DEF IsTaken
<1>5. PICK x : x = s.graph
  OBVIOUS
<1>6. /\ DOMAIN s = {"graph", "nodes", "removed"} /\ SameButNodes(x, g)
      /\ AreTaken(x.nodes, g, C) /\ s.removed = TailIds(g, C)
  BY <1>5 DEF IsTaking
<1>7. "nodes" \in DOMAIN x
  BY <1>6, RegularParts DEF SameButNodes, IsExecutable
<1>8. PICK all : all = InPlace(x.nodes, n)
  OBVIOUS
<1>9. PICK z : z = [x EXCEPT !.nodes = all]
  OBVIOUS
<1>10. r = MarkRemoved([s EXCEPT !.graph = z], {g.nodes[m].id})
  BY <1>2, <1>5, <1>6, <1>7, <1>8, <1>9
<1>11. /\ DOMAIN r = {"graph", "nodes", "removed"} /\ r.graph = z
       /\ r.removed = TailIds(g, C) \cup {g.nodes[m].id}
  BY <1>6, <1>10 DEF MarkRemoved
<1>12. /\ DOMAIN z = DOMAIN x /\ z.nodes = all /\ z.tensors = x.tensors /\ z.inputs = x.inputs
       /\ z.outputs = x.outputs /\ z.states = x.states
  BY <1>7, <1>9
<1>13. SameButNodes(z, g)
  BY <1>6, <1>12 DEF SameButNodes
<1>14. AreTaken(all, g, C \cup {p})
  BY <1>3, <1>4, <1>6, <1>8, PutInPlace
<1>15. TailIds(g, C) \cup {g.nodes[m].id} = TailIds(g, C \cup {p})
  BY DEF TailIds
<1> QED BY <1>11, <1>12, <1>13, <1>14, <1>15 DEF IsTaking

SoleReaders(g, C) == [c \in C |-> SoleReaderOf(g, c)]

\* What is left at the end.
IsTakenGraph(h, g, C, ops, place) ==
  LET X == Remaining(g, Tails(g, C))
  IN /\ IsRewriting(h, g) /\ AreTaken(ops, g, C)
     /\ IsTakeover(g, C, SoleReaders(g, C), Tails(g, C))
     /\ TakesOver(g, C, SoleReaders(g, C), Tails(g, C), ops)
     /\ IsListing(h.nodes, ops, X, place)
     /\ \A i \in X : IsNodeOf(g, ops[i])

\* The sweep leaves that.
LEMMA TakingLeaves ==
  ASSUME NEW g, IsRegular(g), NEW head, NEW tail, AreKinds(head, tail),
         NEW C, ArePairs(g, head, tail, C), NEW s, IsTaking(s, g, C)
  PROVE  \E ops, place : IsTakenGraph(Swept(s), g, C, ops, place)
<1>1. IsExecutable(g) /\ Len(g.nodes) \in Nat
  BY RegularParts
<1>2. PICK ops : ops = s.graph.nodes
  OBVIOUS
<1>3. PICK h : h = Swept(s)
  OBVIOUS
<1>4. GraphFields \subseteq DOMAIN g
  BY <1>1 DEF IsExecutable, GraphFields
<1>5. SameButNodes(s.graph, g) /\ AreTaken(ops, g, C) /\ s.removed = TailIds(g, C)
  BY <1>2 DEF IsTaking
<1>6. h = [s.graph EXCEPT !.nodes = WithoutOps(ops, s.removed)]
  BY <1>2, <1>3 DEF Swept
<1>7. /\ DOMAIN h = DOMAIN g /\ h.nodes = WithoutOps(ops, s.removed) /\ h.tensors = g.tensors
      /\ h.inputs = g.inputs /\ h.outputs = g.outputs /\ h.states = g.states
  BY <1>4, <1>5, <1>6 DEF SameButNodes, GraphFields
<1>8. IsRewriting(h, g)
  BY <1>7 DEF IsRewriting, IsRegular, HasFields
<1>9. PICK Gone : Gone = Tails(g, C)
  OBVIOUS
<1>10. PICK last : last = SoleReaders(g, C)
  OBVIOUS
<1>11. C \in SUBSET (1 .. Len(g.nodes)) /\ \A c \in C : IsPair(g, head, tail, c)
  BY DEF ArePairs
<1>12. IsTakeover(g, C, last, Gone)
  BY <1>9, <1>10, <1>11, PairsTakeOver DEF SoleReaders
<1>13. IsSequence(ops) /\ Len(ops) = Len(g.nodes)
       /\ \A i \in 1 .. Len(g.nodes) : IsTaken(ops[i], g, C, i)
  BY <1>5 DEF AreTaken
<1>14. TakesOver(g, C, last, Gone, ops)
  BY <1>10, <1>13 DEF TakesOver, Remaining, IsTaken, SoleReaders
<1>15. ASSUME NEW i \in 1 .. Len(g.nodes) PROVE IsNodeOf(g, ops[i])
  <2>1. IsTaken(ops[i], g, C, i)
    BY <1>13
  <2>2. IsNodeOf(g, g.nodes[i]) /\ IsRegularOp(g.nodes[i])
    BY RegularNode
  <2>3. CASE i \in C
    <3>1. PICK m \in 1 .. Len(g.nodes) : m = SoleReaderOf(g, i)
      BY <1>11, <2>3 DEF IsPair, IsSolelyRead
    <3>2. IsNodeOf(g, g.nodes[m]) /\ IsRegularOp(g.nodes[m])
      BY RegularNode
    <3>3. /\ OpFields \subseteq DOMAIN ops[i] /\ ops[i].opcode = g.nodes[i].opcode
          /\ ops[i].inputs = g.nodes[i].inputs /\ ops[i].outputs = g.nodes[m].outputs
      BY <2>1, <2>3, <3>1 DEF IsTaken
    <3>4. IsRegularOp(ops[i])
      BY <2>2, <3>2, <3>3 DEF IsRegularOp, IsOp
    <3> QED BY <2>2, <3>2, <3>3, <3>4 DEF IsNodeOf
  <2>4. CASE i \notin C
    BY <2>1, <2>2, <2>4 DEF IsTaken
  <2> QED BY <2>3, <2>4
<1>16. PICK X : X = Remaining(g, Gone)
  OBVIOUS
<1>17. \A i \in 1 .. Len(g.nodes) : ops[i].id \in s.removed <=> i \in Gone
  <2> TAKE i \in 1 .. Len(g.nodes)
  <2>1. ops[i].id = g.nodes[i].id
    BY <1>13 DEF IsTaken
  <2>2. \A c \in C : SoleReaderOf(g, c) \in 1 .. Len(g.nodes)
    BY <1>11 DEF IsPair, IsSolelyRead
  <2>3. \A c \in C : g.nodes[i].id = g.nodes[SoleReaderOf(g, c)].id <=> i = SoleReaderOf(g, c)
    BY <1>1, <2>2, IdsAreUnique
  <2> QED BY <1>5, <1>9, <2>1, <2>3 DEF TailIds, Tails
<1>18. X = Staying(ops, s.removed)
  BY <1>13, <1>16, <1>17 DEF Staying, Remaining
<1>19. PICK place : IsListing(h.nodes, ops, X, place)
  BY <1>7, <1>13, <1>18, SweepListing
<1>20. \A i \in X : IsNodeOf(g, ops[i])
  BY <1>15, <1>16 DEF Remaining
<1>21. IsTakenGraph(h, g, C, ops, place)
  BY <1>5, <1>8, <1>9, <1>10, <1>12, <1>14, <1>16, <1>19, <1>20 DEF IsTakenGraph
<1> QED BY <1>3, <1>21

\* What is left is regular.
LEMMA TakenRegular ==
  ASSUME NEW g, IsRegular(g), NEW h, NEW C, NEW ops, NEW place, IsTakenGraph(h, g, C, ops, place)
  PROVE  IsRegular(h)
<1>1. PICK last : last = SoleReaders(g, C)
  OBVIOUS
<1>2. PICK Gone : Gone = Tails(g, C)
  OBVIOUS
<1>3. PICK X : X = Remaining(g, Gone)
  OBVIOUS
<1>4. /\ IsRewriting(h, g) /\ IsTakeover(g, C, last, Gone) /\ TakesOver(g, C, last, Gone, ops)
      /\ IsListing(h.nodes, ops, X, place) /\ \A i \in X : IsNodeOf(g, ops[i])
  BY <1>1, <1>2, <1>3 DEF IsTakenGraph
<1> QED BY <1>3, <1>4, TakeoverRegular

\* So every such walk ends with a regular graph.
LEMMA TakingRegular ==
  ASSUME NEW g, IsRegular(g), NEW head, NEW tail, AreKinds(head, tail),
         NEW C, ArePairs(g, head, tail, C), NEW s, IsTaking(s, g, C)
  PROVE  IsRegular(Swept(s))
<1>1. PICK ops, place : IsTakenGraph(Swept(s), g, C, ops, place)
  BY TakingLeaves
<1> QED BY <1>1, TakenRegular

--------------------------------------------------------------------------------
(* Convolution with ReLU, and attention with the transposition after it.        *)

\* While operations take over, the readers of a tensor stay.
LEMMA TakingReaders ==
  ASSUME NEW g, IsRegular(g), NEW C, NEW s, IsTaking(s, g, C), NEW t
  PROVE  HasOps(s.graph) /\ Readers(s.graph, t) = Readers(g, t)
<1>1. PICK x : x = s.graph
  OBVIOUS
<1>2. AreTaken(x.nodes, g, C)
  BY <1>1 DEF IsTaking
<1>3. HasOps(g)
  BY RegularOps
<1>4. /\ Len(x.nodes) = Len(g.nodes) /\ DOMAIN x.nodes = 1 .. Len(g.nodes) /\ Len(g.nodes) \in Nat
      /\ \A i \in 1 .. Len(g.nodes) : x.nodes[i].inputs = g.nodes[i].inputs
                                      /\ IsSequence(g.nodes[i].inputs)
  <2>1. Len(g.nodes) \in Nat /\ \A i \in 1 .. Len(g.nodes) : IsSequence(g.nodes[i].inputs)
    BY <1>3 DEF HasOps
  <2>2. IsSequence(x.nodes) /\ Len(x.nodes) = Len(g.nodes)
    BY <1>2 DEF AreTaken
  <2>3. DOMAIN x.nodes = 1 .. Len(g.nodes)
    BY <2>2 DEF IsSequence
  <2>4. \A i \in 1 .. Len(g.nodes) : x.nodes[i].inputs = g.nodes[i].inputs
    BY <1>2 DEF AreTaken, IsTaken
  <2> QED BY <2>1, <2>2, <2>3, <2>4
<1>5. HasOps(x)
  BY <1>4 DEF HasOps
<1>6. Readers(x, t) = Readers(g, t)
  BY <1>4 DEF Readers
<1> QED BY <1>1, <1>5, <1>6

\* A convolution that is found to be the producer of a ReLU's operand has not
\* taken over yet.
LEMMA FoundConv ==
  ASSUME NEW g, IsRegular(g), NEW C, ArePairs(g, "CONV2D", "RELU", C),
         NEW s, IsTaking(s, g, C), NEW k \in 1 .. Len(g.nodes), g.nodes[k].opcode = "RELU",
         NEW conv, conv = Producer(s.graph, Operand(g.nodes[k], 1)), conv.opcode = "CONV2D",
         ConsumerCount(s.graph, conv.outputs[1]) <= 1
  PROVE  \E p \in 1 .. Len(g.nodes) : /\ conv = g.nodes[p] /\ IsPair(g, "CONV2D", "RELU", p)
                                      /\ SoleReaderOf(g, p) = k
<1>1. IsExecutable(g) /\ Len(g.nodes) \in Nat
  BY RegularParts
<1>2. PICK x : x = s.graph
  OBVIOUS
<1>3. /\ DOMAIN x.nodes = 1 .. Len(g.nodes)
      /\ \A i \in 1 .. Len(g.nodes) : IsTaken(x.nodes[i], g, C, i)
  BY <1>2 DEF IsTaking, AreTaken, IsSequence
<1>4. PICK t : t = Operand(g.nodes[k], 1)
  OBVIOUS
<1>5. t \in Range(g.nodes[k].inputs)
  <2>1. Len(g.nodes[k].inputs) = 1 /\ IsSequence(g.nodes[k].inputs)
    BY RegularNode DEF IsRegularOp, UnaryOps
  <2>2. 1 \in DOMAIN g.nodes[k].inputs
    BY <2>1 DEF IsSequence
  <2> QED BY <1>4, <2>2 DEF Operand, Range
<1>6. PICK here : here = {i \in 1 .. Len(g.nodes) : t \in Range(x.nodes[i].outputs)}
  OBVIOUS
<1>7. conv = IF here = {} THEN NoNode ELSE x.nodes[Max(here)]
  BY <1>2, <1>3, <1>4, <1>6 DEF Producer
<1>8. here # {}
  BY <1>7 DEF NoNode
<1>9. here \in SUBSET (0 .. Len(g.nodes))
  BY <1>1, <1>6
<1>10. PICK q \in here : q = Max(here) /\ \A y \in here : y <= q
  BY <1>1, <1>8, <1>9, LargestElement
<1>11. q \in 1 .. Len(g.nodes) /\ conv = x.nodes[q] /\ t \in Range(x.nodes[q].outputs)
  BY <1>6, <1>7, <1>8, <1>10
<1>12. IsTaken(x.nodes[q], g, C, q)
  BY <1>3, <1>11
<1>13. q \notin C
  <2> SUFFICES ASSUME q \in C PROVE FALSE
    OBVIOUS
  <2>1. IsPair(g, "CONV2D", "RELU", q)
    BY DEF ArePairs
  <2>2. PICK m \in 1 .. Len(g.nodes) : m = SoleReaderOf(g, q)
    BY <2>1 DEF IsPair, IsSolelyRead
  <2>3. g.nodes[m].opcode = "RELU" /\ q < m
    BY <1>11, <2>1, <2>2, NextIsLater DEF IsPair
  <2>4. m \notin C
    BY <2>3 DEF ArePairs, IsPair
  <2>5. x.nodes[m] = g.nodes[m]
    BY <1>3, <2>4 DEF IsTaken
  <2>6. x.nodes[q].outputs = g.nodes[m].outputs
    BY <1>12, <2>2 DEF IsTaken
  <2>7. m \in here
    BY <1>6, <1>11, <2>5, <2>6
  <2>8. m <= q
    BY <1>10, <2>7
  <2> QED BY <1>1, <1>11, <2>3, <2>8
<1>14. conv = g.nodes[q] /\ t \in Range(g.nodes[q].outputs)
  BY <1>11, <1>12, <1>13 DEF IsTaken
<1>15. t = conv.outputs[1] /\ t = Result(g, q)
  BY <1>11, <1>14, OneResult DEF Result
<1>16. HasOps(x) /\ Readers(x, t) = Readers(g, t)
  BY <1>2, TakingReaders
<1>17. k \in Readers(x, t)
  BY <1>5, <1>16 DEF Readers
<1>18. ConsumerCount(x, t) <= 1
  BY <1>2, <1>15
<1>19. \A j \in Readers(x, t) : j = k
  BY <1>16, <1>17, <1>18, SoleReader
<1>20. Readers(g, Result(g, q)) = {k}
  BY <1>15, <1>16, <1>17, <1>19
<1>21. SoleReaderOf(g, q) = k
  BY <1>20 DEF SoleReaderOf
<1>22. IsPair(g, "CONV2D", "RELU", q)
  BY <1>14, <1>20, <1>21 DEF IsPair, IsSolelyRead
<1> QED BY <1>11, <1>14, <1>21, <1>22

\* What an in-place walk has done so far.
IsProgress(s, g, head, tail) == \E C : ArePairs(g, head, tail, C) /\ IsTaking(s, g, C)

\* One step of the fusion of convolutions.
LEMMA ConvReluKeeps ==
  ASSUME NEW g, IsRegular(g), NEW s, IsProgress(s, g, "CONV2D", "RELU"),
         NEW k \in 1 .. Len(g.nodes), NEW r, r = ConvReluNode(s, g.nodes[k])
  PROVE  IsProgress(r, g, "CONV2D", "RELU")
<1>1. PICK C : ArePairs(g, "CONV2D", "RELU", C) /\ IsTaking(s, g, C)
  BY DEF IsProgress
<1>2. PICK conv : conv = Producer(s.graph, Operand(g.nodes[k], 1))
  OBVIOUS
<1>3. CASE /\ g.nodes[k].opcode = "RELU" /\ Len(g.nodes[k].inputs) = 1 /\ conv.opcode = "CONV2D"
           /\ ConsumerCount(s.graph, conv.outputs[1]) <= 1
  <2>1. PICK p \in 1 .. Len(g.nodes) : /\ conv = g.nodes[p] /\ IsPair(g, "CONV2D", "RELU", p)
                                       /\ SoleReaderOf(g, p) = k
    BY <1>1, <1>2, <1>3, FoundConv
  <2>2. r = MarkRemoved([s EXCEPT !.graph.nodes = InPlace(@,
              SetAttribute([conv EXCEPT !.outputs = g.nodes[k].outputs], "fused_relu", TRUE))],
              {g.nodes[k].id})
    BY <1>2, <1>3 DEF ConvReluNode
  <2>3. r = MarkRemoved([s EXCEPT !.graph.nodes = InPlace(@,
              SetAttribute([g.nodes[p] EXCEPT !.outputs = g.nodes[k].outputs], "fused_relu", TRUE))],
              {g.nodes[k].id})
    BY <2>1, <2>2
  <2>4. IsTaking(r, g, C \cup {p})
    <3>1. "fused_relu" = KeyOf(g.nodes[p].opcode) /\ TRUE = ValueOf(g.nodes[p].opcode)
      BY <2>1 DEF IsPair, KeyOf, ValueOf
    <3> QED BY <1>1, <2>1, <2>3, <3>1, TakingExtends
  <2>5. ArePairs(g, "CONV2D", "RELU", C \cup {p})
    BY <1>1, <2>1 DEF ArePairs
  <2> QED BY <2>4, <2>5 DEF IsProgress
<1>4. CASE ~(/\ g.nodes[k].opcode = "RELU" /\ Len(g.nodes[k].inputs) = 1 /\ conv.opcode = "CONV2D"
             /\ ConsumerCount(s.graph, conv.outputs[1]) <= 1)
  <2>1. r = s
    BY <1>2, <1>4 DEF ConvReluNode
  <2> QED BY <2>1
<1> QED BY <1>3, <1>4

\* One step of that of attentions.
LEMMA SdpaKeeps ==
  ASSUME NEW g, IsRegular(g), NEW s, IsProgress(s, g, "SDPA", "TRANSPOSE"),
         NEW k \in 1 .. Len(g.nodes), NEW r, r = SdpaNode(s, g.nodes[k])
  PROVE  IsProgress(r, g, "SDPA", "TRANSPOSE")
<1>1. PICK C : ArePairs(g, "SDPA", "TRANSPOSE", C) /\ IsTaking(s, g, C)
  BY DEF IsProgress
<1>2. PICK t : t = Result(g, k)
  OBVIOUS
<1>3. PICK readers : readers = Consumers(s.graph, t)
  OBVIOUS
<1>4. PICK trans : trans = readers[1]
  OBVIOUS
<1> DEFINE New == MarkRemoved([s EXCEPT !.graph.nodes = InPlace(@,
              SetAttribute([g.nodes[k] EXCEPT !.outputs = trans.outputs], "fused_transpose", 1))],
              {trans.id})
<1> DEFINE Fits == /\ ~IsOutputOrState(s.graph, t)
                   /\ {Axis(Attribute(trans, "dim0", 0), RankOf(s.graph, t)),
                       Axis(Attribute(trans, "dim1", 1), RankOf(s.graph, t))} = {2, 3}
<1>5. r = s \/ (/\ g.nodes[k].opcode = "SDPA" /\ Len(readers) = 1 /\ trans.opcode = "TRANSPOSE"
                /\ Fits /\ r = New)
  BY <1>2, <1>3, <1>4 DEF SdpaNode, IsSole, Result
<1>6. CASE r = s
  BY <1>6
<1>7. CASE /\ g.nodes[k].opcode = "SDPA" /\ Len(readers) = 1 /\ trans.opcode = "TRANSPOSE"
           /\ Fits /\ r = New
  <2>1. PICK x : x = s.graph
    OBVIOUS
  <2>2. HasOps(x) /\ Readers(x, t) = Readers(g, t)
    BY <1>1, <2>1, TakingReaders
  <2>3. ConsumerCount(x, t) = 1
    BY <1>3, <1>7, <2>1 DEF ConsumerCount
  <2>4. PICK m \in 1 .. Len(x.nodes) : Readers(x, t) = {m} /\ Consumers(x, t)[1] = x.nodes[m]
    BY <2>2, <2>3, SoleConsumer
  <2>5. trans = x.nodes[m]
    BY <1>3, <1>4, <2>1, <2>4
  <2>6. Len(x.nodes) = Len(g.nodes) /\ \A i \in 1 .. Len(g.nodes) : IsTaken(x.nodes[i], g, C, i)
    BY <1>1, <2>1 DEF IsTaking, AreTaken
  <2>7. m \in 1 .. Len(g.nodes) /\ IsTaken(x.nodes[m], g, C, m)
    BY <2>4, <2>6
  <2>8. g.nodes[m].opcode = "TRANSPOSE"
    BY <1>7, <2>5, <2>7 DEF IsTaken
  <2>9. m \notin C
    BY <1>1, <2>8 DEF ArePairs, IsPair
  <2>10. trans = g.nodes[m]
    BY <2>5, <2>7, <2>9 DEF IsTaken
  <2>11. Readers(g, Result(g, k)) = {m}
    BY <1>2, <2>2, <2>4
  <2>12. SoleReaderOf(g, k) = m
    BY <2>7, <2>11 DEF SoleReaderOf
  <2>17. IsFoldable(g, k)
    <3>1. x.outputs = g.outputs /\ x.tensors = g.tensors
      BY <1>1, <2>1 DEF IsTaking, SameButNodes
    <3>2. RankOf(x, t) = RankOf(g, t)
      BY <3>1 DEF RankOf
    <3>3. t \notin Range(g.outputs)
      BY <1>7, <2>1, <3>1 DEF IsOutputOrState
    <3>4. {Axis(Attribute(trans, "dim0", 0), RankOf(g, t)),
           Axis(Attribute(trans, "dim1", 1), RankOf(g, t))} = {2, 3}
      BY <1>7, <2>1, <3>2
    <3> QED BY <1>2, <2>10, <2>12, <3>3, <3>4 DEF IsFoldable
  <2>13. IsPair(g, "SDPA", "TRANSPOSE", k)
    BY <1>7, <2>7, <2>8, <2>11, <2>12, <2>17 DEF IsPair, IsSolelyRead
  <2>14. r = MarkRemoved([s EXCEPT !.graph.nodes = InPlace(@,
              SetAttribute([g.nodes[k] EXCEPT !.outputs = g.nodes[m].outputs], "fused_transpose", 1))],
              {g.nodes[m].id})
    BY <1>7, <2>10
  <2>15. IsTaking(r, g, C \cup {k})
    <3>1. "fused_transpose" = KeyOf(g.nodes[k].opcode) /\ 1 = ValueOf(g.nodes[k].opcode)
      BY <1>7 DEF KeyOf, ValueOf
    <3> QED BY <1>1, <2>7, <2>12, <2>14, <3>1, TakingExtends
  <2>16. ArePairs(g, "SDPA", "TRANSPOSE", C \cup {k})
    BY <1>1, <2>13 DEF ArePairs
  <2> QED BY <2>15, <2>16 DEF IsProgress
<1> QED BY <1>5, <1>6, <1>7

\* The two walks.
IsConvReluWalk(walk, g) ==
  walk = [k \in 0 .. Len(g.nodes) |->
            IF k = 0 THEN Walk(g) ELSE ConvReluNode(walk[k - 1], g.nodes[k])]

\* There is the first, and the fusion is its last value, swept.
LEMMA ConvReluDefined ==
  ASSUME NEW g, Len(g.nodes) \in Nat
  PROVE  \E walk : IsConvReluWalk(walk, g) /\ FuseConvRelu(g) = Swept(walk[Len(g.nodes)])
<1>1. PICK walk : walk = CHOOSE f : IsConvReluWalk(f, g)
  OBVIOUS
<1>2. PICK w : IsPass(w, "conv2d_relu", g, Walk(g))
  BY PassDefined
<1>3. IsConvReluWalk(w, g)
  BY <1>2 DEF IsPass, IsConvReluWalk, StepOf
<1>4. IsConvReluWalk(walk, g)
  BY <1>1, <1>3
<1>5. FuseConvRelu(g) = Swept(walk[Len(g.nodes)])
  BY <1>1 DEF FuseConvRelu, OverNodes, IsConvReluWalk
<1> QED BY <1>4, <1>5

IsSdpaWalk(walk, g) ==
  walk = [k \in 0 .. Len(g.nodes) |->
            IF k = 0 THEN Walk(g) ELSE SdpaNode(walk[k - 1], g.nodes[k])]

\* There is the second.
LEMMA SdpaDefined ==
  ASSUME NEW g, Len(g.nodes) \in Nat
  PROVE  \E walk : IsSdpaWalk(walk, g) /\ FuseSdpaTranspose(g) = Swept(walk[Len(g.nodes)])
<1>1. PICK walk : walk = CHOOSE f : IsSdpaWalk(f, g)
  OBVIOUS
<1>2. PICK w : IsPass(w, "sdpa_transpose", g, Walk(g))
  BY PassDefined
<1>3. IsSdpaWalk(w, g)
  BY <1>2 DEF IsPass, IsSdpaWalk, StepOf
<1>4. IsSdpaWalk(walk, g)
  BY <1>1, <1>3
<1>5. FuseSdpaTranspose(g) = Swept(walk[Len(g.nodes)])
  BY <1>1 DEF FuseSdpaTranspose, OverNodes, IsSdpaWalk
<1> QED BY <1>4, <1>5

\* Nothing has been done at first.
LEMMA StartProgress ==
  ASSUME NEW g, IsRegular(g), NEW head, NEW tail
  PROVE  IsProgress(Walk(g), g, head, tail)
<1>1. IsTaking(Walk(g), g, {})
  BY TakingStarts
<1>2. ArePairs(g, head, tail, {})
  BY DEF ArePairs
<1> QED BY <1>1, <1>2 DEF IsProgress

\* The fusion of convolutions takes over results of ReLU.
LEMMA ConvReluTakes ==
  ASSUME NEW g, IsRegular(g)
  PROVE  \E C, s : ArePairs(g, "CONV2D", "RELU", C) /\ IsTaking(s, g, C) /\ FuseConvRelu(g) = Swept(s)
<1>1. Len(g.nodes) \in Nat
  BY RegularParts
<1>2. PICK walk : IsConvReluWalk(walk, g) /\ FuseConvRelu(g) = Swept(walk[Len(g.nodes)])
  BY <1>1, ConvReluDefined
<1> DEFINE Good == {k \in Nat : IsProgress(walk[k], g, "CONV2D", "RELU")}
<1>3. 0 \in Good
  <2>1. walk[0] = Walk(g)
    BY <1>1, <1>2 DEF IsConvReluWalk
  <2> QED BY <2>1, StartProgress
<1>4. ASSUME NEW n \in Nat, n < Len(g.nodes), n \in Good PROVE n + 1 \in Good
  <2>1. PICK k : k = n + 1
    OBVIOUS
  <2>2. k \in 1 .. Len(g.nodes) /\ k - 1 = n /\ k \in Nat /\ k # 0 /\ k \in 0 .. Len(g.nodes)
    BY <1>1, <1>4, <2>1
  <2>3. walk[k] = ConvReluNode(walk[n], g.nodes[k])
    BY <1>2, <2>2 DEF IsConvReluWalk
  <2>4. IsProgress(walk[n], g, "CONV2D", "RELU")
    BY <1>4
  <2>5. IsProgress(walk[k], g, "CONV2D", "RELU")
    BY <2>2, <2>3, <2>4, ConvReluKeeps
  <2> QED BY <2>1, <2>2, <2>5
<1>5. \A n \in 0 .. Len(g.nodes) : n \in Good
  <2>1. \A n \in Nat : n < Len(g.nodes) /\ n \in Good => n + 1 \in Good
    BY <1>4
  <2> HIDE DEF Good
  <2> QED BY <1>1, <1>3, <2>1, UpTo
<1>6. IsProgress(walk[Len(g.nodes)], g, "CONV2D", "RELU")
  BY <1>1, <1>5
<1>7. PICK s : s = walk[Len(g.nodes)]
  OBVIOUS
<1>8. \E C : ArePairs(g, "CONV2D", "RELU", C) /\ IsTaking(s, g, C)
  BY <1>6, <1>7 DEF IsProgress
<1> QED BY <1>2, <1>7, <1>8

\* Fusing convolutions with the ReLU after them keeps a graph regular.
LEMMA ConvReluRegular ==
  ASSUME NEW g, IsRegular(g)
  PROVE  IsRegular(FuseConvRelu(g))
<1>1. PICK C, s : ArePairs(g, "CONV2D", "RELU", C) /\ IsTaking(s, g, C) /\ FuseConvRelu(g) = Swept(s)
  BY ConvReluTakes
<1>2. AreKinds("CONV2D", "RELU")
  BY DEF AreKinds, UnaryOps
<1>3. IsRegular(Swept(s))
  BY <1>1, <1>2, TakingRegular
<1> QED BY <1>1, <1>3

\* That of attentions takes over results of transpositions.
LEMMA SdpaTakes ==
  ASSUME NEW g, IsRegular(g)
  PROVE  \E C, s : ArePairs(g, "SDPA", "TRANSPOSE", C) /\ IsTaking(s, g, C) /\ FuseSdpaTranspose(g) = Swept(s)
<1>1. Len(g.nodes) \in Nat
  BY RegularParts
<1>2. PICK walk : IsSdpaWalk(walk, g) /\ FuseSdpaTranspose(g) = Swept(walk[Len(g.nodes)])
  BY <1>1, SdpaDefined
<1> DEFINE Good == {k \in Nat : IsProgress(walk[k], g, "SDPA", "TRANSPOSE")}
<1>3. 0 \in Good
  <2>1. walk[0] = Walk(g)
    BY <1>1, <1>2 DEF IsSdpaWalk
  <2> QED BY <2>1, StartProgress
<1>4. ASSUME NEW n \in Nat, n < Len(g.nodes), n \in Good PROVE n + 1 \in Good
  <2>1. PICK k : k = n + 1
    OBVIOUS
  <2>2. k \in 1 .. Len(g.nodes) /\ k - 1 = n /\ k \in Nat /\ k # 0 /\ k \in 0 .. Len(g.nodes)
    BY <1>1, <1>4, <2>1
  <2>3. walk[k] = SdpaNode(walk[n], g.nodes[k])
    BY <1>2, <2>2 DEF IsSdpaWalk
  <2>4. IsProgress(walk[n], g, "SDPA", "TRANSPOSE")
    BY <1>4
  <2>5. IsProgress(walk[k], g, "SDPA", "TRANSPOSE")
    BY <2>2, <2>3, <2>4, SdpaKeeps
  <2> QED BY <2>1, <2>2, <2>5
<1>5. \A n \in 0 .. Len(g.nodes) : n \in Good
  <2>1. \A n \in Nat : n < Len(g.nodes) /\ n \in Good => n + 1 \in Good
    BY <1>4
  <2> HIDE DEF Good
  <2> QED BY <1>1, <1>3, <2>1, UpTo
<1>6. IsProgress(walk[Len(g.nodes)], g, "SDPA", "TRANSPOSE")
  BY <1>1, <1>5
<1>7. PICK s : s = walk[Len(g.nodes)]
  OBVIOUS
<1>8. \E C : ArePairs(g, "SDPA", "TRANSPOSE", C) /\ IsTaking(s, g, C)
  BY <1>6, <1>7 DEF IsProgress
<1> QED BY <1>2, <1>7, <1>8

\* Folding the transposition after an attention into it keeps a graph regular.
LEMMA SdpaRegular ==
  ASSUME NEW g, IsRegular(g)
  PROVE  IsRegular(FuseSdpaTranspose(g))
<1>1. PICK C, s : ArePairs(g, "SDPA", "TRANSPOSE", C) /\ IsTaking(s, g, C) /\ FuseSdpaTranspose(g) = Swept(s)
  BY SdpaTakes
<1>2. AreKinds("SDPA", "TRANSPOSE")
  BY DEF AreKinds, UnaryOps
<1>3. IsRegular(Swept(s))
  BY <1>1, <1>2, TakingRegular
<1> QED BY <1>1, <1>3

--------------------------------------------------------------------------------
(* SwiGLU: a product reads what the activation of its gate reads.               *)

\* The producer of a tensor, if there is one, is the operation it is the result of.
LEMMA ProducerIs ==
  ASSUME NEW g, IsRegular(g), NEW t, NEW n, n = Producer(g, t), n.opcode # "none"
  PROVE  \E p \in 1 .. Len(g.nodes) : n = g.nodes[p] /\ t = Result(g, p)
<1>1. Len(g.nodes) \in Nat /\ DOMAIN g.nodes = 1 .. Len(g.nodes)
  BY RegularParts
<1>2. PICK here : here = {i \in 1 .. Len(g.nodes) : t \in Range(g.nodes[i].outputs)}
  OBVIOUS
<1>3. n = IF here = {} THEN NoNode ELSE g.nodes[Max(here)]
  BY <1>1, <1>2 DEF Producer
<1>4. here # {}
  BY <1>3 DEF NoNode
<1>5. here \in SUBSET (0 .. Len(g.nodes))
  BY <1>1, <1>2
<1>6. PICK p \in here : p = Max(here)
  BY <1>1, <1>4, <1>5, LargestElement
<1>7. p \in 1 .. Len(g.nodes) /\ t \in Range(g.nodes[p].outputs) /\ n = g.nodes[p]
  BY <1>2, <1>3, <1>4, <1>6
<1>8. t = Result(g, p)
  BY <1>7, OneResult DEF Result
<1> QED BY <1>7, <1>8

\* What the activation at p gates at c is read by c and, under the declared shape
\* of its operand, by n.
IsFactor(n, g, c, p) ==
  /\ Len(n.inputs) = 2 /\ n.inputs[1] = g.nodes[p].inputs[1]
  /\ g.tensors[n.inputs[1]].shape = g.tensors[n.inputs[2]].shape
  /\ \E j, o \in 1 .. 2 : /\ j # o /\ DOMAIN g.nodes[c].inputs = 1 .. 2
                         /\ g.nodes[c].inputs[j] = Result(g, p) /\ g.nodes[c].inputs[o] = n.inputs[2]

\* The operation at c of g, with an operand of the activation at p.
IsGated(n, g, c, p) ==
  /\ g.nodes[c].opcode = "MUL" /\ g.nodes[p].opcode = "SILU"
  /\ OpFields \subseteq DOMAIN n /\ n.opcode = "SWIGLU"
  /\ n.id = g.nodes[c].id /\ n.outputs = g.nodes[c].outputs
  /\ IsSequence(n.inputs)
  /\ \A t \in Range(n.inputs) : t \in Range(g.nodes[p].inputs) \/ t \in Range(g.nodes[c].inputs)
  /\ IsFactor(n, g, c, p)

AreGated(nodes, g, n, C) ==
  /\ IsSequence(nodes) /\ Len(nodes) = n /\ C \subseteq 1 .. n
  /\ \A i \in C : \E p \in 1 .. i - 1 : IsGated(nodes[i], g, i, p)
  /\ \A i \in 1 .. n : i \notin C => nodes[i] = g.nodes[i]

\* Activations that go, each read by one product only, which reads it no more.
AreBypassed(nodes, g, n, C, Gone) ==
  /\ Gone \subseteq 1 .. n
  /\ \A p \in Gone :
       /\ g.nodes[p].opcode = "SILU"
       /\ \E c \in C : /\ Readers(g, Result(g, p)) = {c}
                       /\ Result(g, p) \notin Range(nodes[c].inputs)

IsGating(s, g, n, C, Gone) ==
  /\ DOMAIN s = {"graph", "nodes", "removed"} /\ s.graph = g
  /\ AreGated(s.nodes, g, n, C) /\ AreBypassed(s.nodes, g, n, C, Gone)
  /\ s.removed = {g.nodes[p].id : p \in Gone}

IsAppended(all, nodes, n, new) ==
  /\ IsSequence(all) /\ Len(all) = n + 1 /\ all[n + 1] = new
  /\ \A i \in 1 .. n : all[i] = nodes[i]

\* Appending does that.
LEMMA AppendIs ==
  ASSUME NEW nodes, IsSequence(nodes), NEW n \in Nat, Len(nodes) = n, NEW new,
         NEW all, all = Append(nodes, new)
  PROVE  IsAppended(all, nodes, n, new)
<1>1. PICK S : S = Range(nodes) \cup {new}
  OBVIOUS
<1>2. nodes \in Seq(S)
  BY <1>1 DEF IsSequence
<1>3. all \in Seq(S) /\ Len(all) = n + 1 /\ all[n + 1] = new /\ \A i \in 1 .. n : all[i] = nodes[i]
  BY <1>1, <1>2
<1> QED BY <1>3, SequenceOfRange DEF IsAppended

\* One more operation, gated or not.
LEMMA GatedAppend ==
  ASSUME NEW g, NEW nodes, NEW n \in Nat, NEW C, AreGated(nodes, g, n, C),
         NEW k, k = n + 1, NEW all, NEW new, all = Append(nodes, new),
         NEW D, (D = C /\ new = g.nodes[k])
                  \/ (D = C \cup {k} /\ \E p \in 1 .. n : IsGated(new, g, k, p))
  PROVE  AreGated(all, g, k, D)
<1>1. IsSequence(nodes) /\ Len(nodes) = n /\ C \subseteq 1 .. n
  BY DEF AreGated
<1>2. IsSequence(all) /\ Len(all) = k /\ all[k] = new /\ \A i \in 1 .. n : all[i] = nodes[i]
  <2>1. IsAppended(all, nodes, n, new)
    BY <1>1, AppendIs
  <2> QED BY <2>1 DEF IsAppended
<1>3. 1 .. k = (1 .. n) \cup {k} /\ k \notin 1 .. n /\ k - 1 = n
  OBVIOUS
<1>4. D \subseteq 1 .. k
  BY <1>1, <1>3
<1>5. ASSUME NEW i \in D PROVE \E p \in 1 .. i - 1 : IsGated(all[i], g, i, p)
  <2>1. CASE i \in C
    <3>1. i \in 1 .. n /\ all[i] = nodes[i]
      BY <1>1, <1>2, <2>1
    <3> QED BY <2>1, <3>1 DEF AreGated
  <2>2. CASE i \notin C
    <3>1. i = k /\ \E p \in 1 .. n : IsGated(new, g, k, p)
      BY <2>2
    <3> QED BY <1>2, <1>3, <3>1
  <2> QED BY <2>1, <2>2
<1>6. ASSUME NEW i \in 1 .. k, i \notin D PROVE all[i] = g.nodes[i]
  <2>1. CASE i = k
    BY <1>2, <1>6, <2>1
  <2>2. CASE i # k
    <3>1. i \in 1 .. n /\ i \notin C
      BY <1>3, <1>6, <2>2
    <3> QED BY <1>2, <3>1 DEF AreGated
  <2> QED BY <2>1, <2>2
<1> QED BY <1>2, <1>4, <1>5, <1>6 DEF AreGated

\* What goes still goes when one more operation is listed.
LEMMA BypassedAppend ==
  ASSUME NEW g, NEW nodes, NEW n \in Nat, NEW C, AreGated(nodes, g, n, C),
         NEW Gone, AreBypassed(nodes, g, n, C, Gone),
         NEW new, NEW all, all = Append(nodes, new), NEW D, C \subseteq D
  PROVE  AreBypassed(all, g, n + 1, D, Gone)
<1>1. IsSequence(nodes) /\ Len(nodes) = n /\ C \subseteq 1 .. n
  BY DEF AreGated
<1>2. \A i \in 1 .. n : all[i] = nodes[i]
  BY <1>1, AppendIs DEF IsAppended
<1>3. \A c \in C : c \in D /\ all[c] = nodes[c]
  BY <1>1, <1>2
<1>4. Gone \subseteq 1 .. n + 1
  BY DEF AreBypassed
<1> QED BY <1>3, <1>4 DEF AreBypassed

\* What keeping an operation does.
LEMMA KeepIs ==
  ASSUME NEW s, DOMAIN s = {"graph", "nodes", "removed"}, NEW n, NEW r, r = Keep(s, n)
  PROVE  /\ DOMAIN r = {"graph", "nodes", "removed"} /\ r.graph = s.graph
         /\ r.nodes = Append(s.nodes, n) /\ r.removed = s.removed
BY DEF Keep

\* What marking operations for removal does.
LEMMA MarkIs ==
  ASSUME NEW s, DOMAIN s = {"graph", "nodes", "removed"}, NEW ids, NEW r, r = MarkRemoved(s, ids)
  PROVE  /\ DOMAIN r = {"graph", "nodes", "removed"} /\ r.graph = s.graph
         /\ r.nodes = s.nodes /\ r.removed = s.removed \cup ids
BY DEF MarkRemoved

\* A product of an activation that is an operand of it, at one of two places.
LEMMA ActivationIs ==
  ASSUME NEW g, IsRegular(g), NEW k \in 1 .. Len(g.nodes),
         NEW j \in DOMAIN g.nodes[k].inputs, NEW silu, silu = Producer(g, g.nodes[k].inputs[j]),
         silu.opcode = "SILU"
  PROVE  \E p \in 1 .. k - 1 :
           /\ silu = g.nodes[p] /\ g.nodes[k].inputs[j] = Result(g, p)
           /\ Operand(silu, 1) \in Range(g.nodes[p].inputs) /\ Operand(silu, 1) # Result(g, p)
<1>1. IsExecutable(g) /\ Len(g.nodes) \in Nat
  BY RegularParts
<1>2. PICK p \in 1 .. Len(g.nodes) : silu = g.nodes[p] /\ g.nodes[k].inputs[j] = Result(g, p)
  BY ProducerIs
<1>3. Result(g, p) \in Range(g.nodes[p].outputs)
  BY <1>1, FirstResult DEF Result
<1>4. Result(g, p) \in Range(g.nodes[k].inputs)
  BY <1>2 DEF Range
<1>5. p < k
  BY <1>1, <1>3, <1>4, ReadsEarlier
<1>6. Operand(silu, 1) \in Range(g.nodes[p].inputs)
  <2>1. Len(g.nodes[p].inputs) = 1 /\ IsSequence(g.nodes[p].inputs)
    BY <1>2, RegularNode DEF IsRegularOp, UnaryOps
  <2>2. 1 \in DOMAIN g.nodes[p].inputs
    BY <2>1 DEF IsSequence
  <2> QED BY <1>2, <2>2 DEF Operand, Range
<1>7. Operand(silu, 1) # Result(g, p)
  <2> SUFFICES ASSUME Operand(silu, 1) = Result(g, p) PROVE FALSE
    OBVIOUS
  <2>1. PICK t : t = Result(g, p)
    OBVIOUS
  <2>2. t \in Range(g.nodes[p].outputs) /\ t \in Range(g.nodes[p].inputs)
    BY <1>3, <1>6, <2>1
  <2>3. p < p
    BY <1>1, <2>2, ReadsEarlier
  <2> QED BY <1>1, <2>3
<1> QED BY <1>1, <1>2, <1>5, <1>6, <1>7

\* The product that reads the gate.
Gates(n, g, c, p, gate, up) == IsGated(n, g, c, p) /\ Range(n.inputs) = {gate, up}

\* The product that reads it is gated.
LEMMA GatedIs ==
  ASSUME NEW g, IsRegular(g), NEW k \in 1 .. Len(g.nodes), g.nodes[k].opcode = "MUL",
         NEW p \in 1 .. Len(g.nodes), g.nodes[p].opcode = "SILU",
         NEW gate \in Range(g.nodes[p].inputs), gate = g.nodes[p].inputs[1],
         NEW up \in Range(g.nodes[k].inputs), g.tensors[gate].shape = g.tensors[up].shape,
         DOMAIN g.nodes[k].inputs = 1 .. 2, NEW j \in 1 .. 2, NEW o \in 1 .. 2, j # o,
         g.nodes[k].inputs[j] = Result(g, p), g.nodes[k].inputs[o] = up,
         NEW two, two = <<gate, up>>,
         NEW new, new = [g.nodes[k] EXCEPT !.opcode = "SWIGLU", !.inputs = two]
  PROVE  Gates(new, g, k, p, gate, up)
<1>1. OpFields \subseteq DOMAIN g.nodes[k]
  BY RegularNode DEF IsRegularOp, IsOp
<1>3. two \in Seq({gate, up}) /\ DOMAIN two = {1, 2} /\ two[1] = gate /\ two[2] = up
  OBVIOUS
<1>4. Range(two) = {gate, up}
  BY <1>3 DEF Range
<1>5. IsSequence(two)
  BY <1>3, SequenceOfRange
<1>6. /\ DOMAIN new = DOMAIN g.nodes[k] /\ new.opcode = "SWIGLU" /\ new.inputs = two
      /\ new.id = g.nodes[k].id /\ new.outputs = g.nodes[k].outputs
  BY <1>1 DEF OpFields
<1>7. Len(two) = 2
  BY <1>3
<1>8. IsFactor(new, g, k, p)
  BY <1>3, <1>6, <1>7 DEF IsFactor
<1> QED BY <1>1, <1>4, <1>5, <1>6, <1>8 DEF IsGated, Gates

\* One step in which the operation at k = n + 1 is kept.
LEMMA GatingKeeps ==
  ASSUME NEW g, NEW n \in Nat, NEW s, NEW C, NEW Gone, IsGating(s, g, n, C, Gone),
         NEW k, k = n + 1, NEW r, r = Keep(s, g.nodes[k])
  PROVE  IsGating(r, g, k, C, Gone)
<1>1. /\ DOMAIN s = {"graph", "nodes", "removed"} /\ s.graph = g
      /\ AreGated(s.nodes, g, n, C) /\ AreBypassed(s.nodes, g, n, C, Gone)
      /\ s.removed = {g.nodes[p].id : p \in Gone}
  BY DEF IsGating
<1>2. /\ DOMAIN r = {"graph", "nodes", "removed"} /\ r.graph = g
      /\ r.nodes = Append(s.nodes, g.nodes[k]) /\ r.removed = s.removed
  BY <1>1, KeepIs
<1>3. PICK all : all = r.nodes
  OBVIOUS
<1>4. AreGated(all, g, k, C)
  BY <1>1, <1>2, <1>3, GatedAppend
<1>5. AreBypassed(all, g, k, C, Gone)
  BY <1>1, <1>2, <1>3, BypassedAppend
<1> QED BY <1>1, <1>2, <1>3, <1>4, <1>5 DEF IsGating

\* One step in which it becomes a gated product: the activation goes if nothing
\* else reads it, and this no more.
LEMMA GatingGates ==
  ASSUME NEW g, NEW n \in Nat, NEW s, NEW C, NEW Gone, IsGating(s, g, n, C, Gone),
         NEW k, k = n + 1, NEW p \in 1 .. n, NEW new, IsGated(new, g, k, p),
         NEW Q, Q = {} \/ (/\ Q = {p} /\ Result(g, p) \notin Range(new.inputs)
                           /\ Readers(g, Result(g, p)) = {k}),
         NEW r, r = MarkRemoved(Keep(s, new), {g.nodes[i].id : i \in Q})
  PROVE  IsGating(r, g, k, C \cup {k}, Gone \cup Q)
<1>1. /\ DOMAIN s = {"graph", "nodes", "removed"} /\ s.graph = g
      /\ AreGated(s.nodes, g, n, C) /\ AreBypassed(s.nodes, g, n, C, Gone)
      /\ s.removed = {g.nodes[i].id : i \in Gone}
  BY DEF IsGating
<1>2. PICK y : y = Keep(s, new)
  OBVIOUS
<1>3. PICK ids : ids = {g.nodes[i].id : i \in Q}
  OBVIOUS
<1>4. /\ DOMAIN y = {"graph", "nodes", "removed"} /\ y.graph = g
      /\ y.nodes = Append(s.nodes, new) /\ y.removed = s.removed
  BY <1>1, <1>2, KeepIs
<1>5. r = MarkRemoved(y, ids)
  BY <1>2, <1>3
<1>6. /\ DOMAIN r = {"graph", "nodes", "removed"} /\ r.graph = g
      /\ r.nodes = Append(s.nodes, new) /\ r.removed = s.removed \cup ids
  <2>1. /\ DOMAIN r = {"graph", "nodes", "removed"} /\ r.graph = y.graph
        /\ r.nodes = y.nodes /\ r.removed = y.removed \cup ids
    BY <1>4, <1>5, MarkIs
  <2> QED BY <1>4, <2>1
<1>7. PICK all : all = r.nodes
  OBVIOUS
<1>8. PICK D : D = C \cup {k}
  OBVIOUS
<1>9. AreGated(all, g, k, D)
  BY <1>1, <1>6, <1>7, <1>8, GatedAppend
<1>10. AreBypassed(all, g, k, D, Gone)
  BY <1>1, <1>6, <1>7, <1>8, BypassedAppend
<1>11. all[k] = new
  <2>1. IsSequence(s.nodes) /\ Len(s.nodes) = n
    BY <1>1 DEF AreGated
  <2>2. PICK nodes : nodes = s.nodes
    OBVIOUS
  <2>3. IsSequence(nodes) /\ Len(nodes) = n /\ all = Append(nodes, new)
    BY <1>6, <1>7, <2>1, <2>2
  <2>4. all[n + 1] = new
    BY <2>3, AppendIs DEF IsAppended
  <2> QED BY <2>4
<1>12. Q \subseteq 1 .. k /\ \A i \in Q : g.nodes[i].opcode = "SILU"
  BY DEF IsGated
<1>13. \A i \in Q : \E c \in D : /\ Readers(g, Result(g, i)) = {c}
                                 /\ Result(g, i) \notin Range(all[c].inputs)
  BY <1>8, <1>11
<1>14. AreBypassed(all, g, k, D, Gone \cup Q)
  BY <1>10, <1>12, <1>13 DEF AreBypassed
<1>15. s.removed \cup ids = {g.nodes[i].id : i \in Gone \cup Q}
  BY <1>1, <1>3
<1> QED BY <1>6, <1>7, <1>8, <1>9, <1>14, <1>15 DEF IsGating

IsGatingAt(s, g, n) == \E C, Gone : IsGating(s, g, n, C, Gone)

\* The operand of a product that is the activation, and the other one.
LEMMA FactorsAre ==
  ASSUME NEW g, NEW node, Len(node.inputs) = 2, IsSequence(node.inputs),
         NEW p, p = Producer(g, Operand(node, 1)), NEW q, q = Producer(g, Operand(node, 2)),
         NEW silu, silu = IF p.opcode = "SILU" THEN p ELSE q,
         NEW up, up = IF p.opcode = "SILU" THEN Operand(node, 2) ELSE Operand(node, 1)
  PROVE  \E j, o \in DOMAIN node.inputs : /\ j # o /\ up = node.inputs[o]
                                          /\ silu = Producer(g, node.inputs[j])
<1>1. DOMAIN node.inputs = 1 .. 2
  BY DEF IsSequence
<1>2. PICK one \in DOMAIN node.inputs : one = 1
  BY <1>1
<1>3. PICK two \in DOMAIN node.inputs : two = 2
  BY <1>1
<1>4. Operand(node, 1) = node.inputs[one] /\ Operand(node, 2) = node.inputs[two] /\ one # two
  BY <1>1, <1>2, <1>3 DEF Operand
<1>5. CASE p.opcode = "SILU"
  <2>1. silu = Producer(g, node.inputs[one]) /\ up = node.inputs[two]
    BY <1>4, <1>5
  <2> QED BY <1>4, <2>1
<1>6. CASE p.opcode # "SILU"
  <2>1. silu = Producer(g, node.inputs[two]) /\ up = node.inputs[one]
    BY <1>4, <1>6
  <2> QED BY <1>4, <2>1
<1> QED BY <1>5, <1>6

\* One step of the fusion.
LEMMA SwigluKeeps ==
  ASSUME NEW g, IsRegular(g), NEW n \in Nat, NEW s, IsGatingAt(s, g, n),
         NEW k \in 1 .. Len(g.nodes), k = n + 1, NEW r, r = Visit(s, g.nodes[k], SwigluNode)
  PROVE  IsGatingAt(r, g, k)
<1>1. IsExecutable(g) /\ Len(g.nodes) \in Nat
  BY RegularParts
<1>2. PICK C, Gone : IsGating(s, g, n, C, Gone)
  BY DEF IsGatingAt
<1>3. s.graph = g /\ Gone \subseteq 1 .. n /\ s.removed = {g.nodes[i].id : i \in Gone}
  BY <1>2 DEF IsGating, AreBypassed
<1>4. PICK node : node = g.nodes[k]
  OBVIOUS
<1>5. node.id \notin s.removed
  <2> SUFFICES ASSUME NEW i \in Gone, node.id = g.nodes[i].id PROVE FALSE
    BY <1>3
  <2>1. i \in 1 .. Len(g.nodes) /\ i # k
    BY <1>1, <1>3
  <2> QED BY <1>1, <1>4, <2>1, IdsAreUnique
<1>6. r = SwigluNode(s, node)
  BY <1>4, <1>5 DEF Visit
<1>7. PICK p : p = Producer(g, Operand(node, 1))
  OBVIOUS
<1>8. PICK q : q = Producer(g, Operand(node, 2))
  OBVIOUS
<1>9. PICK silu : silu = IF p.opcode = "SILU" THEN p ELSE q
  OBVIOUS
<1>10. PICK up : up = IF p.opcode = "SILU" THEN Operand(node, 2) ELSE Operand(node, 1)
  OBVIOUS
<1>11. PICK gate : gate = Operand(silu, 1)
  OBVIOUS
<1>12. PICK sole : sole = IF ConsumerCount(g, silu.outputs[1]) <= 1 THEN {silu.id} ELSE {}
  OBVIOUS
<1>13. PICK new : new = [node EXCEPT !.opcode = "SWIGLU", !.inputs = <<gate, up>>]
  OBVIOUS
<1>14. \/ r = Keep(s, node)
       \/ /\ node.opcode = "MUL" /\ Len(node.inputs) = 2 /\ silu.opcode = "SILU"
          /\ g.tensors[gate].shape = g.tensors[up].shape
          /\ r = MarkRemoved(Keep(s, new), sole)
  BY <1>3, <1>6, <1>7, <1>8, <1>9, <1>10, <1>11, <1>12, <1>13 DEF SwigluNode, IsBinary
<1>15. CASE r = Keep(s, node)
  <2>1. IsGating(r, g, k, C, Gone)
    BY <1>2, <1>4, <1>15, GatingKeeps
  <2> QED BY <2>1 DEF IsGatingAt
<1>16. CASE /\ node.opcode = "MUL" /\ Len(node.inputs) = 2 /\ silu.opcode = "SILU"
            /\ g.tensors[gate].shape = g.tensors[up].shape
            /\ r = MarkRemoved(Keep(s, new), sole)
  <2>1. IsSequence(node.inputs)
    BY <1>4, RegularNode
  <2>2. \E a, b \in DOMAIN node.inputs : /\ a # b /\ up = node.inputs[b]
                                         /\ silu = Producer(g, node.inputs[a])
    BY <1>7, <1>8, <1>9, <1>10, <1>16, <2>1, FactorsAre
  <2>3. PICK j \in DOMAIN g.nodes[k].inputs, o \in DOMAIN g.nodes[k].inputs :
          /\ j # o /\ up = g.nodes[k].inputs[o] /\ silu = Producer(g, g.nodes[k].inputs[j])
    BY <1>4, <2>2
  <2>4. PICK m \in 1 .. k - 1 :
          /\ silu = g.nodes[m] /\ g.nodes[k].inputs[j] = Result(g, m)
          /\ Operand(silu, 1) \in Range(g.nodes[m].inputs) /\ Operand(silu, 1) # Result(g, m)
    BY <1>16, <2>3, ActivationIs
  <2>5. m \in 1 .. n /\ m \in 1 .. Len(g.nodes)
    BY <1>1, <2>4
  <2>6. up \in Range(g.nodes[k].inputs) /\ gate \in Range(g.nodes[m].inputs)
    BY <1>11, <2>3, <2>4 DEF Range
  <2>17. PICK two : two = <<gate, up>>
    OBVIOUS
  <2>7. new = [g.nodes[k] EXCEPT !.opcode = "SWIGLU", !.inputs = two]
    BY <1>4, <1>13, <2>17
  <2>8. g.nodes[k].opcode = "MUL" /\ g.nodes[m].opcode = "SILU"
    BY <1>4, <1>16, <2>4
  <2>9. IsGated(new, g, k, m) /\ Range(new.inputs) = {gate, up}
    <3>1. m \in 1 .. Len(g.nodes)
      BY <2>5
    <3>2. gate \in Range(g.nodes[m].inputs)
      BY <2>6
    <3>3. up \in Range(g.nodes[k].inputs)
      BY <2>6
    <3>4. g.nodes[k].opcode = "MUL"
      BY <2>8
    <3>5. g.nodes[m].opcode = "SILU"
      BY <2>8
    <3>7. DOMAIN g.nodes[k].inputs = 1 .. 2
      BY <1>4, <1>16, <2>1 DEF IsSequence
    <3>8. PICK a \in 1 .. 2 : a = j
      BY <3>7
    <3>9. PICK b \in 1 .. 2 : b = o
      BY <3>7
    <3>10. g.nodes[k].inputs[a] = Result(g, m) /\ g.nodes[k].inputs[b] = up /\ a # b
      BY <2>3, <2>4, <3>8, <3>9
    <3>11. gate = g.nodes[m].inputs[1]
      <4>1. Len(g.nodes[m].inputs) = 1 /\ IsSequence(g.nodes[m].inputs)
        BY <2>8, <3>1, RegularNode DEF IsRegularOp, UnaryOps
      <4>2. 1 \in DOMAIN g.nodes[m].inputs
        BY <4>1 DEF IsSequence
      <4> QED BY <1>11, <2>4, <4>2 DEF Operand
    <3>12. g.tensors[gate].shape = g.tensors[up].shape
      BY <1>16
    <3>6. Gates(new, g, k, m, gate, up)
      BY <2>7, <2>17, <3>1, <3>2, <3>3, <3>4, <3>5, <3>7, <3>10, <3>11, <3>12, GatedIs
    <3> QED BY <3>6 DEF Gates
  <2>10. PICK t : t = Result(g, m)
    OBVIOUS
  <2>11. silu.outputs[1] = t /\ g.nodes[k].inputs[j] = t /\ gate # t
    BY <1>11, <2>4, <2>10 DEF Result
  <2>12. CASE ConsumerCount(g, t) <= 1
    <3>1. HasOps(g)
      BY RegularOps
    <3>2. k \in Readers(g, t)
      BY <2>11 DEF Readers, Range
    <3>3. \A i \in Readers(g, t) : i = k
      BY <2>12, <3>1, <3>2, SoleReader
    <3>4. Readers(g, Result(g, m)) = {k}
      BY <2>10, <3>2, <3>3
    <3>5. up # t
      <4> SUFFICES ASSUME up = t PROVE FALSE
        OBVIOUS
      <4>1. g.nodes[k].inputs[o] = t /\ g.nodes[k].inputs[j] = t
        BY <2>3, <2>11
      <4>2. j = o
        BY <2>12, <3>1, <4>1, SoleUse
      <4> QED BY <2>3, <4>2
    <3>6. Result(g, m) \notin Range(new.inputs)
      BY <2>9, <2>10, <2>11, <3>5
    <3>7. PICK Q : Q = {m}
      OBVIOUS
    <3>8. sole = {g.nodes[i].id : i \in Q}
      BY <1>12, <2>4, <2>11, <2>12, <3>7
    <3>9. r = MarkRemoved(Keep(s, new), {g.nodes[i].id : i \in Q})
      BY <1>16, <3>8
    <3>10. Q = {m} /\ Result(g, m) \notin Range(new.inputs)
           /\ Readers(g, Result(g, m)) = {k}
      BY <3>4, <3>6, <3>7
    <3>11. IsGating(r, g, k, C \cup {k}, Gone \cup Q)
      BY <1>2, <2>5, <2>9, <3>9, <3>10, GatingGates
    <3> QED BY <3>11 DEF IsGatingAt
  <2>13. CASE ~(ConsumerCount(g, t) <= 1)
    <3>1. PICK Q : Q = {}
      OBVIOUS
    <3>2. sole = {g.nodes[i].id : i \in Q}
      BY <1>12, <2>11, <2>13, <3>1
    <3>3. r = MarkRemoved(Keep(s, new), {g.nodes[i].id : i \in Q})
      BY <1>16, <3>2
    <3>4. IsGating(r, g, k, C \cup {k}, Gone \cup Q)
      BY <1>2, <2>5, <2>9, <3>1, <3>3, GatingGates
    <3> QED BY <3>4 DEF IsGatingAt
  <2> QED BY <2>12, <2>13
<1> QED BY <1>14, <1>15, <1>16

IsSwigluWalk(walk, g) ==
  walk = [k \in 0 .. Len(g.nodes) |->
            IF k = 0 THEN Walk(g) ELSE Visit(walk[k - 1], g.nodes[k], SwigluNode)]

\* There is such a function, and the fusion is its last value.
LEMMA SwigluDefined ==
  ASSUME NEW g, Len(g.nodes) \in Nat
  PROVE  \E walk : IsSwigluWalk(walk, g) /\ FuseSwiglu(g) = Walked(walk[Len(g.nodes)])
<1>1. PICK walk : walk = CHOOSE f : IsSwigluWalk(f, g)
  OBVIOUS
<1>2. PICK w : IsPass(w, "swiglu", g, Walk(g))
  BY PassDefined
<1>3. IsSwigluWalk(w, g)
  BY <1>2 DEF IsPass, IsSwigluWalk, StepOf
<1>4. IsSwigluWalk(walk, g)
  BY <1>1, <1>3
<1>5. FuseSwiglu(g) = Walked(walk[Len(g.nodes)])
  BY <1>1 DEF FuseSwiglu, OverNodes, IsSwigluWalk
<1> QED BY <1>4, <1>5

\* Nothing is gated at first.
LEMMA GatingStarts ==
  ASSUME NEW g
  PROVE  IsGatingAt(Walk(g), g, 0)
<1>1. PICK s : s = Walk(g)
  OBVIOUS
<1>2. DOMAIN s = {"graph", "nodes", "removed"} /\ s.graph = g /\ s.removed = {} /\ s.nodes = <<>>
  BY <1>1 DEF Walk
<1>3. IsSequence(s.nodes) /\ Len(s.nodes) = 0
  <2>1. s.nodes \in Seq({}) /\ Len(s.nodes) = 0
    BY <1>2
  <2> QED BY <2>1, SequenceOfRange
<1>4. AreGated(s.nodes, g, 0, {})
  BY <1>3 DEF AreGated
<1>5. AreBypassed(s.nodes, g, 0, {}, {})
  BY DEF AreBypassed
<1>6. IsGating(s, g, 0, {}, {})
  BY <1>2, <1>4, <1>5 DEF IsGating
<1> QED BY <1>1, <1>6 DEF IsGatingAt

\* What the walk leaves.
IsGatedGraph(h, g, C, Gone, ops, place) ==
  LET X == Remaining(g, Gone)
  IN /\ IsRewriting(h, g) /\ AreGated(ops, g, Len(g.nodes), C)
     /\ AreBypassed(ops, g, Len(g.nodes), C, Gone) /\ IsInlining(g, C, Gone, ops)
     /\ IsListing(h.nodes, ops, X, place) /\ \A i \in X : IsNodeOf(g, ops[i])

\* What the last state leaves is that.
LEMMA GatedLeaves ==
  ASSUME NEW g, IsRegular(g), NEW s, NEW C, NEW Gone, NEW n, n = Len(g.nodes),
         IsGating(s, g, n, C, Gone)
  PROVE  \E ops, place : IsGatedGraph(Walked(s), g, C, Gone, ops, place)
<1>1. IsExecutable(g) /\ Len(g.nodes) \in Nat
  BY RegularParts
<1>2. PICK ops : ops = s.nodes
  OBVIOUS
<1>3. PICK h : h = Walked(s)
  OBVIOUS
<1>4. s.graph = g /\ AreGated(ops, g, n, C) /\ AreBypassed(ops, g, n, C, Gone)
      /\ s.removed = {g.nodes[p].id : p \in Gone}
  BY <1>2 DEF IsGating
<1>5. h = [g EXCEPT !.nodes = WithoutOps(ops, s.removed)]
  BY <1>2, <1>3, <1>4 DEF Walked
<1>6. {"tensors", "nodes", "inputs", "outputs", "states"} \subseteq DOMAIN g
  BY <1>1 DEF IsExecutable
<1>7. /\ DOMAIN h = DOMAIN g /\ h.nodes = WithoutOps(ops, s.removed) /\ h.tensors = g.tensors
      /\ h.inputs = g.inputs /\ h.outputs = g.outputs /\ h.states = g.states
  BY <1>5, <1>6
<1>8. IsRewriting(h, g)
  BY <1>7 DEF IsRewriting, IsRegular, HasFields
<1>9. /\ IsSequence(ops) /\ Len(ops) = n /\ C \subseteq 1 .. n
      /\ \A i \in C : \E p \in 1 .. i - 1 : IsGated(ops[i], g, i, p)
      /\ \A i \in 1 .. n : i \notin C => ops[i] = g.nodes[i]
  BY <1>4 DEF AreGated
<1>10. /\ Gone \subseteq 1 .. n
       /\ \A p \in Gone :
            /\ g.nodes[p].opcode = "SILU"
            /\ \E c \in C : /\ \A j \in 1 .. Len(g.nodes) : Result(g, p) \in Range(g.nodes[j].inputs) => j = c
                            /\ Result(g, p) \notin Range(ops[c].inputs)
  <2>1. \A t, c : Readers(g, t) = {c} =>
          \A j \in 1 .. Len(g.nodes) : t \in Range(g.nodes[j].inputs) => j = c
    BY DEF Readers
  <2> QED BY <1>4, <2>1 DEF AreBypassed
<1>11. \A c \in C : g.nodes[c].opcode = "MUL"
  BY <1>9 DEF IsGated
<1>12. \A i \in 1 .. n : ops[i].id = g.nodes[i].id /\ ops[i].outputs = g.nodes[i].outputs
  BY <1>9 DEF IsGated
<1>13. IsInlining(g, C, Gone, ops)
  <2>1. C \cap Gone = {}
    BY <1>10, <1>11
  <2>2. ASSUME NEW i \in Remaining(g, Gone), NEW t \in Range(ops[i].inputs)
        PROVE  \/ t \in Range(g.nodes[i].inputs)
               \/ i \in C /\ \E p \in 1 .. Len(g.nodes) : p < i /\ p \notin C /\ t \in Range(g.nodes[p].inputs)
    <3>1. i \in 1 .. n
      BY DEF Remaining
    <3>2. CASE i \notin C
      BY <1>9, <3>1, <3>2
    <3>3. CASE i \in C
      <4>1. PICK p \in 1 .. i - 1 : IsGated(ops[i], g, i, p)
        BY <1>9, <3>3
      <4>2. p \in 1 .. Len(g.nodes) /\ p < i
        BY <1>1, <3>1, <4>1
      <4>3. g.nodes[p].opcode = "SILU" /\ (t \in Range(g.nodes[p].inputs) \/ t \in Range(g.nodes[i].inputs))
        BY <4>1 DEF IsGated
      <4>4. p \notin C
        BY <1>11, <4>3
      <4> QED BY <3>3, <4>2, <4>3, <4>4
    <3> QED BY <3>2, <3>3
  <2>3. \A i \in Remaining(g, Gone) : ops[i].outputs = g.nodes[i].outputs /\ ops[i].id = g.nodes[i].id
    BY <1>12 DEF Remaining
  <2>4. \A p \in Gone : \E c \in C :
          /\ \A k \in 1 .. Len(g.nodes) : g.nodes[p].outputs[1] \in Range(g.nodes[k].inputs) => k = c
          /\ g.nodes[p].outputs[1] \notin Range(ops[c].inputs)
    BY <1>10 DEF Result
  <2> QED BY <1>9, <1>10, <2>1, <2>2, <2>3, <2>4 DEF IsInlining
<1>14. ASSUME NEW i \in 1 .. n PROVE IsNodeOf(g, ops[i])
  <2>1. IsNodeOf(g, g.nodes[i]) /\ IsRegularOp(g.nodes[i])
    BY RegularNode
  <2>2. CASE i \notin C
    BY <1>9, <2>1, <2>2
  <2>3. CASE i \in C
    <3>1. PICK p \in 1 .. i - 1 : IsGated(ops[i], g, i, p)
      BY <1>9, <2>3
    <3>2. p \in 1 .. Len(g.nodes)
      BY <1>1, <3>1
    <3>3. IsNodeOf(g, g.nodes[p])
      BY <3>2, RegularNode
    <3>4. /\ OpFields \subseteq DOMAIN ops[i] /\ ops[i].opcode = "SWIGLU"
          /\ ops[i].outputs = g.nodes[i].outputs /\ IsSequence(ops[i].inputs)
          /\ \A t \in Range(ops[i].inputs) : t \in Range(g.nodes[p].inputs) \/ t \in Range(g.nodes[i].inputs)
      BY <3>1 DEF IsGated
    <3>5. IsRegularOp(ops[i])
      BY <2>1, <3>4 DEF IsRegularOp, IsOp, UnaryOps
    <3>6. Range(ops[i].inputs) \cup Range(ops[i].outputs) \subseteq DOMAIN g.tensors
      BY <2>1, <3>3, <3>4 DEF IsNodeOf
    <3> QED BY <3>5, <3>6 DEF IsNodeOf
  <2> QED BY <2>2, <2>3
<1>15. PICK X : X = Remaining(g, Gone)
  OBVIOUS
<1>16. \A i \in 1 .. n : ops[i].id \in s.removed <=> i \in Gone
  <2> TAKE i \in 1 .. n
  <2>1. \A p \in Gone : g.nodes[i].id = g.nodes[p].id <=> i = p
    BY <1>1, <1>10, IdsAreUnique
  <2> QED BY <1>4, <1>12, <2>1
<1>17. X = Staying(ops, s.removed)
  BY <1>9, <1>15, <1>16 DEF Staying, Remaining
<1>18. PICK place : IsListing(h.nodes, ops, X, place)
  BY <1>7, <1>9, <1>17, SweepListing
<1>19. \A i \in X : IsNodeOf(g, ops[i])
  BY <1>14, <1>15 DEF Remaining
<1>20. IsGatedGraph(h, g, C, Gone, ops, place)
  BY <1>4, <1>8, <1>13, <1>15, <1>18, <1>19 DEF IsGatedGraph
<1> QED BY <1>3, <1>20

\* It is regular.
LEMMA GatedRegular ==
  ASSUME NEW g, IsRegular(g), NEW h, NEW C, NEW Gone, NEW ops, NEW place,
         IsGatedGraph(h, g, C, Gone, ops, place)
  PROVE  IsRegular(h)
<1>1. PICK X : X = Remaining(g, Gone)
  OBVIOUS
<1>2. /\ IsRewriting(h, g) /\ IsInlining(g, C, Gone, ops)
      /\ IsListing(h.nodes, ops, X, place) /\ \A i \in X : IsNodeOf(g, ops[i])
  BY <1>1 DEF IsGatedGraph
<1> QED BY <1>1, <1>2, InliningRegular

\* The fusion gates products.
LEMMA SwigluGates ==
  ASSUME NEW g, IsRegular(g)
  PROVE  \E C, Gone, ops, place : IsGatedGraph(FuseSwiglu(g), g, C, Gone, ops, place)
<1>1. Len(g.nodes) \in Nat
  BY RegularParts
<1>2. PICK walk : IsSwigluWalk(walk, g) /\ FuseSwiglu(g) = Walked(walk[Len(g.nodes)])
  BY <1>1, SwigluDefined
<1> DEFINE Good == {k \in Nat : IsGatingAt(walk[k], g, k)}
<1>3. 0 \in Good
  <2>1. walk[0] = Walk(g)
    BY <1>1, <1>2 DEF IsSwigluWalk
  <2> QED BY <2>1, GatingStarts
<1>4. ASSUME NEW n \in Nat, n < Len(g.nodes), n \in Good PROVE n + 1 \in Good
  <2>1. PICK k : k = n + 1
    OBVIOUS
  <2>2. k \in 1 .. Len(g.nodes) /\ k - 1 = n /\ k \in Nat /\ k # 0 /\ k \in 0 .. Len(g.nodes)
    BY <1>1, <1>4, <2>1
  <2>3. walk[k] = Visit(walk[n], g.nodes[k], SwigluNode)
    BY <1>2, <2>2 DEF IsSwigluWalk
  <2>4. IsGatingAt(walk[n], g, n)
    BY <1>4
  <2>5. IsGatingAt(walk[k], g, k)
    BY <2>1, <2>2, <2>3, <2>4, SwigluKeeps
  <2> QED BY <2>1, <2>2, <2>5
<1>5. \A n \in 0 .. Len(g.nodes) : n \in Good
  <2>1. \A n \in Nat : n < Len(g.nodes) /\ n \in Good => n + 1 \in Good
    BY <1>4
  <2> HIDE DEF Good
  <2> QED BY <1>1, <1>3, <2>1, UpTo
<1>6. IsGatingAt(walk[Len(g.nodes)], g, Len(g.nodes))
  BY <1>1, <1>5
<1>7. PICK s : s = walk[Len(g.nodes)]
  OBVIOUS
<1>8. PICK n : n = Len(g.nodes)
  OBVIOUS
<1>9. PICK C, Gone : IsGating(s, g, n, C, Gone)
  BY <1>6, <1>7, <1>8 DEF IsGatingAt
<1>10. \E ops, place : IsGatedGraph(Walked(s), g, C, Gone, ops, place)
  BY <1>8, <1>9, GatedLeaves
<1> QED BY <1>2, <1>7, <1>10

\* Fusing a gate's activation and the product keeps a graph regular.
LEMMA SwigluRegular ==
  ASSUME NEW g, IsRegular(g)
  PROVE  IsRegular(FuseSwiglu(g))
<1>1. PICK C, Gone, ops, place : IsGatedGraph(FuseSwiglu(g), g, C, Gone, ops, place)
  BY SwigluGates
<1> QED BY <1>1, GatedRegular

--------------------------------------------------------------------------------
(* The pipeline with the fusions that ask who reads what they remove            *)

StageNames ==
  {"constant_folding", "rope", "layer_norm", "rms_norm", "softmax", "conv2d_relu", "swiglu",
   "approx_gelu", "bias_gelu", "horizontal", "swiglu_halves", "sdpa_transpose", "bake_rms",
   "bake_affine", "conv2d_relu_again", "redundant", "dead_code"}

\* Every stage has one of these names.
LEMMA StagesNamed == Len(Stages) \in Nat /\ \A k \in 1 .. Len(Stages) : Stages[k] \in StageNames
<1>1. PICK S : S = StageNames
  OBVIOUS
<1>2. PICK first : first = <<"constant_folding">>
  OBVIOUS
<1>3. PICK last : last = <<"redundant", "dead_code">>
  OBVIOUS
<1>4. PICK fusions : fusions = Fusions
  OBVIOUS
<1>5. first \in Seq(S) /\ last \in Seq(S)
  <2>1. {"constant_folding"} \subseteq S /\ {"redundant", "dead_code"} \subseteq S
    BY <1>1 DEF StageNames
  <2>2. first \in Seq({"constant_folding"}) /\ last \in Seq({"redundant", "dead_code"})
    BY <1>2, <1>3
  <2> QED BY <2>1, <2>2, SeqMonotonic
<1>6. fusions \in Seq(S)
  <2>1. fusions \in Seq({"rope", "layer_norm", "rms_norm", "softmax", "conv2d_relu", "swiglu",
             "approx_gelu", "bias_gelu", "horizontal", "swiglu_halves", "sdpa_transpose",
             "bake_rms", "bake_affine", "conv2d_relu_again"})
    BY <1>4 DEF Fusions
  <2>2. {"rope", "layer_norm", "rms_norm", "softmax", "conv2d_relu", "swiglu",
             "approx_gelu", "bias_gelu", "horizontal", "swiglu_halves", "sdpa_transpose",
             "bake_rms", "bake_affine", "conv2d_relu_again"} \subseteq S
    BY <1>1 DEF StageNames
  <2> QED BY <2>1, <2>2, SeqMonotonic
<1>7. PICK begun : begun = first \o fusions
  OBVIOUS
<1>8. begun \in Seq(S)
  BY <1>5, <1>6, <1>7, ConcatLen
<1>9. PICK once : once = begun \o last
  OBVIOUS
<1>10. once \in Seq(S)
  BY <1>5, <1>8, <1>9, ConcatLen
<1>11. Pipeline = once
  BY <1>2, <1>3, <1>4, <1>7, <1>9 DEF Pipeline
<1>12. PICK twice : twice = once \o once
  OBVIOUS
<1>13. twice \in Seq(S)
  BY <1>10, <1>12, ConcatLen
<1>14. PICK all : all = twice \o fusions
  OBVIOUS
<1>15. all \in Seq(S)
  BY <1>6, <1>13, <1>14, ConcatLen
<1>16. Stages = all
  BY <1>4, <1>11, <1>12, <1>14 DEF Stages
<1>17. Len(all) \in Nat /\ \A k \in 1 .. Len(all) : all[k] \in S
  BY <1>15
<1> QED BY <1>1, <1>16, <1>17

\* What is not enabled.
LEMMA OnlySafeEnabled ==
  ASSUME options \subseteq SafeFusions, NEW stage \in StageNames, IsEnabled(stage)
  PROVE  stage \in {"constant_folding", "conv2d_relu", "swiglu", "sdpa_transpose",
                    "redundant", "dead_code"}
<1>1. \A o \in options : o \in {"conv2d_relu", "swiglu", "sdpa_transpose"}
  BY DEF SafeFusions
<1>2. stage # "approx_gelu" /\ stage # "horizontal" /\ stage # "swiglu_halves"
      /\ stage # "conv2d_relu_again"
  <2>1. "approx_gelu" \notin options /\ "bias_gelu" \notin options /\ "horizontal_mlp" \notin options
        /\ "horizontal_qkv" \notin options /\ "bake_affine" \notin options
    BY <1>1
  <2> QED BY <2>1 DEF IsEnabled
<1>3. stage \in {"constant_folding", "redundant", "dead_code"} \/ stage \in options
  BY <1>2 DEF IsEnabled
<1> QED BY <1>1, <1>3

\* A stage of a safe case keeps a graph regular.
LEMMA StageRegular ==
  ASSUME options \subseteq SafeFusions, NEW stage \in StageNames, NEW g, IsRegular(g),
         NEW h, h = IF IsEnabled(stage) THEN Rewritten(stage, g) ELSE g
  PROVE  IsRegular(h)
<1>1. CASE ~IsEnabled(stage)
  BY <1>1
<1>2. CASE IsEnabled(stage)
  <2>1. h = Rewritten(stage, g)
    BY <1>2
  <2>2. CASE stage = "constant_folding"
    <3>1. h = ConstantFolding(g)
      BY <2>1, <2>2 DEF Rewritten
    <3> QED BY <3>1, FoldingRegular
  <2>3. CASE stage = "conv2d_relu"
    <3>1. h = FuseConvRelu(g)
      BY <2>1, <2>3 DEF Rewritten
    <3> QED BY <3>1, ConvReluRegular
  <2>4. CASE stage = "swiglu"
    <3>1. h = FuseSwiglu(g)
      BY <2>1, <2>4 DEF Rewritten
    <3> QED BY <3>1, SwigluRegular
  <2>5. CASE stage = "sdpa_transpose"
    <3>1. h = FuseSdpaTranspose(g)
      BY <2>1, <2>5 DEF Rewritten
    <3> QED BY <3>1, SdpaRegular
  <2>6. CASE stage = "redundant"
    <3>1. h = RedundantCastPruner(g)
      BY <2>1, <2>6 DEF Rewritten
    <3> QED BY <3>1, RedundantRegular
  <2>7. CASE stage = "dead_code"
    <3>1. h = DeadCodeElimination(g)
      BY <2>1, <2>7 DEF Rewritten
    <3> QED BY <3>1, DeadCodeRegular
  <2> QED BY <1>2, <2>2, <2>3, <2>4, <2>5, <2>6, <2>7, OnlySafeEnabled
<1> QED BY <1>1, <1>2

\* The inductive invariant: in a safe case the graph stays regular.
StaysRegular == /\ at \in Nat
                /\ IsSafeCase => IsRegular(graph) /\ ~raised

\* It holds at first.
LEMMA StaysRegularInit == Init => StaysRegular
<1> SUFFICES ASSUME Init PROVE StaysRegular
  OBVIOUS
<1>1. graph = source.graph /\ at = 0 /\ ~raised
  BY DEF Init
<1> QED BY <1>1 DEF StaysRegular, IsSafeCase

\* Every step keeps it.
LEMMA StaysRegularNext == StaysRegular /\ [Next]_vars => StaysRegular'
<1> SUFFICES ASSUME StaysRegular, [Next]_vars PROVE StaysRegular'
  OBVIOUS
<1>1. CASE RunStage
  <2>1. PICK stage : /\ stage = Stages[at + 1]
                     /\ graph' = IF IsEnabled(stage) THEN Rewritten(stage, graph) ELSE graph
                     /\ raised' = \/ stage = "horizontal" /\ IsEnabled(stage)
                                       /\ FuseHorizontal(graph, options).failed
                                  \/ EndsPass(at + 1) /\ ~NamesExist(graph')
    BY <1>1 DEF RunStage
  <2>2. at < Len(Stages) /\ at' = at + 1 /\ source' = source /\ options' = options /\ at \in Nat
    BY <1>1 DEF RunStage, StaysRegular
  <2>3. at + 1 \in 1 .. Len(Stages)
    BY <2>2, StagesNamed
  <2>4. stage \in StageNames
    BY <2>1, <2>3, StagesNamed
  <2>5. ASSUME IsSafeCase' PROVE IsRegular(graph') /\ ~raised'
    <3>1. IsSafeCase
      BY <2>2, <2>5 DEF IsSafeCase
    <3>2. options \subseteq SafeFusions /\ IsRegular(graph)
      BY <3>1 DEF IsSafeCase, StaysRegular
    <3>3. PICK h : h = graph'
      OBVIOUS
    <3>4. h = IF IsEnabled(stage) THEN Rewritten(stage, graph) ELSE graph
      BY <2>1, <3>3
    <3>5. IsRegular(h)
      BY <2>4, <3>2, <3>4, StageRegular
    <3>6. NamesExist(h)
      BY <3>5, RegularParts
    <3>7. ~(stage = "horizontal" /\ IsEnabled(stage))
      BY <2>4, <3>2, OnlySafeEnabled
    <3>8. ~raised'
      BY <2>1, <3>3, <3>6, <3>7
    <3> QED BY <3>3, <3>5, <3>8
  <2>6. at' \in Nat
    BY <2>2
  <2> QED BY <2>5, <2>6 DEF StaysRegular
<1>2. CASE UNCHANGED vars
  <2>1. UNCHANGED <<source, options, graph, at, raised>>
    BY <1>2 DEF vars
  <2> QED BY <2>1 DEF StaysRegular, IsSafeCase
<1> QED BY <1>1, <1>2 DEF Next, Finished

\* In a safe case every stage leaves a graph that can run, is well formed and names no
\* tensor that it does not have, and none raises.
THEOREM StaysRegularTheorem == Spec => []StaysRegular
BY StaysRegularInit, StaysRegularNext, PTL DEF Spec

\* In a safe case the graph can run after every stage, and no pass raises.
THEOREM SafeCasesCompile == Spec => [](IsSafeCase => Executable)
<1>1. StaysRegular => (IsSafeCase => Executable)
  BY DEF StaysRegular, IsRegular, Executable
<1> QED BY <1>1, StaysRegularTheorem, PTL

\* In a safe case the pipeline leaves nothing dead.
THEOREM SafeCasesNothingDead == Spec => [](IsSafeCase => NothingDead)
<1> DEFINE Inv == at \in Nat /\ (IsSafeCase => NothingDead)
<1>1. Init => Inv
  BY DeadCodeStages DEF Init, NothingDead
<1>2. StaysRegular /\ Inv /\ [Next]_vars => Inv'
  <2> SUFFICES ASSUME StaysRegular, at \in Nat, IsSafeCase => NothingDead, [Next]_vars
               PROVE  at' \in Nat /\ (IsSafeCase' => NothingDead')
    OBVIOUS
  <2>1. CASE RunStage
    <3>1. at' = at + 1 /\ source' = source /\ options' = options
      BY <2>1 DEF RunStage
    <3>2. ASSUME at' \in {17, 34}, IsSafeCase' PROVE NoneDead(graph')
      <4>1. at + 1 \in {17, 34}
        BY <3>1, <3>2
      <4>2. Stages[at + 1] = "dead_code"
        BY <4>1, DeadCodeStages
      <4>3. graph' = DeadCodeElimination(graph)
        BY <2>1, <4>2, DeadCodeStep
      <4>4. IsRegular(graph)
        BY <3>1, <3>2 DEF IsSafeCase, StaysRegular
      <4>5. IsExecutable(graph)
        BY <4>4 DEF IsRegular
      <4> QED BY <4>3, <4>5, DeadCodeCorrect
    <3> QED BY <3>1, <3>2, DeadCodeStages DEF NothingDead
  <2>2. CASE UNCHANGED vars
    BY <2>2 DEF vars, NothingDead, IsSafeCase
  <2> QED BY <2>1, <2>2 DEF Next, Finished
<1>3. Inv => (IsSafeCase => NothingDead)
  OBVIOUS
<1> QED BY <1>1, <1>2, <1>3, StaysRegularTheorem, PTL DEF Spec
================================================================================
