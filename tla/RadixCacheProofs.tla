-------------------------- MODULE RadixCacheProofs --------------------------
(***************************************************************************)
(* Proofs about RadixCache for every finite set of requests, all prompts   *)
(* and all hash functions: the invariants, and, where no two prompts that  *)
(* are served collide, that match_prefix returns pages of the prompt for   *)
(* whatever is looked up and that the tree implements PrefixCache.         *)
(*                                                                         *)
(* Every operation that adds or touches nodes walks down a row, the paths  *)
(* of consecutive pages of one prompt; WalkTicks and WalkClosed say what   *)
(* such a walk keeps.  GoodTree is what the tree keeps by itself; the      *)
(* counts (RefCountIsHolders) need in addition that a request holds a      *)
(* row (RetainedIsPrefix).  The loop of evict_lru is a recursive function: *)
(* EvictLoop shows that it is defined, by the induction of NumberLemmas.   *)
(***************************************************************************)
EXTENDS RadixCache, NumberLemmas, FiniteSetTheorems, SequenceTheorems, TLAPS

----------------------------------------------------------------------------
(* Paths *)

Hashes == {Hash[c] : c \in Chunks}

PathSet == Seq(Hashes) \ {<<>>}

\* The first n pages of a prompt as a path: its length, its hashes, its beginnings.
LEMMA PathFacts ==
  ASSUME NEW prompt \in Seq(Chunks), NEW n \in 0..Len(prompt)
  PROVE  /\ PathOf(prompt, n) \in Seq(Hashes)
         /\ Len(PathOf(prompt, n)) = n
         /\ \A i \in 1..n : PathOf(prompt, n)[i] = Hash[prompt[i]]
         /\ n > 0 => PathOf(prompt, n) \in PathSet
<1>1. n \in Nat /\ \A i \in 1..n : prompt[i] \in Chunks
  OBVIOUS
<1>2. \A i \in 1..n : Hash[prompt[i]] \in Hashes
  BY <1>1 DEF Hashes
<1>3. PathOf(prompt, n) \in [1..n -> Hashes]
  BY <1>2 DEF PathOf
<1>4. PathOf(prompt, n) \in Seq(Hashes) /\ Len(PathOf(prompt, n)) = n
  BY <1>1, <1>3
<1>5. n > 0 => PathOf(prompt, n) # <<>>
  BY <1>4
<1> QED BY <1>3, <1>4, <1>5 DEF PathOf, PathSet

\* The beginning of a prompt's path is the path of the prompt's beginning.
LEMMA PathBeginning ==
  ASSUME NEW prompt \in Seq(Chunks), NEW n \in 0..Len(prompt), NEW m \in 0..n
  PROVE  SubSeq(PathOf(prompt, n), 1, m) = PathOf(prompt, m)
<1>1. SubSeq(PathOf(prompt, n), 1, m) = [i \in 1..m |-> PathOf(prompt, n)[i]]
  BY PathFacts
<1>2. \A i \in 1..m : PathOf(prompt, n)[i] = Hash[prompt[i]]
  BY PathFacts
<1> QED BY <1>1, <1>2 DEF PathOf

\* A beginning of a path, and its parent.
LEMMA BeginningFacts ==
  ASSUME NEW q \in PathSet, NEW i \in 1..Len(q)
  PROVE  /\ SubSeq(q, 1, i) \in PathSet
         /\ Len(SubSeq(q, 1, i)) = i
         /\ \A j \in 1..i : SubSeq(q, 1, i)[j] = q[j]
         /\ i < Len(q) => Parent(SubSeq(q, 1, i + 1)) = SubSeq(q, 1, i)
<1>1. q \in Seq(Hashes) /\ Len(q) \in Nat
  BY DEF PathSet
<1>2. \A j \in 1..Len(q) : q[j] \in Hashes
  BY <1>1
<1>3. /\ SubSeq(q, 1, i) \in Seq(Hashes)
      /\ Len(SubSeq(q, 1, i)) = i
      /\ \A j \in 1..i : SubSeq(q, 1, i)[j] = q[j]
  BY <1>1, <1>2
<1>4. ASSUME i < Len(q) PROVE Parent(SubSeq(q, 1, i + 1)) = SubSeq(q, 1, i)
  <2>1. i + 1 \in 1..Len(q) /\ i \in 1..(i + 1 - 1 + 1)
    BY <1>1, <1>4
  <2>2. Len(SubSeq(q, 1, i + 1)) = i + 1
    BY <1>1, <1>2, <2>1
  <2>3. SubSeq(SubSeq(q, 1, i + 1), 1, i) = SubSeq(q, 1 + 1 - 1, 1 + i - 1)
    BY <1>1, <2>1, SubSeqOfSubSeq
  <2> QED BY <2>2, <2>3 DEF Parent
<1> QED BY <1>3, <1>4 DEF PathSet

----------------------------------------------------------------------------
(* The tree *)

\* The nodes are records at paths.
Shape(t) ==
  t \in [nodes : UNION {[P -> NodeType] : P \in SUBSET PathSet}, current_tick : Nat]

\* With a node all nodes above it are in the tree.
Closed(t) ==
  \A q \in Paths(t) : \A i \in 1..Len(q) : SubSeq(q, 1, i) \in Paths(t)

Ticks(t) ==
  \A p, q \in Paths(t) :
    /\ t.nodes[p].last_accessed = t.nodes[q].last_accessed => p = q
    /\ t.nodes[p].last_accessed <= t.current_tick

\* The page of a node was computed for the beginning of a prompt that was
\* served; the hashes of these tokens are the node's path, and the node's own
\* tokens are the last of them.
Content(t) ==
  \A q \in Paths(t) :
    /\ \E p \in Prompts : Len(q) <= Len(p) /\ t.nodes[q].page = SubSeq(p, 1, Len(q))
    /\ Len(t.nodes[q].page) = Len(q)
    /\ \A i \in 1..Len(q) : Hash[t.nodes[q].page[i]] = q[i]
    /\ t.nodes[q].token_chunk = t.nodes[q].page[Len(q)]

GoodTree(t) == Shape(t) /\ Closed(t) /\ Ticks(t) /\ Content(t)

\* What the shape of a tree says of its nodes and its clock.
LEMMA ShapeFacts ==
  ASSUME NEW t, Shape(t)
  PROVE  /\ Paths(t) \subseteq PathSet
         /\ t.nodes \in [Paths(t) -> NodeType]
         /\ t = [nodes |-> t.nodes, current_tick |-> t.current_tick]
         /\ t.current_tick \in Nat
<1>1. PICK P \in SUBSET PathSet : t.nodes \in [P -> NodeType]
  BY DEF Shape
<1>2. Paths(t) = P
  BY <1>1 DEF Paths
<1> QED BY <1>1, <1>2 DEF Shape

\* A tree is made from nodes and a clock.
LEMMA MakeShape ==
  ASSUME NEW P \in SUBSET PathSet, NEW f \in [P -> NodeType], NEW k \in Nat
  PROVE  Shape([nodes |-> f, current_tick |-> k])
BY DEF Shape

\* The pages matched are a longest row of pages that all match.
LEMMA MatchedFacts ==
  ASSUME NEW t, NEW prompt \in Seq(Chunks)
  PROVE  /\ MatchedPages(t, prompt) \in 0..Len(prompt)
         /\ \A i \in 1..MatchedPages(t, prompt) : MatchesPage(t, prompt, i)
         /\ MatchedPages(t, prompt) < Len(prompt)
              => ~MatchesPage(t, prompt, MatchedPages(t, prompt) + 1)
<1> DEFINE Rows == {n \in 0..Len(prompt) : \A i \in 1..n : MatchesPage(t, prompt, i)}
<1>1. Len(prompt) \in Nat /\ Rows \in SUBSET (0..Len(prompt)) /\ 0 \in Rows
  OBVIOUS
<1> DEFINE m == MatchedPages(t, prompt)
<1>2. m = Max(Rows)
  BY DEF MatchedPages
<1> HIDE DEF m
<1>3. m \in Rows /\ \A n \in Rows : n <= m
  BY <1>1, <1>2, LargestElement
<1>4. m < Len(prompt) => ~MatchesPage(t, prompt, m + 1)
  <2> SUFFICES ASSUME m < Len(prompt), MatchesPage(t, prompt, m + 1) PROVE FALSE
    OBVIOUS
  <2>1. m + 1 \in 0..Len(prompt) /\ m \in Nat
    BY <1>1, <1>3
  <2>2. \A i \in 1..(m + 1) : MatchesPage(t, prompt, i)
    BY <1>3, <2>1
  <2>3. m + 1 \in Rows
    BY <2>1, <2>2
  <2> QED BY <1>3, <2>1, <2>3
<1> QED BY <1>3, <1>4 DEF m

----------------------------------------------------------------------------
(* Walking down the pages of a prompt *)

\* The paths of the pages of a prompt behind page a up to page b.
Row(prompt, a, b) == {PathOf(prompt, i) : i \in (a + 1)..b}

\* A path of a row is known by its length.
LEMMA RowFacts ==
  ASSUME NEW prompt \in Seq(Chunks), NEW a \in Nat, NEW b \in 0..Len(prompt)
  PROVE  /\ Row(prompt, a, b) \subseteq PathSet
         /\ \A q \in Row(prompt, a, b) : Len(q) \in (a + 1)..b /\ q = PathOf(prompt, Len(q))
<1> SUFFICES ASSUME NEW q \in Row(prompt, a, b)
             PROVE  q \in PathSet /\ Len(q) \in (a + 1)..b /\ q = PathOf(prompt, Len(q))
  OBVIOUS
<1>1. PICK i \in (a + 1)..b : q = PathOf(prompt, i)
  BY DEF Row
<1>2. i \in 0..Len(prompt) /\ i > 0
  BY <1>1
<1> QED BY <1>1, <1>2, PathFacts

\* The nodes of a row accessed one after the other: access times stay distinct.
LEMMA WalkTicks ==
  ASSUME NEW t, NEW t1, Shape(t), Ticks(t), Shape(t1),
         NEW prompt \in Seq(Chunks), NEW a \in Nat, NEW b \in 0..Len(prompt), a <= b,
         Paths(t1) = Paths(t) \cup Row(prompt, a, b),
         t1.current_tick = t.current_tick + (b - a),
         \A q \in Row(prompt, a, b) :
           t1.nodes[q].last_accessed = t.current_tick + (Len(q) - a),
         \A q \in Paths(t) \ Row(prompt, a, b) :
           t1.nodes[q].last_accessed = t.nodes[q].last_accessed
  PROVE  Ticks(t1)
<1>1. t.current_tick \in Nat
  BY ShapeFacts
<1>2. \A q \in Paths(t) : t.nodes[q].last_accessed \in Nat
  BY ShapeFacts DEF NodeType
<1>3. \A q \in Row(prompt, a, b) :
        /\ t1.nodes[q].last_accessed > t.current_tick
        /\ t1.nodes[q].last_accessed <= t1.current_tick
  BY <1>1, RowFacts
<1>4. \A q \in Paths(t) \ Row(prompt, a, b) :
        /\ t1.nodes[q].last_accessed <= t.current_tick
        /\ t1.nodes[q].last_accessed <= t1.current_tick
        /\ t1.nodes[q].last_accessed \in Nat
  BY <1>1, <1>2 DEF Ticks
<1>5. ASSUME NEW p \in Row(prompt, a, b), NEW q \in Row(prompt, a, b),
             t1.nodes[p].last_accessed = t1.nodes[q].last_accessed
      PROVE  p = q
  <2>1. Len(p) \in Nat /\ Len(q) \in Nat /\ p = PathOf(prompt, Len(p)) /\ q = PathOf(prompt, Len(q))
    BY RowFacts
  <2>2. t.current_tick + (Len(p) - a) = t.current_tick + (Len(q) - a)
    BY <1>5
  <2>3. Len(p) = Len(q)
    BY <1>1, <2>1, <2>2
  <2> QED BY <2>1, <2>3
<1>6. ASSUME NEW p \in Paths(t1), NEW q \in Paths(t1),
             t1.nodes[p].last_accessed = t1.nodes[q].last_accessed
      PROVE  p = q
  <2>1. CASE p \in Row(prompt, a, b) /\ q \in Row(prompt, a, b)
    BY <1>5, <1>6, <2>1
  <2>2. CASE p \notin Row(prompt, a, b) /\ q \notin Row(prompt, a, b)
    <3>1. t.nodes[p].last_accessed = t.nodes[q].last_accessed
      BY <1>6, <2>2
    <3> QED BY <2>2, <3>1 DEF Ticks
  <2>3. CASE p \in Row(prompt, a, b) /\ q \notin Row(prompt, a, b)
    BY <1>1, <1>3, <1>4, <1>6, <2>3
  <2>4. CASE p \notin Row(prompt, a, b) /\ q \in Row(prompt, a, b)
    BY <1>1, <1>3, <1>4, <1>6, <2>4
  <2> QED BY <2>1, <2>2, <2>3, <2>4
<1> QED BY <1>3, <1>4, <1>6 DEF Ticks

\* Adding a row below a node of the tree, or below the root, leaves no gap.
LEMMA WalkClosed ==
  ASSUME NEW t, NEW t1, Shape(t), Closed(t),
         NEW prompt \in Seq(Chunks), NEW a \in Nat, NEW b \in 0..Len(prompt), a <= b,
         Paths(t1) = Paths(t) \cup Row(prompt, a, b),
         a > 0 => PathOf(prompt, a) \in Paths(t)
  PROVE  Closed(t1)
<1> SUFFICES ASSUME NEW q \in Row(prompt, a, b), NEW i \in 1..Len(q)
             PROVE  SubSeq(q, 1, i) \in Paths(t1)
  BY DEF Closed
<1>1. Len(q) \in (a + 1)..b /\ q = PathOf(prompt, Len(q))
  BY RowFacts
<1>2. Len(q) \in 0..Len(prompt) /\ i \in 0..Len(q)
  BY <1>1
<1>3. SubSeq(q, 1, i) = PathOf(prompt, i)
  BY <1>1, <1>2, PathBeginning
<1>4. CASE i > a
  <2>1. i \in (a + 1)..b
    BY <1>1, <1>4
  <2> QED BY <1>3, <2>1 DEF Row
<1>5. CASE i <= a
  <2>1. a \in 0..Len(prompt) /\ i \in 0..a /\ i \in 1..a
    BY <1>1, <1>2, <1>5
  <2>2. PathOf(prompt, a) \in Paths(t) /\ Len(PathOf(prompt, a)) = a
    BY <2>1, PathFacts
  <2>3. SubSeq(PathOf(prompt, a), 1, i) \in Paths(t)
    BY <2>1, <2>2 DEF Closed
  <2> QED BY <1>3, <2>1, <2>3, PathBeginning
<1> QED BY <1>1, <1>4, <1>5

\* The fields of a node.
LEMMA NodeFields ==
  ASSUME NEW x \in NodeType
  PROVE  /\ x = [token_chunk |-> x.token_chunk, page |-> x.page, ref_count |-> x.ref_count,
                 last_accessed |-> x.last_accessed]
         /\ x.token_chunk \in Chunks /\ x.page \in Seq(Chunks)
         /\ x.ref_count \in Nat /\ x.last_accessed \in Nat
BY DEF NodeType

\* The same pages at the same paths.
LEMMA SameContent ==
  ASSUME NEW t, NEW t1, Content(t), Paths(t1) \subseteq Paths(t),
         \A q \in Paths(t1) : /\ t1.nodes[q].page = t.nodes[q].page
                              /\ t1.nodes[q].token_chunk = t.nodes[q].token_chunk
  PROVE  Content(t1)
<1> SUFFICES ASSUME NEW q \in Paths(t1)
             PROVE  /\ \E p \in Prompts :
                         Len(q) <= Len(p) /\ t1.nodes[q].page = SubSeq(p, 1, Len(q))
                    /\ Len(t1.nodes[q].page) = Len(q)
                    /\ \A i \in 1..Len(q) : Hash[t1.nodes[q].page[i]] = q[i]
                    /\ t1.nodes[q].token_chunk = t1.nodes[q].page[Len(q)]
  BY DEF Content
<1>1. /\ \E p \in Prompts : Len(q) <= Len(p) /\ t.nodes[q].page = SubSeq(p, 1, Len(q))
      /\ Len(t.nodes[q].page) = Len(q)
      /\ \A i \in 1..Len(q) : Hash[t.nodes[q].page[i]] = q[i]
      /\ t.nodes[q].token_chunk = t.nodes[q].page[Len(q)]
  BY DEF Content
<1> QED BY <1>1

\* Touching the first m pages of a prompt.
LEMMA TouchEffect ==
  ASSUME NEW t, GoodTree(t), NEW prompt \in Seq(Chunks), NEW m \in 0..Len(prompt),
         \A i \in 1..m : PathOf(prompt, i) \in Paths(t), NEW refs \in Nat,
         NEW paths, paths = [i \in 1..m |-> PathOf(prompt, i)],
         NEW t1, t1 = Touch(t, paths, refs)
  PROVE  /\ GoodTree(t1)
         /\ Paths(t1) = Paths(t)
         /\ \A q \in Paths(t) :
              /\ t1.nodes[q].token_chunk = t.nodes[q].token_chunk
              /\ t1.nodes[q].page = t.nodes[q].page
              /\ t1.nodes[q].ref_count =
                   IF q \in Row(prompt, 0, m) THEN t.nodes[q].ref_count + refs
                   ELSE t.nodes[q].ref_count
<1> DEFINE node(q) == [t.nodes[q] EXCEPT !.last_accessed = t.current_tick + Len(q),
                                         !.ref_count = @ + refs]
           f == [q \in Paths(t) |-> IF q \in Row(prompt, 0, m) THEN node(q) ELSE t.nodes[q]]
<1>1. {paths[i] : i \in DOMAIN paths} = Row(prompt, 0, m) /\ Len(paths) = m
  BY DEF Row
<1>2. Row(prompt, 0, m) \subseteq Paths(t)
  BY DEF Row
<1>3. t1 = [nodes |-> f, current_tick |-> t.current_tick + m]
  <2>1. t = [nodes |-> t.nodes, current_tick |-> t.current_tick] /\ DOMAIN t.nodes = Paths(t)
    BY ShapeFacts DEF GoodTree, Paths
  <2>2. DOMAIN t.nodes \cup Row(prompt, 0, m) = Paths(t)
    BY <1>2, <2>1
  <2>3. Touch(t, paths, refs) =
         [[t EXCEPT !.nodes = [q \in DOMAIN @ \cup Row(prompt, 0, m) |->
                                 IF q \in Row(prompt, 0, m) THEN node(q) ELSE @[q]]]
            EXCEPT !.current_tick = @ + m]
    BY <1>1 DEF Touch, WithNodes
  <2>4. Touch(t, paths, refs) = [nodes |-> f, current_tick |-> t.current_tick + m]
    BY <2>1, <2>2, <2>3
  <2> QED BY <2>4
<1>4. t1.nodes = f /\ t1.current_tick = t.current_tick + m
  <2> HIDE DEF f
  <2> QED BY <1>3
<1>5. \A q \in Row(prompt, 0, m) : Len(q) \in Nat
  BY RowFacts
<1>6. t.current_tick \in Nat /\ t.nodes \in [Paths(t) -> NodeType] /\ Paths(t) \subseteq PathSet
  BY ShapeFacts DEF GoodTree
<1>7. ASSUME NEW q \in Paths(t)
      PROVE  /\ f[q] \in NodeType
             /\ f[q].token_chunk = t.nodes[q].token_chunk
             /\ f[q].page = t.nodes[q].page
             /\ f[q].ref_count = IF q \in Row(prompt, 0, m) THEN t.nodes[q].ref_count + refs
                                 ELSE t.nodes[q].ref_count
             /\ f[q].last_accessed = IF q \in Row(prompt, 0, m) THEN t.current_tick + Len(q)
                                     ELSE t.nodes[q].last_accessed
  <2>1. t.nodes[q] \in NodeType
    BY <1>6
  <2>2. CASE q \in Row(prompt, 0, m)
    <3>1. t.current_tick + Len(q) \in Nat
      BY <1>5, <1>6, <2>2
    <3>2. f[q] = [t.nodes[q] EXCEPT !.last_accessed = t.current_tick + Len(q), !.ref_count = @ + refs]
      BY <2>2
    <3> HIDE DEF f
    <3>4. f[q] = [token_chunk |-> t.nodes[q].token_chunk, page |-> t.nodes[q].page,
                  ref_count |-> t.nodes[q].ref_count + refs,
                  last_accessed |-> t.current_tick + Len(q)]
      BY <2>1, <3>2, NodeFields
    <3>5. t.nodes[q].ref_count + refs \in Nat
      BY <2>1, NodeFields
    <3>3. /\ f[q] \in NodeType
          /\ f[q].token_chunk = t.nodes[q].token_chunk /\ f[q].page = t.nodes[q].page
          /\ f[q].ref_count = t.nodes[q].ref_count + refs
          /\ f[q].last_accessed = t.current_tick + Len(q)
      BY <2>1, <3>1, <3>4, <3>5, NodeFields DEF NodeType
    <3> QED BY <2>2, <3>3
  <2>3. CASE q \notin Row(prompt, 0, m)
    <3>1. f[q] = t.nodes[q]
      BY <2>3
    <3> HIDE DEF f
    <3> QED BY <2>1, <2>3, <3>1
  <2> QED BY <2>2, <2>3
<1>8. Shape(t1) /\ Paths(t1) = Paths(t)
  <2>1. t.current_tick + m \in Nat /\ Paths(t) \in SUBSET PathSet
    BY <1>6
  <2>2. DOMAIN f = Paths(t)
    OBVIOUS
  <2>3. f \in [Paths(t) -> NodeType]
    BY <1>7
  <2> HIDE DEF f
  <2>4. Shape([nodes |-> f, current_tick |-> t.current_tick + m])
    BY <2>1, <2>3, MakeShape
  <2> QED BY <1>3, <1>4, <2>2, <2>4 DEF Paths
<1> HIDE DEF f
<1>9. Ticks(t1)
  <2>1. \A q \in Row(prompt, 0, m) : t1.nodes[q].last_accessed = t.current_tick + (Len(q) - 0)
    BY <1>2, <1>4, <1>5, <1>7
  <2>2. t1.current_tick = t.current_tick + (m - 0)
    BY <1>4
  <2>3. Paths(t1) = Paths(t) \cup Row(prompt, 0, m)
    BY <1>2, <1>8
  <2>4. \A q \in Paths(t) \ Row(prompt, 0, m) : t1.nodes[q].last_accessed = t.nodes[q].last_accessed
    BY <1>4, <1>7
  <2>5. 0 \in Nat /\ 0 <= m
    OBVIOUS
  <2> QED BY <1>8, <2>1, <2>2, <2>3, <2>4, <2>5, WalkTicks DEF GoodTree
<1>10. Closed(t1)
  BY <1>8 DEF GoodTree, Closed
<1>11. Content(t1)
  <2>1. \A q \in Paths(t1) : /\ t1.nodes[q].page = t.nodes[q].page
                             /\ t1.nodes[q].token_chunk = t.nodes[q].token_chunk
    BY <1>4, <1>7, <1>8
  <2>2. Content(t)
    BY DEF GoodTree
  <2> QED BY <1>8, <2>1, <2>2, SameContent
<1> QED BY <1>4, <1>7, <1>8, <1>9, <1>10, <1>11 DEF GoodTree

\* Inserting a prompt of which the first a pages are in the tree.
LEMMA InsertEffect ==
  ASSUME NEW t, GoodTree(t), NEW prompt \in Seq(Chunks), prompt \in Prompts,
         NEW a \in 0..Len(prompt),
         a > 0 => PathOf(prompt, a) \in Paths(t),
         NEW t1, t1 = InsertPrefix(t, prompt, a, ComputedPages(prompt, a))
  PROVE  /\ GoodTree(t1)
         /\ Paths(t1) = Paths(t) \cup Row(prompt, a, Len(prompt))
         /\ \A q \in Paths(t) : t1.nodes[q].ref_count = t.nodes[q].ref_count
         /\ \A q \in Paths(t1) \ Paths(t) : t1.nodes[q].ref_count = 0
<1> DEFINE n == Len(prompt)
           pages == ComputedPages(prompt, a)
           added == [j \in 1..(n - a) |-> PathOf(prompt, a + j)]
           row == Row(prompt, a, n)
           node(q) == IF q \in Paths(t)
                      THEN [t.nodes[q] EXCEPT !.last_accessed = t.current_tick + Len(q) - a]
                      ELSE NewNode(prompt, a, pages, Len(q), t.current_tick + Len(q) - a)
           f == [q \in Paths(t) \cup row |-> IF q \in row THEN node(q) ELSE t.nodes[q]]
<1>1. /\ n \in Nat /\ a \in Nat /\ a <= n
      /\ t.current_tick \in Nat /\ t.nodes \in [Paths(t) -> NodeType] /\ Paths(t) \subseteq PathSet
      /\ t = [nodes |-> t.nodes, current_tick |-> t.current_tick]
  BY ShapeFacts DEF GoodTree
<1>2. /\ Len(pages) = n - a
      /\ \A j \in 1..(n - a) : pages[j] = SubSeq(prompt, 1, a + j)
  <2>1. n - a \in Nat
    BY <1>1
  <2>2. pages = [j \in 1..(n - a) |-> SubSeq(prompt, 1, a + j)]
    BY DEF ComputedPages
  <2> QED BY <2>1, <2>2
<1>3. Min({a + Len(pages), n}) = n
  <2>1. {a + Len(pages), n} = {n}
    BY <1>1, <1>2
  <2>2. Min({n}) = n
    BY <1>1 DEF Min
  <2> HIDE DEF n, pages
  <2> QED BY <2>1, <2>2
<1>4. CASE a = n
  <2>1. t1 = t
    <3> HIDE DEF n, pages
    <3>1. n <= a
      BY <1>1, <1>4
    <3> QED BY <1>3, <3>1 DEF InsertPrefix, n, pages
  <2>2. row = {}
    BY <1>1, <1>4 DEF Row
  <2> QED BY <2>1, <2>2
<1>5. CASE a < n
  <2>1. /\ {added[j] : j \in DOMAIN added} = row
        /\ Len(added) = n - a
    <3>1. n - a \in Nat /\ DOMAIN added = 1..(n - a)
      BY <1>1
    <3>2. ASSUME NEW q \in row PROVE \E j \in 1..(n - a) : q = PathOf(prompt, a + j)
      <4>1. PICK i \in (a + 1)..n : q = PathOf(prompt, i)
        BY <3>2 DEF Row
      <4>2. i - a \in 1..(n - a) /\ i = a + (i - a)
        BY <1>1, <4>1
      <4> QED BY <4>1, <4>2
    <3>3. ASSUME NEW j \in 1..(n - a) PROVE PathOf(prompt, a + j) \in row
      <4>1. a + j \in (a + 1)..n
        BY <1>1
      <4> QED BY <4>1 DEF Row
    <3>4. {added[j] : j \in DOMAIN added} = {PathOf(prompt, a + j) : j \in 1..(n - a)}
      BY <3>1
    <3>5. Len(added) = n - a
      BY <3>1
    <3> HIDE DEF added, row
    <3> QED BY <3>2, <3>3, <3>4, <3>5
  <2>2. t1 = [nodes |-> f, current_tick |-> t.current_tick + (n - a)]
    <3>1. DOMAIN t.nodes = Paths(t)
      BY DEF Paths
    <3>2. ~(n <= a) /\ ~(a > 0 /\ PathOf(prompt, a) \notin Paths(t))
      BY <1>1, <1>5
    <3>3. InsertPrefix(t, prompt, a, pages) =
           [[t EXCEPT !.nodes = [q \in DOMAIN @ \cup row |-> IF q \in row THEN node(q) ELSE @[q]]]
              EXCEPT !.current_tick = @ + (n - a)]
      <4> DEFINE last == Min({a + Len(pages), Len(prompt)})
                 walked == {[j \in 1..(last - a) |-> PathOf(prompt, a + j)][k] :
                             k \in DOMAIN [j \in 1..(last - a) |-> PathOf(prompt, a + j)]}
      <4>1. last = n /\ walked = row
        BY <1>3, <2>1
      <4>2. InsertPrefix(t, prompt, a, pages) =
             [[t EXCEPT !.nodes = [q \in DOMAIN @ \cup walked |-> IF q \in walked THEN node(q) ELSE @[q]]]
              EXCEPT !.current_tick = @ + Len([j \in 1..(last - a) |-> PathOf(prompt, a + j)])]
        <5> HIDE DEF pages
        <5>1. ~(last <= a)
          BY <3>2, <4>1
        <5> QED BY <3>2, <5>1 DEF InsertPrefix, WithNodes
      <4> HIDE DEF last, pages, row, walked
      <4> QED BY <2>1, <4>1, <4>2
    <3>4. InsertPrefix(t, prompt, a, pages) = [nodes |-> f, current_tick |-> t.current_tick + (n - a)]
      <4> HIDE DEF pages, row
      <4> QED BY <1>1, <3>1, <3>3
    <3> QED BY <3>4
  <2>3. \A q \in row : Len(q) \in (a + 1)..n /\ q = PathOf(prompt, Len(q)) /\ q \in PathSet
    BY <1>1, RowFacts
  <2>4. t1.nodes = f /\ t1.current_tick = t.current_tick + (n - a)
    <3> HIDE DEF f
    <3> QED BY <2>2
  <2>5. ASSUME NEW q \in row, q \in Paths(t)
        PROVE  /\ f[q] \in NodeType
               /\ f[q].token_chunk = t.nodes[q].token_chunk /\ f[q].page = t.nodes[q].page
               /\ f[q].ref_count = t.nodes[q].ref_count
               /\ f[q].last_accessed = t.current_tick + (Len(q) - a)
    <3>1. t.nodes[q] \in NodeType
      BY <1>1, <2>5
    <3>2. t.current_tick + Len(q) - a = t.current_tick + (Len(q) - a)
          /\ t.current_tick + (Len(q) - a) \in Nat
      BY <1>1, <2>3
    <3>3. f[q] = [t.nodes[q] EXCEPT !.last_accessed = t.current_tick + Len(q) - a]
      BY <2>5
    <3> HIDE DEF f
    <3>4. f[q] = [token_chunk |-> t.nodes[q].token_chunk, page |-> t.nodes[q].page,
                  ref_count |-> t.nodes[q].ref_count,
                  last_accessed |-> t.current_tick + (Len(q) - a)]
      BY <3>1, <3>2, <3>3, NodeFields
    <3> QED BY <3>1, <3>2, <3>4, NodeFields DEF NodeType
  <2>6. ASSUME NEW q \in row, q \notin Paths(t)
        PROVE  /\ f[q] \in NodeType
               /\ f[q].token_chunk = prompt[Len(q)] /\ f[q].page = SubSeq(prompt, 1, Len(q))
               /\ f[q].ref_count = 0
               /\ f[q].last_accessed = t.current_tick + (Len(q) - a)
    <3>1. /\ Len(q) \in 1..n /\ Len(q) - a \in 1..(n - a) /\ a + (Len(q) - a) = Len(q)
          /\ t.current_tick + Len(q) - a = t.current_tick + (Len(q) - a)
          /\ t.current_tick + (Len(q) - a) \in Nat
      BY <1>1, <2>3
    <3>2. pages[Len(q) - a] = SubSeq(prompt, 1, Len(q))
      <4> HIDE DEF pages
      <4> QED BY <1>2, <3>1
    <3>3. f[q] = NewNode(prompt, a, pages, Len(q), t.current_tick + Len(q) - a)
      BY <2>6
    <3> HIDE DEF f, pages
    <3>4. f[q] = [token_chunk |-> prompt[Len(q)], page |-> SubSeq(prompt, 1, Len(q)),
                  ref_count |-> 0, last_accessed |-> t.current_tick + (Len(q) - a)]
      BY <3>1, <3>2, <3>3 DEF NewNode
    <3>5. prompt[Len(q)] \in Chunks /\ SubSeq(prompt, 1, Len(q)) \in Seq(Chunks)
      BY <3>1
    <3> QED BY <3>1, <3>4, <3>5 DEF NodeType
  <2>7. ASSUME NEW q \in Paths(t), q \notin row PROVE f[q] = t.nodes[q] /\ f[q] \in NodeType
    BY <1>1, <2>7
  <2>8. f \in [Paths(t) \cup row -> NodeType]
    <3>1. \A q \in Paths(t) \cup row : f[q] \in NodeType
      <4> HIDE DEF f
      <4> QED BY <2>5, <2>6, <2>7
    <3> QED BY <3>1
  <2>9. Shape(t1) /\ Paths(t1) = Paths(t) \cup row
    <3>1. Paths(t) \cup row \in SUBSET PathSet /\ t.current_tick + (n - a) \in Nat
      BY <1>1, <2>3
    <3>2. DOMAIN f = Paths(t) \cup row
      OBVIOUS
    <3> HIDE DEF f
    <3>3. Shape([nodes |-> f, current_tick |-> t.current_tick + (n - a)])
      BY <2>8, <3>1, MakeShape
    <3> QED BY <2>2, <2>4, <3>2, <3>3 DEF Paths
  <2> HIDE DEF f, pages, added
  <2>10. Ticks(t1)
    <3>1. \A q \in row : t1.nodes[q].last_accessed = t.current_tick + (Len(q) - a)
      BY <2>4, <2>5, <2>6
    <3>2. \A q \in Paths(t) \ row : t1.nodes[q].last_accessed = t.nodes[q].last_accessed
      BY <2>4, <2>7
    <3>3. n \in 0..Len(prompt)
      BY <1>1
    <3> QED BY <1>1, <2>4, <2>9, <3>1, <3>2, <3>3, WalkTicks DEF GoodTree
  <2>11. Closed(t1)
    <3>3. n \in 0..Len(prompt)
      BY <1>1
    <3> QED BY <1>1, <2>9, <3>3, WalkClosed DEF GoodTree
  <2>12. Content(t1)
    <3> SUFFICES ASSUME NEW q \in Paths(t1)
                 PROVE  /\ \E p \in Prompts :
                             Len(q) <= Len(p) /\ t1.nodes[q].page = SubSeq(p, 1, Len(q))
                        /\ Len(t1.nodes[q].page) = Len(q)
                        /\ \A i \in 1..Len(q) : Hash[t1.nodes[q].page[i]] = q[i]
                        /\ t1.nodes[q].token_chunk = t1.nodes[q].page[Len(q)]
      BY DEF Content
    <3>1. CASE q \in Paths(t)
      <4>1. t1.nodes[q].page = t.nodes[q].page /\ t1.nodes[q].token_chunk = t.nodes[q].token_chunk
        BY <2>4, <2>5, <2>7, <3>1
      <4>2. /\ \E p \in Prompts : Len(q) <= Len(p) /\ t.nodes[q].page = SubSeq(p, 1, Len(q))
            /\ Len(t.nodes[q].page) = Len(q)
            /\ \A i \in 1..Len(q) : Hash[t.nodes[q].page[i]] = q[i]
            /\ t.nodes[q].token_chunk = t.nodes[q].page[Len(q)]
        BY <3>1 DEF GoodTree, Content
      <4> QED BY <4>1, <4>2
    <3>2. CASE q \notin Paths(t)
      <4>1. q \in row
        BY <2>9, <3>2
      <4>2. t1.nodes[q].token_chunk = prompt[Len(q)] /\ t1.nodes[q].page = SubSeq(prompt, 1, Len(q))
        BY <2>4, <2>6, <3>2, <4>1
      <4>3. Len(q) \in 1..Len(prompt) /\ q = PathOf(prompt, Len(q))
        BY <1>1, <2>3, <4>1
      <4>4. /\ Len(SubSeq(prompt, 1, Len(q))) = Len(q)
            /\ \A i \in 1..Len(q) : SubSeq(prompt, 1, Len(q))[i] = prompt[i]
        BY <4>3
      <4>5. \A i \in 1..Len(q) : q[i] = Hash[prompt[i]]
        BY <4>3, PathFacts
      <4> QED BY <4>2, <4>3, <4>4, <4>5
    <3> QED BY <3>1, <3>2
  <2> QED BY <2>4, <2>5, <2>6, <2>7, <2>9, <2>10, <2>11, <2>12 DEF GoodTree
<1> QED BY <1>1, <1>4, <1>5

----------------------------------------------------------------------------
(* Eviction *)

\* Evicting a node keeps the tree in order and removes no node that is in use.
LEMMA EvictOneEffect ==
  ASSUME NEW t, GoodTree(t), NEW t1, t1 = EvictOne(t)
  PROVE  /\ GoodTree(t1)
         /\ Paths(t1) \subseteq Paths(t)
         /\ \A q \in Paths(t1) : t1.nodes[q] = t.nodes[q]
         /\ \A q \in Paths(t) : t.nodes[q].ref_count > 0 => q \in Paths(t1)
<1>1. /\ t.current_tick \in Nat /\ t.nodes \in [Paths(t) -> NodeType] /\ Paths(t) \subseteq PathSet
      /\ t = [nodes |-> t.nodes, current_tick |-> t.current_tick]
  BY ShapeFacts DEF GoodTree
<1>2. CASE EvictionCandidates(t) = {}
  BY <1>2 DEF EvictOne
<1>3. CASE EvictionCandidates(t) # {}
  <2> DEFINE out == OldestCandidate(t)
             f == [q \in Paths(t) \ {out} |-> t.nodes[q]]
  <2>1. out \in EvictionCandidates(t)
    <3> DEFINE ages == {t.nodes[q].last_accessed : q \in EvictionCandidates(t)}
    <3>1. \A q \in EvictionCandidates(t) : t.nodes[q].last_accessed \in Nat
      BY <1>1, NodeFields DEF EvictionCandidates
    <3>2. ages \in SUBSET Nat /\ ages # {}
      BY <1>3, <3>1
    <3>3. PICK x \in ages : \A y \in ages : x <= y
      BY <3>2, LeastElement
    <3>4. \E q \in EvictionCandidates(t) : \A r \in EvictionCandidates(t) :
            t.nodes[q].last_accessed <= t.nodes[r].last_accessed
      BY <3>3
    <3> QED BY <3>4 DEF OldestCandidate
  <2>2. /\ out \in Paths(t)
        /\ t.nodes[out].ref_count = 0
        /\ \A r \in Paths(t) : Len(r) > 0 => Parent(r) # out
    BY <2>1 DEF EvictionCandidates
  <2>3. t1 = [nodes |-> f, current_tick |-> t.current_tick]
    <3>1. t1 = [t EXCEPT !.nodes = [q \in Paths(t) \ {out} |-> t.nodes[q]]]
      BY <1>3 DEF EvictOne, Paths
    <3> QED BY <1>1, <3>1
  <2> HIDE DEF out
  <2>4. t1.nodes = f /\ t1.current_tick = t.current_tick
    <3> HIDE DEF f
    <3> QED BY <2>3
  <2>5. Shape(t1) /\ Paths(t1) = Paths(t) \ {out}
    <3>1. f \in [Paths(t) \ {out} -> NodeType] /\ Paths(t) \ {out} \in SUBSET PathSet
          /\ DOMAIN f = Paths(t) \ {out}
      BY <1>1
    <3> HIDE DEF f
    <3>2. Shape([nodes |-> f, current_tick |-> t.current_tick])
      BY <1>1, <3>1, MakeShape
    <3> QED BY <2>3, <2>4, <3>1, <3>2 DEF Paths
  <2>6. \A q \in Paths(t1) : t1.nodes[q] = t.nodes[q]
    BY <2>4, <2>5
  <2>7. Closed(t1)
    <3> SUFFICES ASSUME NEW q \in Paths(t1), NEW i \in 1..Len(q)
                 PROVE  SubSeq(q, 1, i) \in Paths(t1)
      BY DEF Closed
    <3>1. q \in Paths(t) /\ q \in PathSet /\ q # out
      BY <1>1, <2>5
    <3>2. SubSeq(q, 1, i) \in Paths(t)
      BY <3>1 DEF GoodTree, Closed
    <3>3. SubSeq(q, 1, i) # out
      <4>1. CASE i < Len(q)
        <5>1. i + 1 \in 1..Len(q)
          BY <3>1, <4>1 DEF PathSet
        <5>2. SubSeq(q, 1, i + 1) \in Paths(t) /\ Len(SubSeq(q, 1, i + 1)) = i + 1
          BY <3>1, <5>1, BeginningFacts DEF GoodTree, Closed
        <5>3. i + 1 > 0
          BY <3>1, <4>1 DEF PathSet
        <5>4. Parent(SubSeq(q, 1, i + 1)) # out
          BY <2>2, <5>2, <5>3
        <5> QED BY <3>1, <4>1, <5>4, BeginningFacts
      <4>2. CASE i = Len(q)
        <5>1. SubSeq(q, 1, i) = q
          BY <3>1, <4>2, SubSeqFull DEF PathSet
        <5> QED BY <3>1, <5>1
      <4> QED BY <3>1, <4>1, <4>2 DEF PathSet
    <3> QED BY <2>5, <3>2, <3>3
  <2>8. Ticks(t1)
    BY <2>4, <2>5, <2>6 DEF GoodTree, Ticks
  <2>9. Content(t1)
    BY <2>5, <2>6, SameContent DEF GoodTree
  <2>10. \A q \in Paths(t) : t.nodes[q].ref_count > 0 => q \in Paths(t1)
    BY <2>2, <2>5
  <2> QED BY <2>5, <2>6, <2>7, <2>8, <2>9, <2>10 DEF GoodTree
<1> QED BY <1>2, <1>3

\* The loop of evict_lru is a sequence of trees, each with one eviction more.
LEMMA EvictLoop ==
  ASSUME NEW t, NEW max \in Nat
  PROVE  \E after : /\ EvictLru(t, max) = after[max]
                    /\ after[0] = t
                    /\ \A n \in 0..max : n < max => after[n + 1] = EvictOne(after[n])
<1> DEFINE Loops(g, k) == g = [n \in 0..k |-> IF n = 0 THEN t ELSE EvictOne(g[n - 1])]
           S == {k \in Nat : \E g : Loops(g, k)}
<1>1. 0 \in S
  <2> DEFINE g == [n \in 0..0 |-> t]
  <2>1. g = [n \in 0..0 |-> IF n = 0 THEN t ELSE EvictOne(g[n - 1])]
    OBVIOUS
  <2> HIDE DEF g
  <2> QED BY <2>1
<1>2. ASSUME NEW k \in Nat, k < max, k \in S PROVE k + 1 \in S
  <2>1. PICK g : Loops(g, k)
    BY <1>2
  <2> DEFINE h == [n \in 0..(k + 1) |-> IF n = 0 THEN t ELSE EvictOne(g[n - 1])]
  <2>2. ASSUME NEW n \in 0..(k + 1), n # 0 PROVE g[n - 1] = h[n - 1]
    <3>1. n - 1 \in 0..k /\ n - 1 \in 0..(k + 1)
      BY <2>2
    <3>2. g[n - 1] = IF n - 1 = 0 THEN t ELSE EvictOne(g[(n - 1) - 1])
      BY <2>1, <3>1
    <3>3. h[n - 1] = IF n - 1 = 0 THEN t ELSE EvictOne(g[(n - 1) - 1])
      BY <3>1
    <3> QED BY <3>2, <3>3
  <2>3. h = [n \in 0..(k + 1) |-> IF n = 0 THEN t ELSE EvictOne(h[n - 1])]
    <3>1. \A n \in 0..(k + 1) : (IF n = 0 THEN t ELSE EvictOne(g[n - 1]))
                                  = (IF n = 0 THEN t ELSE EvictOne(h[n - 1]))
      BY <2>2
    <3> QED BY <3>1
  <2> HIDE DEF h
  <2> QED BY <2>3
<1>3. max \in S
  <2>1. \A n \in Nat : n < max /\ n \in S => n + 1 \in S
    BY <1>2
  <2>2. max \in 0..max
    OBVIOUS
  <2> HIDE DEF S
  <2> QED BY <1>1, <2>1, <2>2, UpTo
<1> DEFINE after == CHOOSE g : Loops(g, max)
<1>4. Loops(after, max)
  BY <1>3
<1>5. EvictLru(t, max) = after[max]
  BY DEF EvictLru
<1> HIDE DEF after
<1>6. after[0] = t
  BY <1>4
<1>7. ASSUME NEW n \in 0..max, n < max PROVE after[n + 1] = EvictOne(after[n])
  <2>1. n + 1 \in 0..max /\ n + 1 # 0 /\ (n + 1) - 1 = n
    BY <1>7
  <2>2. after[n + 1] = IF n + 1 = 0 THEN t ELSE EvictOne(after[(n + 1) - 1])
    BY <1>4, <2>1
  <2> QED BY <2>1, <2>2
<1> QED BY <1>5, <1>6, <1>7

\* Any number of evictions keeps the tree in order and removes no node in use.
LEMMA EvictEffect ==
  ASSUME NEW t, GoodTree(t), NEW max \in Nat, NEW t1, t1 = EvictLru(t, max)
  PROVE  /\ GoodTree(t1)
         /\ Paths(t1) \subseteq Paths(t)
         /\ \A q \in Paths(t1) : t1.nodes[q] = t.nodes[q]
         /\ \A q \in Paths(t) : t.nodes[q].ref_count > 0 => q \in Paths(t1)
<1> DEFINE Evicted(u) == /\ GoodTree(u)
                         /\ Paths(u) \subseteq Paths(t)
                         /\ \A q \in Paths(u) : u.nodes[q] = t.nodes[q]
                         /\ \A q \in Paths(t) : t.nodes[q].ref_count > 0 => q \in Paths(u)
<1>1. PICK after : /\ t1 = after[max]
                   /\ after[0] = t
                   /\ \A n \in 0..max : n < max => after[n + 1] = EvictOne(after[n])
  BY EvictLoop
<1> DEFINE S == {n \in Nat : Evicted(after[n])}
<1>2. 0 \in S
  BY <1>1
<1>3. ASSUME NEW n \in Nat, n < max, n \in S PROVE n + 1 \in S
  <2> DEFINE u == after[n]
             v == after[n + 1]
  <2>1. Evicted(u)
    BY <1>3
  <2>2. v = EvictOne(u)
    <3>1. n \in 0..max
      BY <1>3
    <3> QED BY <1>1, <1>3, <3>1
  <2> HIDE DEF u, v
  <2>3. /\ GoodTree(v)
        /\ Paths(v) \subseteq Paths(u)
        /\ \A q \in Paths(v) : v.nodes[q] = u.nodes[q]
        /\ \A q \in Paths(u) : u.nodes[q].ref_count > 0 => q \in Paths(v)
    BY <2>1, <2>2, EvictOneEffect
  <2>4. Evicted(v)
    BY <2>1, <2>3
  <2> QED BY <2>4 DEF v
<1>4. max \in S
  <2>1. max \in 0..max
    OBVIOUS
  <2> HIDE DEF S
  <2> QED BY <1>2, <1>3, <2>1, UpTo
<1> QED BY <1>1, <1>4

----------------------------------------------------------------------------
(* Releasing *)

\* Releasing the first m pages of a prompt.
LEMMA ReleaseEffect ==
  ASSUME NEW t, GoodTree(t), NEW prompt \in Seq(Chunks), NEW m \in 0..Len(prompt),
         Row(prompt, 0, m) \subseteq Paths(t),
         NEW paths, paths = [i \in 1..m |-> PathOf(prompt, i)],
         NEW t1, t1 = ReleaseNodes(t, paths)
  PROVE  /\ GoodTree(t1)
         /\ Paths(t1) = Paths(t)
         /\ \A q \in Paths(t) :
              t1.nodes[q].ref_count =
                IF q \in Row(prompt, 0, m) /\ t.nodes[q].ref_count > 0
                THEN t.nodes[q].ref_count - 1 ELSE t.nodes[q].ref_count
<1> DEFINE row == Row(prompt, 0, m)
           node(q) == [t.nodes[q] EXCEPT !.ref_count = IF @ > 0 THEN @ - 1 ELSE 0]
           f == [q \in Paths(t) |-> IF q \in row THEN node(q) ELSE t.nodes[q]]
<1>1. /\ t.current_tick \in Nat /\ t.nodes \in [Paths(t) -> NodeType] /\ Paths(t) \subseteq PathSet
      /\ t = [nodes |-> t.nodes, current_tick |-> t.current_tick] /\ DOMAIN t.nodes = Paths(t)
  BY ShapeFacts DEF GoodTree, Paths
<1>2. t1 = [nodes |-> f, current_tick |-> t.current_tick]
  <2> DEFINE walked == {paths[i] : i \in DOMAIN paths} \cap Paths(t)
  <2>1. walked = row
    BY DEF Row
  <2>2. t1 = [t EXCEPT !.nodes = [q \in DOMAIN @ \cup walked |-> IF q \in walked THEN node(q) ELSE @[q]]]
    BY DEF ReleaseNodes, WithNodes
  <2> HIDE DEF walked, row
  <2>3. DOMAIN t.nodes \cup row = Paths(t)
    BY <1>1 DEF row
  <2> QED BY <1>1, <2>1, <2>2, <2>3
<1>3. t1.nodes = f /\ t1.current_tick = t.current_tick
  <2> HIDE DEF f
  <2> QED BY <1>2
<1>4. ASSUME NEW q \in Paths(t)
      PROVE  /\ f[q] \in NodeType
             /\ f[q].token_chunk = t.nodes[q].token_chunk
             /\ f[q].page = t.nodes[q].page
             /\ f[q].ref_count = IF q \in row /\ t.nodes[q].ref_count > 0
                                 THEN t.nodes[q].ref_count - 1 ELSE t.nodes[q].ref_count
             /\ f[q].last_accessed = t.nodes[q].last_accessed
  <2>1. t.nodes[q] \in NodeType
    BY <1>1
  <2>2. CASE q \in row
    <3> DEFINE left == IF t.nodes[q].ref_count > 0 THEN t.nodes[q].ref_count - 1 ELSE 0
    <3>1. left \in Nat /\ left = IF t.nodes[q].ref_count > 0 THEN t.nodes[q].ref_count - 1
                                 ELSE t.nodes[q].ref_count
      BY <2>1, NodeFields
    <3>2. f[q] = [t.nodes[q] EXCEPT !.ref_count = left]
      BY <2>2
    <3> HIDE DEF f, left
    <3>3. f[q] = [token_chunk |-> t.nodes[q].token_chunk, page |-> t.nodes[q].page,
                  ref_count |-> left, last_accessed |-> t.nodes[q].last_accessed]
      BY <2>1, <3>2, NodeFields
    <3>4. f[q] \in NodeType
      BY <2>1, <3>1, <3>3, NodeFields DEF NodeType
    <3> QED BY <2>2, <3>1, <3>3, <3>4
  <2>3. CASE q \notin row
    <3>1. f[q] = t.nodes[q]
      BY <2>3
    <3> HIDE DEF f
    <3> QED BY <2>1, <2>3, <3>1
  <2> QED BY <2>2, <2>3
<1>5. Shape(t1) /\ Paths(t1) = Paths(t)
  <2>1. f \in [Paths(t) -> NodeType] /\ DOMAIN f = Paths(t) /\ Paths(t) \in SUBSET PathSet
    BY <1>1, <1>4
  <2> HIDE DEF f
  <2>2. Shape([nodes |-> f, current_tick |-> t.current_tick])
    BY <1>1, <2>1, MakeShape
  <2> QED BY <1>2, <1>3, <2>1, <2>2 DEF Paths
<1> HIDE DEF f
<1>6. Closed(t1)
  BY <1>5 DEF GoodTree, Closed
<1>7. Ticks(t1)
  <2>1. \A q \in Paths(t1) : t1.nodes[q].last_accessed = t.nodes[q].last_accessed
    BY <1>3, <1>4, <1>5
  <2> QED BY <1>3, <1>5, <2>1 DEF GoodTree, Ticks
<1>8. Content(t1)
  <2>1. \A q \in Paths(t1) : /\ t1.nodes[q].page = t.nodes[q].page
                             /\ t1.nodes[q].token_chunk = t.nodes[q].token_chunk
    BY <1>3, <1>4, <1>5
  <2> QED BY <1>5, <2>1, SameContent DEF GoodTree
<1> QED BY <1>3, <1>4, <1>5, <1>6, <1>7, <1>8 DEF GoodTree

----------------------------------------------------------------------------
(* The inductive invariant *)

\* What a request holds are the first pages of its prompt.
RetainedIsPrefix ==
  \A r \in Requests : \E n \in 0..Len(prompts[r]) :
    retained[r] = [i \in 1..n |-> PathOf(prompts[r], i)]

IInv ==
  /\ GoodTree(tree)
  /\ prompts \in [Requests -> Prompts \cup {<<>>}]
  /\ retained \in [Requests -> Seq(PathSet)]
  /\ RetainedIsPrefix
  /\ RefCountIsHolders

Held(r) == {retained[r][i] : i \in DOMAIN retained[r]}

\* A prompt, or the absence of one, is a sequence of pages.
LEMMA PromptFacts ==
  ASSUME prompts \in [Requests -> Prompts \cup {<<>>}], NEW r \in Requests
  PROVE  prompts[r] \in Seq(Chunks) /\ Len(prompts[r]) \in Nat
<1>1. <<>> \in Seq(Chunks)
  OBVIOUS
<1>2. \A p \in Prompts : p \in Seq(Chunks)
  BY PromptsAssumption
<1>3. prompts[r] \in Seq(Chunks)
  BY <1>1, <1>2
<1> QED BY <1>3

\* The first pages of a prompt as a sequence of paths.
LEMMA RowPaths ==
  ASSUME NEW prompt \in Seq(Chunks), NEW n \in 0..Len(prompt)
  PROVE  /\ [i \in 1..n |-> PathOf(prompt, i)] \in Seq(PathSet)
         /\ Len([i \in 1..n |-> PathOf(prompt, i)]) = n
         /\ {[i \in 1..n |-> PathOf(prompt, i)][j] :
               j \in DOMAIN [i \in 1..n |-> PathOf(prompt, i)]} = Row(prompt, 0, n)
<1>1. \A i \in 1..n : PathOf(prompt, i) \in PathSet
  BY PathFacts
<1>2. n \in Nat
  OBVIOUS
<1> QED BY <1>1, <1>2 DEF Row

\* The holders of a node, by what each request holds.
LEMMA HoldersFacts ==
  /\ \A q : Holders(q) = {r \in Requests : q \in Held(r)}
  /\ \A q : IsFiniteSet(Holders(q)) /\ Cardinality(Holders(q)) \in Nat
<1>1. ASSUME NEW q PROVE Holders(q) = {r \in Requests : q \in Held(r)}
  BY DEF Holders, Held
<1>2. ASSUME NEW q PROVE IsFiniteSet(Holders(q)) /\ Cardinality(Holders(q)) \in Nat
  <2>1. Holders(q) \in SUBSET Requests
    BY DEF Holders
  <2> QED BY <2>1, SizesAssumption, FS_Subset, FS_CardinalityType
<1> QED BY <1>1, <1>2

\* The empty tree satisfies the invariant.
LEMMA InitStep == Init => IInv
<1> SUFFICES ASSUME Init PROVE IInv
  OBVIOUS
<1>1. tree = [nodes |-> <<>>, current_tick |-> 0]
  BY DEF Init, EmptyTree
<1>2. Paths(tree) = {}
  BY <1>1 DEF Paths
<1>3. Shape(tree)
  <2>1. <<>> \in [{} -> NodeType] /\ {} \in SUBSET PathSet
    OBVIOUS
  <2> QED BY <1>1, <2>1, MakeShape
<1>4. GoodTree(tree)
  BY <1>2, <1>3 DEF GoodTree, Closed, Ticks, Content
<1>5. \A r \in Requests : prompts[r] = <<>> /\ retained[r] = <<>>
  BY DEF Init
<1>6. RetainedIsPrefix
  <2>1. ASSUME NEW r \in Requests
        PROVE  \E n \in 0..Len(prompts[r]) : retained[r] = [i \in 1..n |-> PathOf(prompts[r], i)]
    <3>1. 0 \in 0..Len(prompts[r])
      BY <1>5
    <3>2. retained[r] = [i \in 1..0 |-> PathOf(prompts[r], i)]
      BY <1>5
    <3> QED BY <3>1, <3>2
  <2> QED BY <2>1 DEF RetainedIsPrefix
<1>7. RefCountIsHolders
  BY <1>2, <1>5 DEF RefCountIsHolders
<1>8. retained \in [Requests -> Seq(PathSet)]
  <2>1. <<>> \in Seq(PathSet)
    OBVIOUS
  <2> QED BY <2>1 DEF Init
<1>9. prompts \in [Requests -> Prompts \cup {<<>>}]
  BY DEF Init
<1> QED BY <1>4, <1>6, <1>7, <1>8, <1>9 DEF IInv

----------------------------------------------------------------------------
(* Entering *)

\* What a request that enters finds, and the tree it leaves.
LEMMA EnterEffect ==
  ASSUME IInv, NEW r \in Requests, NEW prompt \in Prompts, Enter(r, prompt)
  PROVE  \E m \in 0..Len(prompt) :
           /\ m = MatchedPages(tree, prompt)
           /\ prompt \in Seq(Chunks)
           /\ Row(prompt, 0, m) \subseteq Paths(tree)
           /\ retained' = [retained EXCEPT ![r] = [i \in 1..m |-> PathOf(prompt, i)]]
           /\ GoodTree(tree')
           /\ Paths(tree') = Paths(tree) \cup Row(prompt, 0, Len(prompt))
           /\ \A q \in Paths(tree) :
                tree'.nodes[q].ref_count =
                  IF q \in Row(prompt, 0, m) THEN tree.nodes[q].ref_count + 1
                  ELSE tree.nodes[q].ref_count
           /\ \A q \in Paths(tree') \ Paths(tree) : tree'.nodes[q].ref_count = 0
<1> DEFINE m == MatchedPages(tree, prompt)
           paths == [i \in 1..m |-> PathOf(prompt, i)]
           found == Touch(tree, paths, 0)
           kept == Touch(found, paths, 1)
<1>1. prompt \in Seq(Chunks) /\ Len(prompt) \in Nat
  BY PromptsAssumption
<1>2. m \in 0..Len(prompt) /\ \A i \in 1..m : PathOf(prompt, i) \in Paths(tree)
  BY <1>1, MatchedFacts DEF MatchesPage
<1> HIDE DEF m
<1>3. Len(paths) = m /\ Row(prompt, 0, m) \subseteq Paths(tree)
  BY <1>2 DEF Row
<1>4. MatchedPaths(tree, prompt) = paths
  BY DEF MatchedPaths, m
<1>5. /\ tree' = InsertPrefix(kept, prompt, m, ComputedPages(prompt, m))
      /\ retained' = [retained EXCEPT ![r] = paths]
  BY <1>3, <1>4 DEF Enter, MatchPrefix, RetainNodes
<1> HIDE DEF found, kept
<1>6. /\ GoodTree(found) /\ Paths(found) = Paths(tree)
      /\ \A q \in Paths(tree) : found.nodes[q].ref_count = tree.nodes[q].ref_count
  <2>1. GoodTree(tree) /\ 0 \in Nat
    BY DEF IInv
  <2>2. /\ GoodTree(found) /\ Paths(found) = Paths(tree)
        /\ \A q \in Paths(tree) :
             found.nodes[q].ref_count = IF q \in Row(prompt, 0, m) THEN tree.nodes[q].ref_count + 0
                                        ELSE tree.nodes[q].ref_count
    <3>1. found = Touch(tree, paths, 0) /\ paths = [i \in 1..m |-> PathOf(prompt, i)]
      BY DEF found
    <3> HIDE DEF paths
    <3> QED BY <1>1, <1>2, <2>1, <3>1, TouchEffect
  <2>3. \A q \in Paths(tree) : tree.nodes[q].ref_count \in Nat
    BY <2>1, ShapeFacts, NodeFields DEF GoodTree
  <2> QED BY <2>2, <2>3
<1>7. /\ GoodTree(kept) /\ Paths(kept) = Paths(tree)
      /\ \A q \in Paths(tree) :
           kept.nodes[q].ref_count = IF q \in Row(prompt, 0, m) THEN tree.nodes[q].ref_count + 1
                                     ELSE tree.nodes[q].ref_count
  <2>1. \A i \in 1..m : PathOf(prompt, i) \in Paths(found)
    BY <1>2, <1>6
  <2>2. /\ GoodTree(kept) /\ Paths(kept) = Paths(found)
        /\ \A q \in Paths(found) :
             kept.nodes[q].ref_count = IF q \in Row(prompt, 0, m) THEN found.nodes[q].ref_count + 1
                                       ELSE found.nodes[q].ref_count
    <3>1. kept = Touch(found, paths, 1) /\ paths = [i \in 1..m |-> PathOf(prompt, i)] /\ 1 \in Nat
      BY DEF kept
    <3> HIDE DEF paths
    <3> QED BY <1>1, <1>2, <1>6, <2>1, <3>1, TouchEffect
  <2> QED BY <1>6, <2>2
<1>8. /\ GoodTree(tree') /\ Paths(tree') = Paths(kept) \cup Row(prompt, m, Len(prompt))
      /\ \A q \in Paths(kept) : tree'.nodes[q].ref_count = kept.nodes[q].ref_count
      /\ \A q \in Paths(tree') \ Paths(kept) : tree'.nodes[q].ref_count = 0
  <2>1. m > 0 => PathOf(prompt, m) \in Paths(kept)
    BY <1>1, <1>2, <1>7
  <2> QED BY <1>1, <1>2, <1>5, <1>7, <2>1, InsertEffect
<1>9. Row(prompt, 0, m) \cup Row(prompt, m, Len(prompt)) = Row(prompt, 0, Len(prompt))
  <2>1. (0 + 1)..Len(prompt) = ((0 + 1)..m) \cup ((m + 1)..Len(prompt))
    BY <1>1, <1>2
  <2> QED BY <2>1 DEF Row
<1>10. Paths(tree') = Paths(tree) \cup Row(prompt, 0, Len(prompt))
  BY <1>3, <1>7, <1>8, <1>9
<1> HIDE DEF paths
<1> QED BY <1>1, <1>2, <1>3, <1>5, <1>7, <1>8, <1>10 DEF m, paths

\* A request that enters preserves the invariant.
LEMMA EnterStep ==
  ASSUME IInv, NEW r \in Requests, NEW prompt \in Prompts, Enter(r, prompt)
  PROVE  IInv'
<1>1. PICK m \in 0..Len(prompt) :
           /\ m = MatchedPages(tree, prompt)
           /\ prompt \in Seq(Chunks)
           /\ Row(prompt, 0, m) \subseteq Paths(tree)
           /\ retained' = [retained EXCEPT ![r] = [i \in 1..m |-> PathOf(prompt, i)]]
           /\ GoodTree(tree')
           /\ Paths(tree') = Paths(tree) \cup Row(prompt, 0, Len(prompt))
           /\ \A q \in Paths(tree) :
                tree'.nodes[q].ref_count =
                  IF q \in Row(prompt, 0, m) THEN tree.nodes[q].ref_count + 1
                  ELSE tree.nodes[q].ref_count
           /\ \A q \in Paths(tree') \ Paths(tree) : tree'.nodes[q].ref_count = 0
  BY EnterEffect
<1>2. prompts[r] = <<>> /\ prompts' = [prompts EXCEPT ![r] = prompt]
  BY DEF Enter
<1>3. prompts' \in [Requests -> Prompts \cup {<<>>}]
  BY <1>2 DEF IInv
<1>4. retained' \in [Requests -> Seq(PathSet)]
  <2>1. [i \in 1..m |-> PathOf(prompt, i)] \in Seq(PathSet)
    BY <1>1, RowPaths
  <2> QED BY <1>1, <2>1 DEF IInv
<1>5. RetainedIsPrefix'
  <2> SUFFICES ASSUME NEW o \in Requests
               PROVE  \E n \in 0..Len(prompts'[o]) :
                        retained'[o] = [i \in 1..n |-> PathOf(prompts'[o], i)]
    BY DEF RetainedIsPrefix
  <2>1. CASE o = r
    <3>1. prompts'[o] = prompt /\ retained'[o] = [i \in 1..m |-> PathOf(prompt, i)]
      BY <1>1, <1>2, <2>1 DEF IInv
    <3> QED BY <3>1
  <2>2. CASE o # r
    <3>1. prompts'[o] = prompts[o] /\ retained'[o] = retained[o]
      BY <1>1, <1>2, <2>2 DEF IInv
    <3> QED BY <3>1 DEF IInv, RetainedIsPrefix
  <2> QED BY <2>1, <2>2
<1>6. Held(r) = {} /\ Held(r)' = Row(prompt, 0, m) /\ \A o \in Requests \ {r} : Held(o)' = Held(o)
  <2>1. PICK n \in 0..Len(prompts[r]) : retained[r] = [i \in 1..n |-> PathOf(prompts[r], i)]
    BY DEF IInv, RetainedIsPrefix
  <2>2. n = 0
    BY <1>2, <2>1
  <2>3. Held(r) = {}
    BY <2>1, <2>2 DEF Held
  <2>4. retained'[r] = [i \in 1..m |-> PathOf(prompt, i)] /\ \A o \in Requests \ {r} : retained'[o] = retained[o]
    BY <1>1 DEF IInv
  <2>5. Held(r)' = Row(prompt, 0, m)
    <3> DEFINE paths == [i \in 1..m |-> PathOf(prompt, i)]
    <3>1. {paths[j] : j \in DOMAIN paths} = Row(prompt, 0, m)
      BY <1>1, RowPaths
    <3>2. retained'[r] = paths
      BY <2>4
    <3> HIDE DEF paths
    <3> QED BY <3>1, <3>2 DEF Held
  <2>6. \A o \in Requests \ {r} : Held(o)' = Held(o)
    BY <2>4 DEF Held
  <2> QED BY <2>3, <2>5, <2>6
<1>7. ASSUME NEW q \in Paths(tree)' PROVE tree'.nodes[q].ref_count = Cardinality(Holders(q)')
  <2>1. Holders(q) = {o \in Requests : q \in Held(o)} /\ IsFiniteSet(Holders(q)) /\ r \notin Holders(q)
    BY <1>6, HoldersFacts
  <2>2. Holders(q)' = {o \in Requests : q \in Held(o)'}
    BY DEF Holders, Held
  <2>3. CASE q \in Row(prompt, 0, m)
    <3>1. Holders(q)' = Holders(q) \cup {r}
      BY <1>6, <2>1, <2>2, <2>3
    <3>2. q \in Paths(tree)
      BY <1>1, <2>3
    <3>3. tree'.nodes[q].ref_count = Cardinality(Holders(q)) + 1
      BY <1>1, <2>3, <3>2 DEF IInv, RefCountIsHolders
    <3>4. Cardinality(Holders(q) \cup {r}) = Cardinality(Holders(q)) + 1
      BY <2>1, FS_AddElement
    <3> QED BY <3>1, <3>3, <3>4
  <2>4. CASE q \notin Row(prompt, 0, m)
    <3>1. Holders(q)' = Holders(q)
      BY <1>6, <2>1, <2>2, <2>4
    <3>2. CASE q \in Paths(tree)
      BY <1>1, <2>4, <3>1, <3>2 DEF IInv, RefCountIsHolders
    <3>3. CASE q \notin Paths(tree)
      <4>1. \A o \in Requests : q \notin Held(o)
        BY <3>3 DEF IInv, RefCountIsHolders, Held
      <4>2. Holders(q) = {}
        BY <2>1, <4>1
      <4>3. tree'.nodes[q].ref_count = 0
        BY <1>1, <1>7, <3>3 DEF Paths
      <4> QED BY <3>1, <4>2, <4>3, FS_EmptySet
    <3> QED BY <3>2, <3>3
  <2> QED BY <2>3, <2>4
<1>8. ASSUME NEW o \in Requests PROVE Held(o)' \subseteq Paths(tree)'
  <2>1. Held(o) \subseteq Paths(tree)
    BY DEF IInv, RefCountIsHolders, Held
  <2>2. Held(o)' \subseteq Paths(tree)
    BY <1>1, <1>6, <2>1
  <2> QED BY <1>1, <2>2 DEF Paths
<1>9. RefCountIsHolders'
  <2>1. \A o \in Requests : \A i \in DOMAIN retained'[o] : retained'[o][i] \in Paths(tree)'
    BY <1>8 DEF Held
  <2> QED BY <1>7, <2>1 DEF RefCountIsHolders
<1>10. GoodTree(tree)'
  BY <1>1 DEF GoodTree, Shape, Closed, Ticks, Content, Paths
<1> QED BY <1>3, <1>4, <1>5, <1>9, <1>10 DEF IInv

----------------------------------------------------------------------------
(* Leaving, eviction and reset *)

\* What a request holds, as a row of the tree.
LEMMA HeldRow ==
  ASSUME IInv, NEW r \in Requests
  PROVE  \E n \in 0..Len(prompts[r]) :
           /\ prompts[r] \in Seq(Chunks)
           /\ retained[r] = [i \in 1..n |-> PathOf(prompts[r], i)]
           /\ Held(r) = Row(prompts[r], 0, n)
           /\ Row(prompts[r], 0, n) \subseteq Paths(tree)
<1>1. PICK n \in 0..Len(prompts[r]) : retained[r] = [i \in 1..n |-> PathOf(prompts[r], i)]
  BY DEF IInv, RetainedIsPrefix
<1>2. prompts[r] \in Seq(Chunks)
  BY PromptFacts DEF IInv
<1>3. Held(r) = Row(prompts[r], 0, n)
  <2> DEFINE paths == [i \in 1..n |-> PathOf(prompts[r], i)]
  <2>1. {paths[j] : j \in DOMAIN paths} = Row(prompts[r], 0, n)
    BY <1>2, RowPaths
  <2> HIDE DEF paths
  <2> QED BY <1>1, <2>1 DEF Held, paths
<1>4. Held(r) \subseteq Paths(tree)
  BY DEF IInv, RefCountIsHolders, Held
<1> QED BY <1>1, <1>2, <1>3, <1>4

\* A request that leaves preserves the invariant and every node.
LEMMA LeaveStep ==
  ASSUME IInv, NEW r \in Requests, Leave(r)
  PROVE  /\ IInv'
         /\ Paths(tree)' = Paths(tree)
<1>1. PICK n \in 0..Len(prompts[r]) :
           /\ prompts[r] \in Seq(Chunks)
           /\ retained[r] = [i \in 1..n |-> PathOf(prompts[r], i)]
           /\ Held(r) = Row(prompts[r], 0, n)
           /\ Row(prompts[r], 0, n) \subseteq Paths(tree)
  BY HeldRow
<1>2. /\ prompts' = [prompts EXCEPT ![r] = <<>>]
      /\ retained' = [retained EXCEPT ![r] = <<>>]
      /\ tree' = ReleaseNodes(tree, [i \in 1..n |-> PathOf(prompts[r], i)])
  BY <1>1 DEF Leave
<1>3. /\ GoodTree(tree')
      /\ Paths(tree') = Paths(tree)
      /\ \A q \in Paths(tree) :
           tree'.nodes[q].ref_count =
             IF q \in Held(r) /\ tree.nodes[q].ref_count > 0
             THEN tree.nodes[q].ref_count - 1 ELSE tree.nodes[q].ref_count
  <2>1. GoodTree(tree)
    BY DEF IInv
  <2>2. PICK prompt : prompt = prompts[r]
    OBVIOUS
  <2>3. prompt \in Seq(Chunks) /\ n \in 0..Len(prompt) /\ Row(prompt, 0, n) \subseteq Paths(tree)
    BY <1>1, <2>2
  <2>4. retained[r] = [i \in 1..n |-> PathOf(prompt, i)] /\ tree' = ReleaseNodes(tree, retained[r])
    BY <1>1, <1>2, <2>2
  <2>5. /\ GoodTree(tree') /\ Paths(tree') = Paths(tree)
        /\ \A q \in Paths(tree) :
             tree'.nodes[q].ref_count =
               IF q \in Row(prompt, 0, n) /\ tree.nodes[q].ref_count > 0
               THEN tree.nodes[q].ref_count - 1 ELSE tree.nodes[q].ref_count
    BY <2>1, <2>3, <2>4, ReleaseEffect
  <2> QED BY <1>1, <2>2, <2>5
<1>4. /\ prompts'[r] = <<>> /\ retained'[r] = <<>>
      /\ \A o \in Requests \ {r} : prompts'[o] = prompts[o] /\ retained'[o] = retained[o]
      /\ prompts' \in [Requests -> Prompts \cup {<<>>}]
      /\ retained' \in [Requests -> Seq(PathSet)]
  <2>1. <<>> \in Seq(PathSet)
    OBVIOUS
  <2> QED BY <1>2, <2>1 DEF IInv
<1>5. RetainedIsPrefix'
  <2> SUFFICES ASSUME NEW o \in Requests
               PROVE  \E k \in 0..Len(prompts'[o]) :
                        retained'[o] = [i \in 1..k |-> PathOf(prompts'[o], i)]
    BY DEF RetainedIsPrefix
  <2>1. CASE o = r
    <3>1. 0 \in 0..Len(prompts'[o]) /\ retained'[o] = [i \in 1..0 |-> PathOf(prompts'[o], i)]
      BY <1>4, <2>1
    <3> QED BY <3>1
  <2>2. CASE o # r
    <3>1. prompts'[o] = prompts[o] /\ retained'[o] = retained[o]
      BY <1>4, <2>2
    <3> QED BY <3>1 DEF IInv, RetainedIsPrefix
  <2> QED BY <2>1, <2>2
<1>6. Held(r)' = {} /\ \A o \in Requests \ {r} : Held(o)' = Held(o)
  BY <1>4 DEF Held
<1>7. ASSUME NEW q \in Paths(tree)' PROVE tree'.nodes[q].ref_count = Cardinality(Holders(q)')
  <2>1. Holders(q) = {o \in Requests : q \in Held(o)} /\ IsFiniteSet(Holders(q))
    BY HoldersFacts
  <2>2. Holders(q)' = {o \in Requests : q \in Held(o)'}
    BY DEF Holders, Held
  <2>3. Holders(q)' = Holders(q) \ {r}
    BY <1>6, <2>1, <2>2
  <2>4. q \in Paths(tree)
    BY <1>3 DEF Paths
  <2>5. tree.nodes[q].ref_count = Cardinality(Holders(q)) /\ Cardinality(Holders(q)) \in Nat
    BY <2>4, HoldersFacts DEF IInv, RefCountIsHolders
  <2>6. Cardinality(Holders(q) \ {r}) =
          IF r \in Holders(q) THEN Cardinality(Holders(q)) - 1 ELSE Cardinality(Holders(q))
    BY <2>1, FS_RemoveElement
  <2>7. r \in Holders(q) <=> q \in Held(r)
    BY <2>1
  <2>8. r \in Holders(q) => Cardinality(Holders(q)) # 0
    BY <2>1, FS_EmptySet
  <2>9. tree'.nodes[q].ref_count =
          IF q \in Held(r) /\ tree.nodes[q].ref_count > 0
          THEN tree.nodes[q].ref_count - 1 ELSE tree.nodes[q].ref_count
    BY <1>3, <2>4
  <2> QED BY <2>3, <2>5, <2>6, <2>7, <2>8, <2>9
<1>8. RefCountIsHolders'
  <2>1. \A o \in Requests : Held(o)' \subseteq Paths(tree)'
    <3>1. \A o \in Requests : Held(o) \subseteq Paths(tree)
      BY DEF IInv, RefCountIsHolders, Held
    <3>2. \A o \in Requests : Held(o)' \subseteq Paths(tree)
      BY <1>6, <3>1
    <3> QED BY <1>3, <3>2 DEF Paths
  <2>2. \A o \in Requests : \A i \in DOMAIN retained'[o] : retained'[o][i] \in Paths(tree)'
    BY <2>1 DEF Held
  <2> QED BY <1>7, <2>2 DEF RefCountIsHolders
<1>9. GoodTree(tree)' /\ Paths(tree)' = Paths(tree)
  BY <1>3 DEF GoodTree, Shape, Closed, Ticks, Content, Paths
<1> QED BY <1>4, <1>5, <1>8, <1>9 DEF IInv

\* Eviction preserves the invariant and adds no node.
LEMMA EvictStep ==
  ASSUME IInv, NEW max \in 1..MaxEvict, Evict(max)
  PROVE  /\ IInv'
         /\ Paths(tree)' \subseteq Paths(tree)
<1>1. /\ GoodTree(tree')
      /\ Paths(tree') \subseteq Paths(tree)
      /\ \A q \in Paths(tree') : tree'.nodes[q] = tree.nodes[q]
      /\ \A q \in Paths(tree) : tree.nodes[q].ref_count > 0 => q \in Paths(tree')
  <2>1. GoodTree(tree) /\ max \in Nat /\ tree' = EvictLru(tree, max)
    BY SizesAssumption DEF IInv, Evict
  <2> QED BY <2>1, EvictEffect
<1>2. prompts' = prompts /\ retained' = retained
  BY DEF Evict
<1>3. \A q : Holders(q)' = Holders(q)
  BY <1>2 DEF Holders
<1>4. RefCountIsHolders'
  <2>1. \A q \in Paths(tree') : tree'.nodes[q].ref_count = Cardinality(Holders(q)')
    BY <1>1, <1>3 DEF IInv, RefCountIsHolders
  <2>2. ASSUME NEW r \in Requests, NEW i \in DOMAIN retained[r] PROVE retained[r][i] \in Paths(tree')
    <3> DEFINE q == retained[r][i]
    <3>1. q \in Paths(tree) /\ tree.nodes[q].ref_count = Cardinality(Holders(q))
      BY DEF IInv, RefCountIsHolders
    <3>2. r \in Holders(q)
      BY DEF Holders
    <3>3. Cardinality(Holders(q)) # 0 /\ Cardinality(Holders(q)) \in Nat
      BY <3>2, HoldersFacts, FS_EmptySet
    <3> HIDE DEF q
    <3>4. q \in Paths(tree')
      BY <1>1, <3>1, <3>3
    <3> QED BY <3>4 DEF q
  <2> QED BY <1>2, <2>1, <2>2 DEF RefCountIsHolders, Paths
<1>5. RetainedIsPrefix'
  BY <1>2 DEF IInv, RetainedIsPrefix
<1>6. GoodTree(tree)' /\ Paths(tree)' \subseteq Paths(tree)
  BY <1>1 DEF GoodTree, Shape, Closed, Ticks, Content, Paths
<1> QED BY <1>2, <1>4, <1>5, <1>6 DEF IInv

\* Reset preserves the invariant and empties the tree.
LEMMA ResetStep ==
  ASSUME IInv, ResetTree
  PROVE  IInv' /\ Paths(tree)' = {}
<1>1. tree' = [nodes |-> <<>>, current_tick |-> 0]
  BY DEF ResetTree, EmptyTree
<1>2. Paths(tree') = {} /\ Paths(tree)' = {}
  BY <1>1 DEF Paths
<1>3. GoodTree(tree)'
  <2>1. <<>> \in [{} -> NodeType] /\ {} \in SUBSET PathSet
    OBVIOUS
  <2>2. Shape(tree')
    BY <1>1, <2>1, MakeShape
  <2>3. GoodTree(tree')
    BY <1>2, <2>2 DEF GoodTree, Closed, Ticks, Content
  <2> QED BY <2>3 DEF GoodTree, Shape, Closed, Ticks, Content, Paths
<1>4. prompts' = prompts /\ retained' = [r \in Requests |-> <<>>]
  BY DEF ResetTree
<1>5. RetainedIsPrefix'
  <2>1. ASSUME NEW r \in Requests
        PROVE  \E n \in 0..Len(prompts'[r]) : retained'[r] = [i \in 1..n |-> PathOf(prompts'[r], i)]
    <3>1. 0 \in 0..Len(prompts'[r])
      BY <1>4, PromptFacts DEF IInv
    <3>2. retained'[r] = [i \in 1..0 |-> PathOf(prompts'[r], i)]
      BY <1>4
    <3> QED BY <3>1, <3>2
  <2> QED BY <2>1 DEF RetainedIsPrefix
<1>6. RefCountIsHolders'
  BY <1>2, <1>4 DEF RefCountIsHolders
<1>7. retained' \in [Requests -> Seq(PathSet)]
  <2>1. <<>> \in Seq(PathSet)
    OBVIOUS
  <2> QED BY <1>4, <2>1
<1>8. prompts' \in [Requests -> Prompts \cup {<<>>}]
  BY <1>4 DEF IInv
<1> QED BY <1>2, <1>3, <1>5, <1>6, <1>7, <1>8 DEF IInv

\* Every step preserves the invariant.
LEMMA NextStep == IInv /\ [Next]_vars => IInv'
<1> SUFFICES ASSUME IInv, [Next]_vars PROVE IInv'
  OBVIOUS
<1>1. ASSUME NEW r \in Requests, Leave(r) PROVE IInv'
  BY <1>1, LeaveStep
<1>2. ASSUME NEW r \in Requests, NEW prompt \in Prompts, Enter(r, prompt) PROVE IInv'
  BY <1>2, EnterStep
<1>3. ASSUME NEW max \in 1..MaxEvict, Evict(max) PROVE IInv'
  BY <1>3, EvictStep
<1>4. CASE ResetTree
  BY <1>4, ResetStep
<1>5. CASE UNCHANGED vars
  <2>1. tree' = tree /\ prompts' = prompts /\ retained' = retained
    BY <1>5 DEF vars
  <2>2. GoodTree(tree)'
    BY <2>1 DEF IInv, GoodTree, Shape, Closed, Ticks, Content, Paths
  <2>3. RefCountIsHolders'
    BY <2>1 DEF IInv, RefCountIsHolders, Holders, Paths
  <2>4. RetainedIsPrefix'
    BY <2>1 DEF IInv, RetainedIsPrefix
  <2> QED BY <2>1, <2>2, <2>3, <2>4 DEF IInv
<1> QED BY <1>1, <1>2, <1>3, <1>4, <1>5 DEF Next

\* The invariant holds in every state of the tree in use.
THEOREM InductiveInvariant == Spec => []IInv
<1>1. Init => IInv
  BY InitStep
<1>2. IInv /\ [Next]_vars => IInv'
  BY NextStep
<1> QED BY <1>1, <1>2, PTL DEF Spec

----------------------------------------------------------------------------
(* The invariants *)

\* A node's count is the number of requests that hold it, and they hold nodes
\* of the tree only.
THEOREM CountsCorrect == Spec => []RefCountIsHolders
<1>1. IInv => RefCountIsHolders
  BY DEF IInv
<1> QED BY <1>1, InductiveInvariant, PTL

\* Every node can be reached from the root.
THEOREM Reachable == Spec => []PrefixClosed
<1>1. IInv => PrefixClosed
  <2> SUFFICES ASSUME IInv, NEW q \in Paths(tree), Len(q) > 1
               PROVE  Parent(q) \in Paths(tree)
    BY DEF PrefixClosed
  <2>1. GoodTree(tree) /\ q \in PathSet
    BY ShapeFacts DEF IInv, GoodTree
  <2>2. Len(q) - 1 \in 1..Len(q)
    BY <2>1 DEF PathSet
  <2> QED BY <2>1, <2>2 DEF GoodTree, Closed, Parent
<1> QED BY <1>1, InductiveInvariant, PTL

\* No two nodes were last accessed at the same tick.
THEOREM AccessTimesDistinct == Spec => []TicksDistinct
<1>1. IInv => TicksDistinct
  BY DEF IInv, GoodTree, Ticks, TicksDistinct
<1> QED BY <1>1, InductiveInvariant, PTL

\* The tree maps paths to nodes and requests hold the paths of their prompts.
THEOREM TypeCorrect == Spec => []TypeOK
<1>1. IInv => TypeOK
  <2> SUFFICES ASSUME IInv PROVE TypeOK
    OBVIOUS
  <2>1. GoodTree(tree) /\ prompts \in [Requests -> Prompts \cup {<<>>}]
    BY DEF IInv
  <2>2. tree.current_tick \in Nat /\ \A q \in Paths(tree) : tree.nodes[q] \in NodeType
    BY <2>1, ShapeFacts DEF GoodTree
  <2>3. ASSUME NEW r \in Requests, NEW i \in DOMAIN retained[r] PROVE Len(retained[r][i]) = i
    <3>1. PICK n \in 0..Len(prompts[r]) :
             /\ prompts[r] \in Seq(Chunks)
             /\ retained[r] = [j \in 1..n |-> PathOf(prompts[r], j)]
      BY HeldRow
    <3>2. i \in 1..n /\ i \in 0..Len(prompts[r]) /\ retained[r][i] = PathOf(prompts[r], i)
      BY <2>3, <3>1
    <3> QED BY <3>1, <3>2, PathFacts
  <2> QED BY <2>1, <2>2, <2>3 DEF TypeOK
<1> QED BY <1>1, InductiveInvariant, PTL

----------------------------------------------------------------------------
(* What is found for a prompt that is looked up *)

\* No two prompts that are served have different tokens on the same path.  Prompts
\* that are only looked up may share the hashes of any of them.
PromptsSeparate ==
  \A p, q \in Prompts : \A n \in 1..Len(p) :
    n <= Len(q) /\ PathOf(p, n) = PathOf(q, n) => SubSeq(p, 1, n) = SubSeq(q, 1, n)

\* The paths of the beginnings of the prompts that are served, and the beginning
\* of a path.
Served(q) == \E p \in Prompts : \E n \in 1..Len(p) : q = PathOf(p, n)

Word(q) ==
  CHOOSE w : \E p \in Prompts : \E n \in 1..Len(p) : q = PathOf(p, n) /\ w = SubSeq(p, 1, n)

\* The beginning on a path is that of a prompt, and has its hashes.
LEMMA WordFacts ==
  ASSUME NEW q, Served(q)
  PROVE  /\ q \in PathSet
         /\ Word(q) \in Seq(Chunks)
         /\ Len(Word(q)) = Len(q)
         /\ \A i \in 1..Len(q) : Hash[Word(q)[i]] = q[i]
         /\ \E p \in Prompts : \E n \in 1..Len(p) : q = PathOf(p, n) /\ Word(q) = SubSeq(p, 1, n)
<1>1. \E w : \E p \in Prompts : \E n \in 1..Len(p) : q = PathOf(p, n) /\ w = SubSeq(p, 1, n)
  BY DEF Served
<1>2. \E p \in Prompts : \E n \in 1..Len(p) : q = PathOf(p, n) /\ Word(q) = SubSeq(p, 1, n)
  BY <1>1 DEF Word
<1>3a. PICK p \in Prompts : \E n \in 1..Len(p) : q = PathOf(p, n) /\ Word(q) = SubSeq(p, 1, n)
  BY <1>2
<1>3. PICK n \in 1..Len(p) : q = PathOf(p, n) /\ Word(q) = SubSeq(p, 1, n)
  BY <1>3a
<1>4. p \in Seq(Chunks) /\ n \in 0..Len(p) /\ n > 0
  BY PromptsAssumption
<1>5. q \in PathSet /\ Len(q) = n /\ \A i \in 1..n : q[i] = Hash[p[i]]
  BY <1>3, <1>4, PathFacts
<1>6. /\ SubSeq(p, 1, n) \in Seq(Chunks) /\ Len(SubSeq(p, 1, n)) = n
      /\ \A i \in 1..n : SubSeq(p, 1, n)[i] = p[i]
  BY <1>4
<1> QED BY <1>2, <1>3, <1>5, <1>6

\* The beginning on the path of a prompt is the prompt's, and on no other path.
LEMMA WordOfPath ==
  ASSUME PromptsSeparate, NEW prompt \in Prompts, NEW n \in 1..Len(prompt), NEW q, Served(q)
  PROVE  Word(q) = SubSeq(prompt, 1, n) <=> q = PathOf(prompt, n)
<1> DEFINE path == PathOf(prompt, n)
           s == SubSeq(prompt, 1, n)
<1>1. prompt \in Seq(Chunks) /\ n \in 0..Len(prompt) /\ n \in Nat /\ n > 0
  BY PromptsAssumption
<1>2. path \in PathSet /\ Len(path) = n /\ \A i \in 1..n : path[i] = Hash[prompt[i]]
  BY <1>1, PathFacts
<1>3. s \in Seq(Chunks) /\ Len(s) = n /\ \A i \in 1..n : s[i] = prompt[i]
  BY <1>1
<1>4. /\ q \in PathSet /\ Word(q) \in Seq(Chunks) /\ Len(Word(q)) = Len(q)
      /\ \A i \in 1..Len(q) : Hash[Word(q)[i]] = q[i]
  BY WordFacts
<1>5a. PICK p \in Prompts : \E m \in 1..Len(p) : q = PathOf(p, m) /\ Word(q) = SubSeq(p, 1, m)
  BY WordFacts
<1>5. PICK m \in 1..Len(p) : q = PathOf(p, m) /\ Word(q) = SubSeq(p, 1, m)
  BY <1>5a
<1>6. p \in Seq(Chunks) /\ m \in 0..Len(p) /\ Len(q) = m
  <2>1. p \in Seq(Chunks) /\ m \in 0..Len(p)
    BY PromptsAssumption
  <2> QED BY <1>5, <2>1, PathFacts
<1>7. ASSUME Word(q) = s PROVE q = path
  <2> HIDE DEF path, s
  <2>1. Len(q) = n /\ \A i \in 1..n : q[i] = Hash[prompt[i]]
    BY <1>3, <1>4, <1>7
  <2>2. q \in Seq(Hashes) /\ path \in Seq(Hashes)
    BY <1>2, <1>4 DEF PathSet
  <2> QED BY <1>2, <2>1, <2>2, SeqEqual
<1>8. ASSUME q = path PROVE Word(q) = s
  <2>1. m = n
    BY <1>2, <1>6, <1>8
  <2>2. PathOf(prompt, n) = PathOf(p, n) /\ n <= Len(p)
    <3>1. n <= Len(p)
      BY <1>6, <2>1
    <3>2. q = PathOf(p, n)
      BY <1>5, <2>1
    <3> QED BY <1>8, <3>1, <3>2
  <2>3. SubSeq(prompt, 1, n) = SubSeq(p, 1, n)
    BY <2>2 DEF PromptsSeparate
  <2> QED BY <1>5, <2>1, <2>3
<1> QED BY <1>7, <1>8

\* A node's path is that of a prompt that was served, and its page was computed
\* for the beginning of that prompt.
LEMMA NodesAreServed ==
  PromptsSeparate /\ IInv =>
    \A q \in Paths(tree) :
      /\ Served(q)
      /\ tree.nodes[q].page = Word(q)
      /\ tree.nodes[q].token_chunk = Word(q)[Len(q)]
<1> SUFFICES ASSUME PromptsSeparate, IInv, NEW q \in Paths(tree)
             PROVE  /\ Served(q)
                    /\ tree.nodes[q].page = Word(q)
                    /\ tree.nodes[q].token_chunk = Word(q)[Len(q)]
  OBVIOUS
<1> DEFINE page == tree.nodes[q].page
           n == Len(q)
<1>1. q \in PathSet
  BY ShapeFacts DEF IInv, GoodTree
<1>2. n \in Nat /\ n > 0 /\ q \in Seq(Hashes)
  BY <1>1 DEF PathSet
<1>3. /\ \E p \in Prompts : n <= Len(p) /\ page = SubSeq(p, 1, n)
      /\ \A i \in 1..n : Hash[page[i]] = q[i]
      /\ tree.nodes[q].token_chunk = page[n]
  BY DEF IInv, GoodTree, Content
<1> HIDE DEF page
<1>4. PICK p \in Prompts : n <= Len(p) /\ page = SubSeq(p, 1, n)
  BY <1>3
<1>5. p \in Seq(Chunks) /\ n \in 1..Len(p) /\ n \in 0..Len(p)
  BY <1>2, <1>4, PromptsAssumption
<1>6. q = PathOf(p, n)
  <2>1. \A i \in 1..n : page[i] = p[i]
    BY <1>4, <1>5
  <2>2. PathOf(p, n) \in Seq(Hashes) /\ Len(PathOf(p, n)) = n
        /\ \A i \in 1..n : PathOf(p, n)[i] = Hash[p[i]]
    BY <1>5, PathFacts
  <2>3. \A i \in 1..n : q[i] = PathOf(p, n)[i]
    BY <1>3, <2>1, <2>2
  <2> QED BY <1>2, <2>2, <2>3, SeqEqual
<1>7. Served(q)
  BY <1>5, <1>6 DEF Served
<1>8. Word(q) = SubSeq(p, 1, n)
  BY <1>5, <1>6, <1>7, WordOfPath
<1> QED BY <1>3, <1>4, <1>7, <1>8 DEF page

\* The tokens stored along a path are the beginning on the path.
LEMMA TokensAreWords ==
  PromptsSeparate /\ IInv => \A q \in Paths(tree) : Served(q) /\ TokensOf(q) = Word(q)
<1> SUFFICES ASSUME PromptsSeparate, IInv, NEW q \in Paths(tree)
             PROVE  Served(q) /\ TokensOf(q) = Word(q)
  OBVIOUS
<1>1. GoodTree(tree) /\ Served(q) /\ q \in PathSet
  BY NodesAreServed, WordFacts DEF IInv
<1>2a. PICK p \in Prompts : \E n \in 1..Len(p) : q = PathOf(p, n) /\ Word(q) = SubSeq(p, 1, n)
  BY <1>1, WordFacts
<1>2. PICK n \in 1..Len(p) : q = PathOf(p, n) /\ Word(q) = SubSeq(p, 1, n)
  BY <1>2a
<1>3. p \in Seq(Chunks) /\ n \in 0..Len(p) /\ Len(q) = n
  <2>1. p \in Seq(Chunks) /\ n \in 0..Len(p)
    BY PromptsAssumption
  <2> QED BY <1>2, <2>1, PathFacts
<1>4. ASSUME NEW i \in 1..n PROVE TokensOf(q)[i] = Word(q)[i]
  <2> DEFINE b == SubSeq(q, 1, i)
  <2>1. b \in Paths(tree)
    BY <1>1, <1>3 DEF GoodTree, Closed
  <2>2. i \in 0..n /\ i \in 1..Len(p) /\ i \in 0..Len(p)
    BY <1>3
  <2>3. b = PathOf(p, i)
    BY <1>2, <1>3, <2>2, PathBeginning
  <2>4. Len(b) = i
    BY <1>3, <2>2, <2>3, PathFacts
  <2>5. TokensOf(q)[i] = tree.nodes[b].token_chunk
    BY <1>3 DEF TokensOf
  <2> HIDE DEF b
  <2>6. Served(b) /\ tree.nodes[b].token_chunk = Word(b)[i]
    BY <2>1, <2>4, NodesAreServed
  <2>7. Word(b) = SubSeq(p, 1, i)
    BY <2>2, <2>3, <2>6, WordOfPath
  <2>8. SubSeq(p, 1, i)[i] = p[i] /\ SubSeq(p, 1, n)[i] = p[i]
    BY <1>3, <2>2
  <2> QED BY <1>2, <2>5, <2>6, <2>7, <2>8
<1>5. /\ TokensOf(q) = [i \in 1..n |-> TokensOf(q)[i]]
      /\ Word(q) = [i \in 1..n |-> Word(q)[i]]
  BY <1>2, <1>3 DEF TokensOf
<1> QED BY <1>1, <1>4, <1>5

\* Where no two prompts that are served collide, match_prefix returns only pages
\* computed for the prompt that is looked up, whatever its hashes collide with.
THEOREM MatchesRight ==
  ASSUME PromptsSeparate
  PROVE  Spec => []MatchedPagesAreForPrompt
<1>1. IInv => MatchedPagesAreForPrompt
  <2> SUFFICES ASSUME IInv, NEW prompt \in Lookups, NEW i \in 1..MatchedPages(tree, prompt)
               PROVE  tree.nodes[PathOf(prompt, i)].page = SubSeq(prompt, 1, i)
    BY DEF MatchedPagesAreForPrompt
  <2> DEFINE q == PathOf(prompt, i)
  <2>1. prompt \in Seq(Chunks)
    <3>1. PICK p \in Prompts : prompt \in [1..Len(p) -> Chunks]
      BY DEF Lookups
    <3>2. Len(p) \in Nat
      BY PromptsAssumption
    <3> QED BY <3>1, <3>2
  <2>2. i \in 0..Len(prompt) /\ \A j \in 1..i : MatchesPage(tree, prompt, j)
    <3>1. /\ MatchedPages(tree, prompt) \in 0..Len(prompt)
          /\ \A j \in 1..MatchedPages(tree, prompt) : MatchesPage(tree, prompt, j)
      BY <2>1, MatchedFacts
    <3> QED BY <3>1
  <2>3. i \in 1..i /\ i \in Nat
    BY <2>2
  <2>4. q \in Paths(tree)
    BY <2>2, <2>3 DEF MatchesPage
  <2>5. Len(q) = i
    BY <2>1, <2>2, PathFacts
  <2>6. ASSUME NEW j \in 1..i PROVE TokensOf(q)[j] = prompt[j]
    <3>1. SubSeq(q, 1, j) = PathOf(prompt, j)
      BY <2>1, <2>2, PathBeginning
    <3>2. tree.nodes[PathOf(prompt, j)].token_chunk = prompt[j]
      BY <2>2 DEF MatchesPage
    <3>3. TokensOf(q)[j] = tree.nodes[SubSeq(q, 1, j)].token_chunk
      BY <2>5 DEF TokensOf
    <3> HIDE DEF q
    <3> QED BY <3>1, <3>2, <3>3
  <2>7. /\ Served(q)
        /\ tree.nodes[q].page = Word(q)
        /\ TokensOf(q) = Word(q)
    BY <2>4, NodesAreServed, TokensAreWords
  <2>8. Word(q) \in Seq(Chunks) /\ Len(Word(q)) = i
    BY <2>5, <2>7, WordFacts
  <2>9. SubSeq(prompt, 1, i) \in Seq(Chunks) /\ Len(SubSeq(prompt, 1, i)) = i
        /\ \A j \in 1..i : SubSeq(prompt, 1, i)[j] = prompt[j]
    BY <2>1, <2>2
  <2> HIDE DEF q
  <2>10. \A j \in 1..i : Word(q)[j] = prompt[j]
    BY <2>6, <2>7
  <2>11. Word(q) = SubSeq(prompt, 1, i)
    BY <2>8, <2>9, <2>10, SeqEqual
  <2> QED BY <2>7, <2>11 DEF q
<1> QED BY <1>1, InductiveInvariant, PTL

----------------------------------------------------------------------------
(* The tree implements the prefix cache *)

Cached == {TokensOf(q) : q \in Paths(tree)}

Using == [r \in Requests |->
            IF retained[r] = <<>> THEN <<>> ELSE TokensOf(retained[r][Len(retained[r])])]

\* A prefix of a prompt is cached if its path is in the tree.
LEMMA CachedFacts ==
  PromptsSeparate /\ IInv =>
    /\ Cached = {Word(q) : q \in Paths(tree)}
    /\ \A q \in Paths(tree) : Served(q)
    /\ \A prompt \in Prompts : \A n \in 1..Len(prompt) :
         SubSeq(prompt, 1, n) \in Cached <=> PathOf(prompt, n) \in Paths(tree)
<1> SUFFICES ASSUME PromptsSeparate, IInv
             PROVE  /\ Cached = {Word(q) : q \in Paths(tree)}
                    /\ \A q \in Paths(tree) : Served(q)
                    /\ \A prompt \in Prompts : \A n \in 1..Len(prompt) :
                         SubSeq(prompt, 1, n) \in Cached <=> PathOf(prompt, n) \in Paths(tree)
  OBVIOUS
<1>1. (\A q \in Paths(tree) : Served(q)) /\ Cached = {Word(q) : q \in Paths(tree)}
  BY TokensAreWords DEF Cached
<1>2. ASSUME NEW prompt \in Prompts, NEW n \in 1..Len(prompt)
      PROVE  SubSeq(prompt, 1, n) \in Cached <=> PathOf(prompt, n) \in Paths(tree)
  <2>1. Served(PathOf(prompt, n))
    BY DEF Served
  <2>2. Word(PathOf(prompt, n)) = SubSeq(prompt, 1, n)
    BY <2>1, WordOfPath
  <2>3. ASSUME NEW q \in Paths(tree), Word(q) = SubSeq(prompt, 1, n) PROVE q = PathOf(prompt, n)
    BY <1>1, <2>3, WordOfPath
  <2> QED BY <1>1, <2>2, <2>3
<1> QED BY <1>1, <1>2

\* A request uses the prefix of its prompt whose nodes it holds.
UsingIsHeld ==
  /\ Using = [r \in Requests |-> Using[r]]
  /\ \A r \in Requests : \A n \in 0..Len(prompts[r]) :
       retained[r] = [i \in 1..n |-> PathOf(prompts[r], i)]
         => Using[r] = SubSeq(prompts[r], 1, n)

\* What a request uses follows from what it holds.
LEMMA UsingFacts == PromptsSeparate /\ IInv => UsingIsHeld
<1> SUFFICES ASSUME PromptsSeparate, IInv, NEW r \in Requests, NEW n \in 0..Len(prompts[r]),
                    retained[r] = [i \in 1..n |-> PathOf(prompts[r], i)]
             PROVE  Using[r] = SubSeq(prompts[r], 1, n)
  BY DEF Using, UsingIsHeld
<1>1. PICK prompt : prompt = prompts[r]
  OBVIOUS
<1>2. prompt \in Seq(Chunks) /\ n \in 0..Len(prompt) /\ n \in Nat
  BY <1>1, PromptFacts DEF IInv
<1>3. retained[r] = [i \in 1..n |-> PathOf(prompt, i)] /\ Len(retained[r]) = n
  BY <1>1, <1>2
<1>4. CASE n = 0
  <2>1. retained[r] = <<>> /\ SubSeq(prompt, 1, 0) = <<>>
    BY <1>2, <1>3, <1>4
  <2> QED BY <1>1, <1>4, <2>1 DEF Using
<1>5. CASE n # 0
  <2>1. n \in 1..n /\ n \in 1..Len(prompt) /\ retained[r] # <<>>
    BY <1>2, <1>3, <1>5
  <2>2. retained[r][n] = PathOf(prompt, n)
    BY <1>3, <2>1
  <2>3. PathOf(prompt, n) \in Paths(tree)
    BY <1>3, <2>1, <2>2 DEF IInv, RefCountIsHolders
  <2>4. TokensOf(PathOf(prompt, n)) = Word(PathOf(prompt, n)) /\ Served(PathOf(prompt, n))
    BY <2>3, TokensAreWords
  <2>5. prompt \in Prompts
    <3>1. prompt # <<>>
      BY <2>1
    <3> QED BY <1>1, <3>1 DEF IInv
  <2>6. Word(PathOf(prompt, n)) = SubSeq(prompt, 1, n)
    BY <2>1, <2>4, <2>5, WordOfPath
  <2> QED BY <1>1, <1>3, <2>1, <2>2, <2>4, <2>6 DEF Using
<1> QED BY <1>4, <1>5

\* The empty tree is the empty cache.
LEMMA InitRefines == Init => Abstract!Init
<1> SUFFICES ASSUME Init PROVE Abstract!Init
  OBVIOUS
<1>1. Paths(tree) = {}
  BY DEF Init, EmptyTree, Paths
<1>2. \A r \in Requests : retained[r] = <<>>
  BY DEF Init
<1>3. Cached = {} /\ Using = [r \in Requests |-> <<>>]
  BY <1>1, <1>2 DEF Cached, Using
<1> QED BY <1>3 DEF Init, Abstract!Init, Cached, Using

\* The request is given the longest cached prefix.
LEMMA EnterRefines ==
  ASSUME PromptsSeparate, IInv, IInv', NEW r \in Requests, NEW prompt \in Prompts, Enter(r, prompt)
  PROVE  Abstract!Start(r, prompt)
<1>1. PICK m \in 0..Len(prompt) :
           /\ m = MatchedPages(tree, prompt)
           /\ prompt \in Seq(Chunks)
           /\ Row(prompt, 0, m) \subseteq Paths(tree)
           /\ retained' = [retained EXCEPT ![r] = [i \in 1..m |-> PathOf(prompt, i)]]
           /\ Paths(tree') = Paths(tree) \cup Row(prompt, 0, Len(prompt))
  BY EnterEffect
<1>2. prompts[r] = <<>> /\ prompts' = [prompts EXCEPT ![r] = prompt]
  BY DEF Enter
<1>3. /\ Cached = {Word(q) : q \in Paths(tree)}
      /\ \A q \in Paths(tree) : Served(q)
      /\ \A n \in 1..Len(prompt) :
           SubSeq(prompt, 1, n) \in Cached <=> PathOf(prompt, n) \in Paths(tree)
  BY <1>1, CachedFacts
<1>4. \A i \in 1..m : SubSeq(prompt, 1, i) \in Cached
  <2> SUFFICES ASSUME NEW i \in 1..m PROVE SubSeq(prompt, 1, i) \in Cached
    OBVIOUS
  <2>1. i \in 1..Len(prompt) /\ PathOf(prompt, i) \in Row(prompt, 0, m)
    BY DEF Row
  <2> QED BY <1>1, <1>3, <2>1
<1>5. m < Len(prompt) => SubSeq(prompt, 1, m + 1) \notin Cached
  <2> SUFFICES ASSUME m < Len(prompt), SubSeq(prompt, 1, m + 1) \in Cached PROVE FALSE
    OBVIOUS
  <2> DEFINE n == m + 1
             q == PathOf(prompt, n)
  <2>1. n \in 1..Len(prompt) /\ n \in 0..Len(prompt) /\ n \in 1..n
    BY <1>1
  <2>2. ~MatchesPage(tree, prompt, n)
    BY <1>1, MatchedFacts
  <2>3. q \in Paths(tree)
    BY <1>3, <2>1
  <2>4. Len(q) = n
    BY <1>1, <2>1, PathFacts
  <2>5. Served(q) /\ tree.nodes[q].token_chunk = Word(q)[n]
    BY <2>3, <2>4, NodesAreServed
  <2>6. Word(q) = SubSeq(prompt, 1, n)
    BY <2>1, <2>5, WordOfPath
  <2>7. SubSeq(prompt, 1, n)[n] = prompt[n]
    BY <1>1, <2>1
  <2>8. tree.nodes[q].token_chunk = prompt[n]
    BY <2>5, <2>6, <2>7
  <2> QED BY <2>2, <2>3, <2>8 DEF MatchesPage
<1>6. Cached' = Cached \cup {SubSeq(prompt, 1, i) : i \in 1..Len(prompt)}
  <2>1. Cached' = {Word(q) : q \in Paths(tree')} /\ \A q \in Paths(tree') : Served(q)
    <3>1. (PromptsSeparate /\ IInv)' => (Cached = {Word(q) : q \in Paths(tree)} /\ \A q \in Paths(tree) : Served(q))'
      BY CachedFacts, PTL
    <3>2. (PromptsSeparate /\ IInv)'
      BY DEF PromptsSeparate
    <3> QED BY <3>1, <3>2 DEF Paths
  <2>2. ASSUME NEW i \in 1..Len(prompt)
        PROVE  PathOf(prompt, i) \in Paths(tree') /\ Word(PathOf(prompt, i)) = SubSeq(prompt, 1, i)
    <3>1. PathOf(prompt, i) \in Row(prompt, 0, Len(prompt))
      BY DEF Row
    <3>2. PathOf(prompt, i) \in Paths(tree')
      BY <1>1, <3>1
    <3> QED BY <1>1, <2>1, <3>2, WordOfPath
  <2>3. ASSUME NEW q \in Row(prompt, 0, Len(prompt))
        PROVE  \E i \in 1..Len(prompt) : q = PathOf(prompt, i)
    BY DEF Row
  <2>4. \A q \in Paths(tree') : q \in Paths(tree) \/ \E i \in 1..Len(prompt) : q = PathOf(prompt, i)
    BY <1>1, <2>3
  <2>5. Cached \subseteq Cached'
    BY <1>1, <1>3, <2>1
  <2>6. {SubSeq(prompt, 1, i) : i \in 1..Len(prompt)} \subseteq Cached'
    BY <2>1, <2>2
  <2>7. Cached' \subseteq Cached \cup {SubSeq(prompt, 1, i) : i \in 1..Len(prompt)}
    BY <1>3, <2>1, <2>2, <2>4
  <2> QED BY <2>5, <2>6, <2>7
<1>7. Using' = [Using EXCEPT ![r] = SubSeq(prompt, 1, m)]
  <2>1. /\ Using' = [o \in Requests |-> Using'[o]]
        /\ \A o \in Requests : \A n \in 0..Len(prompts'[o]) :
             retained'[o] = [i \in 1..n |-> PathOf(prompts'[o], i)]
               => Using'[o] = SubSeq(prompts'[o], 1, n)
    <3>1. (PromptsSeparate /\ IInv)' => UsingIsHeld'
      BY UsingFacts, PTL
    <3>2. (PromptsSeparate /\ IInv)'
      BY DEF PromptsSeparate
    <3> QED BY <3>1, <3>2 DEF UsingIsHeld
  <2>2. Using'[r] = SubSeq(prompt, 1, m)
    <3>1. prompts'[r] = prompt /\ retained'[r] = [i \in 1..m |-> PathOf(prompt, i)]
      BY <1>1, <1>2 DEF IInv
    <3> QED BY <2>1, <3>1
  <2>3. ASSUME NEW o \in Requests, o # r PROVE Using'[o] = Using[o]
    <3>1. prompts'[o] = prompts[o] /\ retained'[o] = retained[o]
      BY <1>1, <1>2, <2>3 DEF IInv
    <3>2. PICK n \in 0..Len(prompts[o]) : retained[o] = [i \in 1..n |-> PathOf(prompts[o], i)]
      BY DEF IInv, RetainedIsPrefix
    <3>3. Using[o] = SubSeq(prompts[o], 1, n)
      BY <3>2, UsingFacts DEF UsingIsHeld
    <3>4. Using'[o] = SubSeq(prompts[o], 1, n)
      BY <2>1, <3>1, <3>2
    <3> QED BY <3>3, <3>4
  <2>4. Using = [o \in Requests |-> Using[o]]
    BY UsingFacts DEF UsingIsHeld
  <2> QED BY <2>1, <2>2, <2>3, <2>4
<1> QED BY <1>1, <1>2, <1>4, <1>5, <1>6, <1>7 DEF Abstract!Start, Cached, Using

\* A request that leaves stops using its prefix.
LEMMA LeaveRefines ==
  ASSUME PromptsSeparate, IInv, IInv', NEW r \in Requests, Leave(r)
  PROVE  Abstract!Stop(r)
<1>1. Paths(tree)' = Paths(tree)
  BY LeaveStep
<1>2. /\ prompts[r] # <<>> /\ prompts' = [prompts EXCEPT ![r] = <<>>]
      /\ retained' = [retained EXCEPT ![r] = <<>>]
  BY DEF Leave
<1>3. (PromptsSeparate /\ IInv)'
  BY DEF PromptsSeparate
<1>4. Cached' = Cached
  <2>1. Cached = {Word(q) : q \in Paths(tree)}
    BY CachedFacts
  <2>2. (PromptsSeparate /\ IInv)' => (Cached = {Word(q) : q \in Paths(tree)})'
    BY CachedFacts, PTL
  <2> QED BY <1>1, <1>3, <2>1, <2>2
<1>5. Using' = [Using EXCEPT ![r] = <<>>]
  <2>1. UsingIsHeld /\ UsingIsHeld'
    <3>1. (PromptsSeparate /\ IInv)' => UsingIsHeld'
      BY UsingFacts, PTL
    <3> QED BY <1>3, <3>1, UsingFacts
  <2>2. Using'[r] = <<>>
    <3>1. retained'[r] = <<>>
      BY <1>2 DEF IInv
    <3> QED BY <3>1 DEF Using
  <2>3. ASSUME NEW o \in Requests, o # r PROVE Using'[o] = Using[o]
    <3>1. prompts'[o] = prompts[o] /\ retained'[o] = retained[o]
      BY <1>2, <2>3 DEF IInv
    <3>2. PICK n \in 0..Len(prompts[o]) : retained[o] = [i \in 1..n |-> PathOf(prompts[o], i)]
      BY DEF IInv, RetainedIsPrefix
    <3>3. Using[o] = SubSeq(prompts[o], 1, n)
      BY <2>1, <3>2 DEF UsingIsHeld
    <3>4. n \in 0..Len(prompts'[o]) /\ retained'[o] = [i \in 1..n |-> PathOf(prompts'[o], i)]
      BY <3>1, <3>2
    <3>5. Using'[o] = SubSeq(prompts'[o], 1, n)
      BY <2>1, <3>4 DEF UsingIsHeld
    <3> QED BY <3>1, <3>3, <3>5
  <2> QED BY <2>1, <2>2, <2>3 DEF UsingIsHeld
<1> QED BY <1>2, <1>4, <1>5 DEF Abstract!Stop, Cached, Using

\* Only prefixes are forgotten that nobody uses and no remembered one extends.
LEMMA EvictRefines ==
  ASSUME PromptsSeparate, IInv, IInv', NEW max \in 1..MaxEvict, Evict(max)
  PROVE  Abstract!Forget
<1>1. Paths(tree)' \subseteq Paths(tree)
  BY EvictStep
<1>2. prompts' = prompts /\ retained' = retained
  BY DEF Evict
<1>3. (PromptsSeparate /\ IInv)'
  BY DEF PromptsSeparate
<1>4. /\ Cached = {Word(q) : q \in Paths(tree)}
      /\ Cached' = {Word(q) : q \in Paths(tree)'}
      /\ \A q \in Paths(tree) : Served(q)
  <2>1. (PromptsSeparate /\ IInv)' => (Cached = {Word(q) : q \in Paths(tree)})'
    BY CachedFacts, PTL
  <2> QED BY <1>3, <2>1, CachedFacts
<1>5. Cached' \in SUBSET Cached
  BY <1>1, <1>4
<1>6. UsingIsHeld /\ UsingIsHeld'
  <2>1. (PromptsSeparate /\ IInv)' => UsingIsHeld'
    BY UsingFacts, PTL
  <2> QED BY <1>3, <2>1, UsingFacts
<1>7. Using' = Using
  <2>1. ASSUME NEW o \in Requests PROVE Using'[o] = Using[o]
    <3>2. PICK n \in 0..Len(prompts[o]) : retained[o] = [i \in 1..n |-> PathOf(prompts[o], i)]
      BY DEF IInv, RetainedIsPrefix
    <3> QED BY <1>2, <1>6, <3>2 DEF UsingIsHeld
  <2> QED BY <1>6, <2>1 DEF UsingIsHeld
\* A beginning of a remembered prefix is remembered.
<1>8. ASSUME NEW p \in Cached, NEW q \in Paths(tree)', Abstract!Begins(p, Word(q))
      PROVE  p \in Cached'
  <2>1. PICK w \in Paths(tree) : p = Word(w)
    BY <1>4
  <2>2. w \in PathSet /\ q \in PathSet /\ Len(w) \in Nat /\ Len(q) \in Nat /\ Len(w) > 0
    BY <1>1, <1>4, <2>1, WordFacts DEF PathSet
  <2>3. Len(w) <= Len(q) /\ \A i \in 1..Len(w) : w[i] = q[i]
    <3>1. Served(w) /\ Served(q)
      BY <1>1, <1>4
    <3>2. /\ Len(Word(w)) = Len(w) /\ \A i \in 1..Len(w) : Hash[Word(w)[i]] = w[i]
          /\ Len(Word(q)) = Len(q) /\ \A i \in 1..Len(q) : Hash[Word(q)[i]] = q[i]
      BY <3>1, WordFacts
    <3>3. Len(Word(w)) <= Len(Word(q)) /\ \A i \in 1..Len(Word(w)) : Word(w)[i] = Word(q)[i]
      BY <1>8, <2>1 DEF Abstract!Begins
    <3>4. Len(w) <= Len(q) /\ \A i \in 1..Len(w) : Word(w)[i] = Word(q)[i]
      BY <3>2, <3>3
    <3>5. \A i \in 1..Len(w) : i \in 1..Len(q)
      BY <2>2, <3>4
    <3> QED BY <3>2, <3>4, <3>5
  <2>4. Len(w) \in 1..Len(q)
    BY <2>2, <2>3
  <2>5. SubSeq(q, 1, Len(w)) = w
    <3>1. SubSeq(q, 1, Len(w)) \in Seq(Hashes) /\ w \in Seq(Hashes)
      BY <2>2, <2>4, BeginningFacts DEF PathSet
    <3> QED BY <2>2, <2>3, <2>4, <3>1, BeginningFacts, SeqEqual
  <2>6. w \in Paths(tree)'
    BY <2>4, <2>5 DEF IInv, GoodTree, Closed
  <2> QED BY <1>4, <2>1, <2>6
<1>9. ASSUME NEW p \in Cached \ Cached', NEW r \in Requests PROVE ~Abstract!Begins(p, Using[r])
  <2>1. PICK n \in 0..Len(prompts[r]) : retained[r] = [i \in 1..n |-> PathOf(prompts[r], i)]
    BY DEF IInv, RetainedIsPrefix
  <2>2. n \in Nat /\ Len(retained[r]) = n
    BY <2>1, PromptFacts DEF IInv
  <2>3. CASE n = 0
    <3>1. Using[r] = <<>>
      BY <2>1, <2>3 DEF Using
    <3>2. Len(p) > 0
      BY <1>4, WordFacts DEF PathSet
    <3> QED BY <3>1, <3>2 DEF Abstract!Begins
  <2>4. CASE n # 0
    <3> DEFINE q == retained[r][n]
    <3>1. n \in DOMAIN retained[r] /\ retained[r] # <<>>
      BY <2>1, <2>2, <2>4
    <3>2. q \in Paths(tree) /\ q \in Paths(tree)'
      BY <1>2, <3>1 DEF IInv, RefCountIsHolders
    <3>3. Using[r] = Word(q)
      BY <2>2, <3>1, <3>2, TokensAreWords DEF Using
    <3> QED BY <1>8, <3>2, <3>3
  <2> QED BY <2>3, <2>4
<1>10. ASSUME NEW p \in Cached \ Cached', NEW s \in Cached' PROVE ~Abstract!Begins(p, s)
  BY <1>4, <1>8
<1> QED BY <1>2, <1>5, <1>7, <1>9, <1>10 DEF Abstract!Forget, Cached, Using

\* Reset drops the cache.
LEMMA ResetRefines ==
  ASSUME IInv, ResetTree
  PROVE  Abstract!Drop
<1>1. Cached' = {}
  BY ResetStep DEF Cached
<1>2. Using' = [r \in Requests |-> <<>>]
  BY DEF ResetTree, Using
<1> QED BY <1>1, <1>2 DEF ResetTree, Abstract!Drop, Cached, Using

\* Where no two prompts that are served collide, requests get the longest cached
\* prefix and keep it until they are done.
THEOREM CacheRefinement ==
  ASSUME PromptsSeparate
  PROVE  Spec => ImplementsPrefixCache
<1>1. Init => Abstract!Init
  BY InitRefines
<1>2. IInv /\ IInv' /\ [Next]_vars => [Abstract!Next]_(Abstract!cacheVars)
  <2> SUFFICES ASSUME IInv, IInv', [Next]_vars PROVE [Abstract!Next]_(Abstract!cacheVars)
    OBVIOUS
  <2>1. ASSUME NEW r \in Requests, Leave(r) PROVE Abstract!Next
    BY <2>1, LeaveRefines DEF Abstract!Next
  <2>2. ASSUME NEW r \in Requests, NEW prompt \in Prompts, Enter(r, prompt) PROVE Abstract!Next
    BY <2>2, EnterRefines DEF Abstract!Next
  <2>3. ASSUME NEW max \in 1..MaxEvict, Evict(max) PROVE Abstract!Next
    BY <2>3, EvictRefines DEF Abstract!Next
  <2>4. CASE ResetTree
    BY <2>4, ResetRefines DEF Abstract!Next
  <2>5. CASE UNCHANGED vars
    <3>1. tree' = tree /\ prompts' = prompts /\ retained' = retained
      BY <2>5 DEF vars
    <3>2. Cached' = Cached /\ Using' = Using
      BY <3>1 DEF Cached, Using, TokensOf, Paths
    <3> QED BY <3>1, <3>2 DEF Abstract!cacheVars, Cached, Using
  <2> QED BY <2>1, <2>2, <2>3, <2>4, <2>5 DEF Next
<1> QED BY <1>1, <1>2, InductiveInvariant, PTL DEF Spec, ImplementsPrefixCache, Abstract!Spec
=============================================================================
