-------------------------- MODULE MemoryPlannerProofs --------------------------
(***************************************************************************)
(* Results about MemoryPlanner, for every set of graphs in static single   *)
(* assignment and every alignment: tensors whose intervals meet lie apart  *)
(* in the arena, and so no operation writes over a result that is still    *)
(* needed; every tensor lies aligned inside the arena; none is left        *)
(* without a place; and the arena costs no more than the tensors one after *)
(* the other (PeakCovered), and no less than the results needed together.  *)
(*                                                                         *)
(* LiveTogetherApart is not inductive alone.  The planner forgets the      *)
(* intervals that ended, so the invariant also says that everything it     *)
(* forgot ended before the tensors still to come begin (ActiveComplete),   *)
(* which rests on the order in which they are placed.  That the intervals  *)
(* are those of the graph is a second invariant, of the analysis           *)
(* (ScannedUses).                                                          *)
(***************************************************************************)
EXTENDS MemoryPlanner, NumberLemmas, TLAPS

\* The record of a placed tensor among the active intervals.
IntervalOf(t) ==
  [start |-> offsets[t], end |-> offsets[t] + Size(t), last |-> live[t].last]

Types ==
  /\ graph \in Graphs
  /\ scanned \in 0 .. NumOps + 1
  /\ live \in [Tensors -> [first : Nat, last : Nat]]
  /\ todo \subseteq Tensors
  /\ \A a \in active : a.start \in Nat /\ a.end \in Nat
  /\ Placed \subseteq Tensors
  /\ offsets \in [Placed -> Nat]

\* Nothing is placed before the analysis is over.
AnalysisFirst == scanned <= NumOps => todo = {} /\ Placed = {}

\* What the analysis has seen is inside the intervals it computed.
ScannedUses ==
  \A t \in Tensors : \A k \in 0 .. NumOps - 1 :
    k < scanned =>
      /\ t \in Writes(k) => live[t].first <= k /\ k <= live[t].last
      /\ t \in Reads(k) => k <= live[t].last

\* A placed tensor that meets one still to be placed is among the active ones.
ActiveComplete ==
  \A u \in Placed : \A t \in todo :
    live[t].first <= live[u].last => IntervalOf(u) \in active

Inv == Types /\ AnalysisFirst /\ ScannedUses /\ ActiveComplete /\ LiveTogetherApart

--------------------------------------------------------------------------------

\* The size of a tensor is a number.
LEMMA SizeNat ==
  ASSUME graph \in Graphs, NEW t \in Tensors
  PROVE  Size(t) \in Nat /\ t \in Nat
BY GraphsAssumption DEF Size, Tensors

\* The nodes are records of sets of tensors.
LEMMA NodeTypes ==
  ASSUME graph \in Graphs
  PROVE  /\ NumOps \in Nat
         /\ \A k \in 0 .. NumOps - 1 : Writes(k) \subseteq Tensors /\ Reads(k) \subseteq Tensors
<1> DEFINE Node == [inputs : SUBSET DOMAIN graph.tensors, outputs : SUBSET DOMAIN graph.tensors]
<1>1. graph.nodes \in Seq(Node) BY GraphsAssumption
<1>2. NumOps \in Nat BY <1>1 DEF NumOps
<1>3. \A k \in 0 .. NumOps - 1 : graph.nodes[k + 1] \in Node
  <2> SUFFICES ASSUME NEW k \in 0 .. NumOps - 1 PROVE graph.nodes[k + 1] \in Node OBVIOUS
  <2>1. k + 1 \in 1 .. Len(graph.nodes) BY <1>2 DEF NumOps
  <2> HIDE DEF Node
  <2> QED BY <2>1, <1>1
<1> QED BY <1>2, <1>3 DEF Writes, Reads, Tensors

\* Aligning moves an offset up.
LEMMA AlignUp ==
  ASSUME NEW c \in Nat
  PROVE  AlignOffset(c) \in Nat /\ AlignOffset(c) >= c
<1>1. Alignment \in Nat \ {0} BY AlignmentAssumption
<1>2. c % Alignment \in 0 .. Alignment - 1 BY <1>1
<1> QED BY <1>1, <1>2 DEF AlignOffset

\* First fit leaves every interval on one side of the place it finds.
LEMMA FirstFitApart ==
  ASSUME NEW intervals, \A a \in intervals : a.start \in Nat /\ a.end \in Nat,
         NEW t, Size(t) \in Nat,
         NEW c \in Nat, FirstFit(intervals, c, t),
         NEW b \in intervals
  PROVE  b.end <= AlignOffset(c) \/ AlignOffset(c) + Size(t) <= b.start
<1>1. AlignOffset(c) \in Nat /\ AlignOffset(c) >= c BY AlignUp
<1>2. CASE \E a \in intervals : Candidate(Below(a, intervals), c) /\ FitsBelow(a, c, t)
  <2>1. PICK a \in intervals : Candidate(Below(a, intervals), c) /\ FitsBelow(a, c, t) BY <1>2
  <2>2. CASE b.start < a.start
    <3>1. b \in Below(a, intervals) BY <2>2 DEF Below
    <3>2. b.end <= c BY <3>1, <2>1 DEF Candidate
    <3> QED BY <3>2, <1>1
  <2>3. CASE b.start >= a.start
    BY <2>1, <2>3, <1>1 DEF FitsBelow
  <2> QED BY <2>2, <2>3
<1>3. CASE Candidate(intervals, c)
  <2>1. b.end <= c BY <1>3 DEF Candidate
  <2> QED BY <2>1, <1>1
<1> QED BY <1>2, <1>3 DEF FirstFit

--------------------------------------------------------------------------------

\* Before the analysis nothing is placed.
LEMMA InitInv == Init => Inv
<1> SUFFICES ASSUME Init PROVE Inv OBVIOUS
<1>1. graph \in Graphs /\ NumOps \in Nat BY NodeTypes DEF Init
<1>2. live \in [Tensors -> [first : Nat, last : Nat]]
  BY <1>1 DEF Init, InitialInterval, Tensors, NumOps
<1>3. Placed = {} BY DEF Init, Placed
<1>4. Types BY <1>1, <1>2, <1>3 DEF Init, Types
<1>5. AnalysisFirst BY <1>3 DEF Init, AnalysisFirst
<1>6. ScannedUses BY <1>1 DEF Init, ScannedUses
<1>7. ActiveComplete /\ LiveTogetherApart BY <1>3 DEF ActiveComplete, LiveTogetherApart
<1> QED BY <1>4, <1>5, <1>6, <1>7 DEF Inv

\* A step of the analysis extends the intervals by one operation.
LEMMA ScanOpInv == Inv /\ ScanOp => Inv'
<1> SUFFICES ASSUME Inv, ScanOp PROVE Inv' OBVIOUS
<1>0. /\ graph \in Graphs /\ scanned \in Nat /\ NumOps \in Nat
      /\ live \in [Tensors -> [first : Nat, last : Nat]]
      /\ graph' = graph /\ Tensors' = Tensors /\ NumOps' = NumOps
      /\ scanned < NumOps /\ scanned' = scanned + 1
      /\ todo' = {} /\ Placed = {} /\ Placed' = {}
  BY NodeTypes DEF Inv, Types, AnalysisFirst, ScanOp, Tensors, NumOps, Placed
<1> DEFINE node == graph.nodes[scanned + 1]
<1>1. \A t \in Tensors :
        /\ live'[t] = Scanned(t, scanned, node)
        /\ live'[t].first \in Nat /\ live'[t].last \in Nat
        /\ live'[t] \in [first : Nat, last : Nat]
        /\ live'[t].first <= live[t].first /\ live[t].last <= live'[t].last
        /\ t \in node.outputs => live'[t].first <= scanned /\ scanned <= live'[t].last
        /\ t \in node.inputs => scanned <= live'[t].last
  BY <1>0 DEF ScanOp, Scanned, Smaller, Larger
<1>2. live' \in [Tensors -> [first : Nat, last : Nat]]
  BY <1>1, <1>0 DEF ScanOp
<1>3. Types' BY <1>0, <1>2 DEF Inv, Types, ScanOp
<1>4. AnalysisFirst' BY <1>0 DEF AnalysisFirst
<1>5. ScannedUses'
  <2> SUFFICES ASSUME NEW t \in Tensors, NEW k \in 0 .. NumOps - 1, k < scanned + 1
               PROVE  /\ t \in Writes(k) => live'[t].first <= k /\ k <= live'[t].last
                      /\ t \in Reads(k) => k <= live'[t].last
    BY <1>0 DEF ScannedUses, Writes, Reads
  <2>1. CASE k < scanned
    <3>1. /\ t \in Writes(k) => live[t].first <= k /\ k <= live[t].last
          /\ t \in Reads(k) => k <= live[t].last
      BY <2>1 DEF Inv, ScannedUses
    <3> QED BY <3>1, <1>0, <1>1
  <2>2. CASE k = scanned BY <2>2, <1>1 DEF Writes, Reads
  <2> QED BY <2>1, <2>2, <1>0
<1>6. ActiveComplete' /\ LiveTogetherApart'
  BY <1>0 DEF ActiveComplete, LiveTogetherApart
<1> QED BY <1>3, <1>4, <1>5, <1>6 DEF Inv

\* Closing the analysis only lengthens intervals.
LEMMA CollectInv == Inv /\ CollectReclaimable => Inv'
<1> SUFFICES ASSUME Inv, CollectReclaimable PROVE Inv' OBVIOUS
<1>0. /\ graph \in Graphs /\ scanned \in Nat /\ NumOps \in Nat
      /\ live \in [Tensors -> [first : Nat, last : Nat]]
      /\ graph' = graph /\ Tensors' = Tensors /\ NumOps' = NumOps
      /\ scanned = NumOps /\ scanned' = NumOps + 1
      /\ todo' \subseteq Tensors /\ Placed = {} /\ Placed' = {}
  BY NodeTypes DEF Inv, Types, AnalysisFirst, CollectReclaimable, Tensors, NumOps, Placed
<1>1. \A t \in Tensors :
        /\ live'[t] \in [first : Nat, last : Nat]
        /\ live'[t].first = live[t].first
        /\ live'[t].last \in {live[t].last, NumOps}
  BY <1>0 DEF CollectReclaimable
<1>2. live' \in [Tensors -> [first : Nat, last : Nat]]
  BY <1>1, <1>0 DEF CollectReclaimable
<1>3. Types' BY <1>0, <1>2 DEF Inv, Types, CollectReclaimable
<1>4. AnalysisFirst' BY <1>0 DEF AnalysisFirst
<1>5. ScannedUses'
  <2> SUFFICES ASSUME NEW t \in Tensors, NEW k \in 0 .. NumOps - 1
               PROVE  /\ t \in Writes(k) => live'[t].first <= k /\ k <= live'[t].last
                      /\ t \in Reads(k) => k <= live'[t].last
    BY <1>0 DEF ScannedUses, Writes, Reads
  <2>1. /\ t \in Writes(k) => live[t].first <= k /\ k <= live[t].last
        /\ t \in Reads(k) => k <= live[t].last
    BY <1>0 DEF Inv, ScannedUses
  <2> QED BY <2>1, <1>0, <1>1
<1>6. ActiveComplete' /\ LiveTogetherApart'
  BY <1>0 DEF ActiveComplete, LiveTogetherApart
<1> QED BY <1>3, <1>4, <1>5, <1>6 DEF Inv

\* Placing a tensor keeps it apart from all that its interval meets.
LEMMA PlaceInv == Inv /\ Place => Inv'
<1> SUFFICES ASSUME Inv, Place PROVE Inv' OBVIOUS
<1>0. PICK t \in todo :
        /\ IsNext(t)
        /\ \E c \in {0} \cup {a.end : a \in StillActive(t)} :
             FirstFit(StillActive(t), c, t) /\ PlaceAt(t, AlignOffset(c))
  BY DEF Place
<1>1. PICK c \in {0} \cup {a.end : a \in StillActive(t)} :
             FirstFit(StillActive(t), c, t) /\ PlaceAt(t, AlignOffset(c))
  BY <1>0
<1> DEFINE off == AlignOffset(c)
<1>2. /\ \A a \in StillActive(t) : a.start \in Nat /\ a.end \in Nat
      /\ c \in Nat
  BY <1>1 DEF Inv, Types, StillActive
<1>3. off \in Nat BY <1>2, AlignUp
<1>4. /\ graph \in Graphs /\ todo \subseteq Tensors /\ t \in Tensors /\ t \in Nat
      /\ Placed \subseteq Tensors /\ offsets \in [Placed -> Nat]
      /\ live \in [Tensors -> [first : Nat, last : Nat]]
      /\ \A s \in Tensors : Size(s) \in Nat /\ s \in Nat
  BY SizeNat, <1>0 DEF Inv, Types
<1>5. /\ graph' = graph /\ scanned' = scanned /\ live' = live
      /\ Tensors' = Tensors /\ NumOps' = NumOps
      /\ todo' = todo \ {t} /\ Placed' = Placed \cup {t}
      /\ offsets'[t] = off
      /\ \A u \in Placed \ {t} : offsets'[u] = offsets[u]
      /\ offsets' \in [Placed' -> Nat]
      /\ \A s \in Tensors : Size(s)' = Size(s)
      /\ active' = StillActive(t) \cup
           {[start |-> off, end |-> off + Size(t), last |-> live[t].last]}
  BY <1>1, <1>3, <1>4 DEF PlaceAt, Placed, Tensors, NumOps, Size
<1>6. ~(scanned <= NumOps) BY <1>0 DEF Inv, AnalysisFirst
<1>7. Types'
  <2>1. \A a \in active' : a.start \in Nat /\ a.end \in Nat
    BY <1>2, <1>3, <1>4, <1>5
  <2>2. scanned' \in 0 .. NumOps' + 1 BY <1>5 DEF Inv, Types
  <2>3. /\ graph' \in Graphs /\ todo' \subseteq Tensors' /\ Placed' \subseteq Tensors'
        /\ live' \in [Tensors' -> [first : Nat, last : Nat]]
        /\ offsets' \in [Placed' -> Nat]
    BY <1>4, <1>5
  <2> QED BY <2>1, <2>2, <2>3 DEF Types
<1>8. AnalysisFirst' BY <1>5, <1>6 DEF AnalysisFirst
<1>9. ScannedUses' BY <1>5 DEF Inv, ScannedUses, Writes, Reads
<1>10. \A s \in todo \ {t} : live[t].first <= live[s].first
  BY <1>0, <1>4 DEF IsNext, Precedes
<1>11. \A u \in Placed : live[t].first <= live[u].last => IntervalOf(u) \in StillActive(t)
  BY <1>0 DEF Inv, ActiveComplete, StillActive, IntervalOf
<1>12. ActiveComplete'
  <2> SUFFICES ASSUME NEW u \in Placed \cup {t}, NEW s \in todo \ {t},
                      live[s].first <= live[u].last
               PROVE  IntervalOf(u)' \in active'
    BY <1>5 DEF ActiveComplete
  <2>1. CASE u = t BY <2>1, <1>5, <1>4 DEF IntervalOf
  <2>2. CASE u \in Placed \ {t}
    <3>1. live[t].first <= live[u].last BY <1>10, <1>4, <2>2
    <3>2. IntervalOf(u) \in StillActive(t) BY <3>1, <1>11, <2>2
    <3>3. IntervalOf(u)' = IntervalOf(u) BY <2>2, <1>5, <1>4 DEF IntervalOf
    <3> QED BY <3>2, <3>3, <1>5
  <2> QED BY <2>1, <2>2
<1>13. \A u \in Placed \ {t} :
         live[t].first <= live[u].last =>
           \/ off + Size(t) <= offsets[u]
           \/ offsets[u] + Size(u) <= off
  <2> SUFFICES ASSUME NEW u \in Placed \ {t}, live[t].first <= live[u].last
               PROVE  off + Size(t) <= offsets[u] \/ offsets[u] + Size(u) <= off
    OBVIOUS
  <2>1. IntervalOf(u) \in StillActive(t) BY <1>11
  <2>2. IntervalOf(u).end <= off \/ off + Size(t) <= IntervalOf(u).start
    BY <2>1, <1>1, <1>2, <1>4, FirstFitApart
  <2> QED BY <2>2 DEF IntervalOf
<1>14. LiveTogetherApart'
  <2> SUFFICES ASSUME NEW u \in Placed \cup {t}, NEW w \in Placed \cup {t},
                      u /= w, live[u].first <= live[w].last, live[w].first <= live[u].last
               PROVE  \/ offsets'[u] + Size(u) <= offsets'[w]
                      \/ offsets'[w] + Size(w) <= offsets'[u]
    BY <1>5, <1>4 DEF LiveTogetherApart
  <2>1. CASE u = t BY <2>1, <1>13, <1>5
  <2>2. CASE w = t BY <2>2, <1>13, <1>5
  <2>3. CASE u /= t /\ w /= t
    BY <2>3, <1>5 DEF Inv, LiveTogetherApart
  <2> QED BY <2>1, <2>2, <2>3
<1> QED BY <1>7, <1>8, <1>9, <1>12, <1>14 DEF Inv

\* Every step keeps the invariant.
LEMMA InvInductive == Inv /\ [Next]_vars => Inv'
<1> SUFFICES ASSUME Inv, [Next]_vars PROVE Inv' OBVIOUS
<1>1. CASE ScanOp BY <1>1, ScanOpInv
<1>2. CASE CollectReclaimable BY <1>2, CollectInv
<1>3. CASE Place BY <1>3, PlaceInv
<1>4. CASE UNCHANGED vars
  BY <1>4 DEF vars, Inv, Types, AnalysisFirst, ScannedUses, ActiveComplete, LiveTogetherApart,
       Tensors, NumOps, Placed, Writes, Reads, IntervalOf, Size
<1> QED BY <1>1, <1>2, <1>3, <1>4 DEF Next

\* The invariant holds of every plan.
LEMMA SpecInv == Spec => []Inv
<1>1. Inv /\ [Next]_vars => Inv' BY InvInductive
<1> QED BY InitInv, <1>1, PTL DEF Spec

--------------------------------------------------------------------------------

\* What an operation writes, or needs to be kept, is in its interval then.
LEMMA InUseAlive ==
  ASSUME Inv, NEW k \in 0 .. NumOps - 1, NEW t \in Placed \cap (ResultsNeededAt(k) \cup Writes(k))
  PROVE  live[t].first <= k /\ k <= live[t].last
<1>1. /\ graph \in Graphs /\ NumOps \in Nat /\ Placed \subseteq Tensors /\ scanned \in Nat
      /\ live \in [Tensors -> [first : Nat, last : Nat]]
  BY NodeTypes DEF Inv, Types
<1>2. scanned > NumOps BY <1>1 DEF Inv, AnalysisFirst
<1>3. CASE t \in Writes(k) BY <1>3, <1>1, <1>2 DEF Inv, ScannedUses
<1>4. CASE t \in ResultsNeededAt(k)
  <2>1. PICK i \in 0 .. k : t \in Writes(i) BY <1>4 DEF ResultsNeededAt
  <2>2. PICK j \in k .. NumOps - 1 : t \in Reads(j) BY <1>4 DEF ResultsNeededAt
  <2>3. live[t].first <= i
    BY <2>1, <1>1, <1>2 DEF Inv, ScannedUses
  <2>4. j <= live[t].last
    BY <2>2, <1>1, <1>2 DEF Inv, ScannedUses
  <2> QED BY <2>3, <2>4, <1>1
<1> QED BY <1>3, <1>4

\* Two tensors that the analysis takes to be in use at one time have no byte of
\* the arena in common: first fit, with intervals dropped as they end.
THEOREM ApartTheorem == Spec => []LiveTogetherApart
<1>1. Inv => LiveTogetherApart BY DEF Inv
<1> QED BY <1>1, SpecInv, PTL

\* An operation that runs by the plan never writes over the result of an operation
\* that it, or a later one, still reads.
THEOREM NothingOverwrittenTheorem == Spec => []NothingOverwrittenWhileNeeded
<1>1. Inv => NothingOverwrittenWhileNeeded
  <2> SUFFICES ASSUME Inv, NEW k \in 0 .. NumOps - 1,
                      NEW t \in Placed \cap Writes(k),
                      NEW u \in (Placed \cap (ResultsNeededAt(k) \cup Writes(k))) \ {t}
               PROVE  Bytes(t) \cap Bytes(u) = {}
    BY DEF NothingOverwrittenWhileNeeded
  <2>1. /\ graph \in Graphs /\ NumOps \in Nat /\ Placed \subseteq Tensors
        /\ offsets \in [Placed -> Nat] /\ scanned \in Nat
        /\ live \in [Tensors -> [first : Nat, last : Nat]]
    BY NodeTypes DEF Inv, Types
  <2>2. Size(t) \in Nat /\ Size(u) \in Nat BY <2>1, SizeNat
  <2>4. live[t].first <= k /\ k <= live[t].last BY InUseAlive
  <2>5. live[u].first <= k /\ k <= live[u].last BY InUseAlive
  <2>6. \/ offsets[t] + Size(t) <= offsets[u]
        \/ offsets[u] + Size(u) <= offsets[t]
    BY <2>1, <2>4, <2>5 DEF Inv, LiveTogetherApart
  <2> QED BY <2>6, <2>1, <2>2 DEF Bytes
<1> QED BY <1>1, SpecInv, PTL

--------------------------------------------------------------------------------

\* Aligned offsets, and a peak that no tensor lies above.
OffsetsAligned ==
  /\ peak \in Nat
  /\ \A t \in Placed : offsets[t] % Alignment = 0 /\ offsets[t] + Size(t) <= peak

\* What is to be placed: every tensor that may share the arena, once.
ReclaimableKept ==
  scanned > NumOps =>
    \A t \in Tensors : IsReclaimable(graph, t) /\ Size(t) > 0 => t \in todo \cup Placed

\* What alignment gives is aligned.
LEMMA AlignedOffset ==
  ASSUME NEW c \in Nat
  PROVE  AlignOffset(c) % Alignment = 0
<1>1. Alignment \in Nat \ {0} BY AlignmentAssumption
<1>2. c % Alignment \in 0 .. Alignment - 1 /\ c = Alignment * (c \div Alignment) + (c % Alignment)
      /\ c \div Alignment \in Int
  BY <1>1
<1>3. CASE c % Alignment = 0 BY <1>3 DEF AlignOffset
<1>4. CASE c % Alignment /= 0
  <2> DEFINE q == c \div Alignment
  <2>1. AlignOffset(c) = Alignment * q + Alignment
    BY <1>1, <1>2, <1>4 DEF AlignOffset
  <2>2. Alignment * q + Alignment = Alignment * (q + 1) BY <1>1, <1>2
  <2>3. q + 1 \in Int BY <1>2
  <2> HIDE DEF q
  <2>4. (Alignment * (q + 1)) % Alignment = 0 BY <1>1, <2>3
  <2> QED BY <2>1, <2>2, <2>4
<1> QED BY <1>3, <1>4

\* A placement raises the peak over the tensor it places.
LEMMA PlaceAligned ==
  ASSUME Inv, OffsetsAligned, Place
  PROVE  OffsetsAligned'
<1>1. PICK t \in todo : \E c \in {0} \cup {a.end : a \in StillActive(t)} : PlaceAt(t, AlignOffset(c))
  BY DEF Place
<1>2. PICK c \in {0} \cup {a.end : a \in StillActive(t)} : PlaceAt(t, AlignOffset(c))
  BY <1>1
<1>3. c \in Nat BY <1>2 DEF Inv, Types, StillActive
<1>4. PICK off : off = AlignOffset(c) OBVIOUS
<1>5. off \in Nat /\ off % Alignment = 0 BY <1>3, <1>4, AlignUp, AlignedOffset
<1>6. /\ t \in Tensors /\ Placed \subseteq Tensors /\ offsets \in [Placed -> Nat]
      /\ \A s \in Tensors : Size(s) \in Nat
  BY SizeNat DEF Inv, Types
<1>7. /\ Placed' = Placed \cup {t}
      /\ \A s \in Placed \cup {t} : offsets'[s] = IF s = t THEN off ELSE offsets[s]
      /\ peak' = Larger(peak, off + Size(t))
      /\ \A s \in Tensors : Size(s)' = Size(s)
  BY <1>2, <1>4 DEF PlaceAt, Placed, Size
<1>8. peak' \in Nat /\ peak <= peak' /\ off + Size(t) <= peak'
  BY <1>5, <1>6, <1>7 DEF OffsetsAligned, Larger
<1>9. ASSUME NEW s \in Placed \cup {t}
      PROVE  offsets'[s] % Alignment = 0 /\ offsets'[s] + Size(s) <= peak'
  <2>1. CASE s = t BY <1>5, <1>7, <1>8, <2>1
  <2>2. CASE s /= t
    <3>1. /\ offsets'[s] = offsets[s] /\ offsets[s] % Alignment = 0
          /\ offsets[s] + Size(s) <= peak
      BY <1>7, <2>2 DEF OffsetsAligned
    <3>2. offsets[s] \in Nat /\ Size(s) \in Nat /\ peak \in Nat
      BY <1>6, <2>2 DEF OffsetsAligned
    <3> QED BY <1>8, <3>1, <3>2
  <2> QED BY <2>1, <2>2
<1> QED BY <1>6, <1>7, <1>8, <1>9 DEF OffsetsAligned

\* Every step keeps offsets aligned and under the peak.
LEMMA AlignedInductive == Inv /\ OffsetsAligned /\ [Next]_vars => OffsetsAligned'
<1> SUFFICES ASSUME Inv, OffsetsAligned, [Next]_vars PROVE OffsetsAligned' OBVIOUS
<1>1. CASE Place BY <1>1, PlaceAligned
<1>2. CASE ScanOp \/ CollectReclaimable \/ UNCHANGED vars
  BY <1>2 DEF ScanOp, CollectReclaimable, vars, OffsetsAligned, Placed, Size
<1> QED BY <1>1, <1>2 DEF Next

\* What the analysis collects is placed or still to be placed.
LEMMA KeptInductive == Inv /\ ReclaimableKept /\ [Next]_vars => ReclaimableKept'
<1> SUFFICES ASSUME Inv, ReclaimableKept, [Next]_vars PROVE ReclaimableKept' OBVIOUS
<1>1. NumOps \in Nat /\ scanned \in Nat BY NodeTypes DEF Inv, Types
<1>2. CASE ScanOp
  <2>1. NumOps' = NumOps /\ ~(scanned' > NumOps)
    BY <1>1, <1>2 DEF ScanOp, NumOps
  <2> QED BY <2>1 DEF ReclaimableKept
<1>3. CASE CollectReclaimable
  BY <1>3 DEF CollectReclaimable, ReclaimableKept, Tensors, Size
<1>4. CASE Place
  <2>1. PICK t, off : t \in todo /\ PlaceAt(t, off) BY <1>4 DEF Place
  <2>2. /\ graph' = graph /\ scanned' = scanned /\ todo' = todo \ {t}
        /\ Placed' = Placed \cup {t}
    BY <2>1 DEF PlaceAt, Placed
  <2>3. \A s : Size(s)' = Size(s) BY <2>2 DEF Size
  <2> QED BY <2>2, <2>3 DEF ReclaimableKept, Tensors, NumOps
<1>5. CASE UNCHANGED vars
  BY <1>5 DEF vars, ReclaimableKept, Tensors, NumOps, Placed, Size
<1> QED BY <1>2, <1>3, <1>4, <1>5 DEF Next

\* Every tensor of the plan begins at an aligned offset and ends inside the
\* arena that is allocated, however the peak was reached.
THEOREM InsideArenaTheorem == Spec => []AlignedInsideArena
<1>1. Init => OffsetsAligned BY DEF Init, OffsetsAligned, Placed
<1>2. Inv /\ OffsetsAligned => AlignedInsideArena
  <2> SUFFICES ASSUME Inv, OffsetsAligned, NEW t \in Placed
               PROVE  offsets[t] % Alignment = 0 /\ offsets[t] + Size(t) <= AlignOffset(peak)
    BY DEF AlignedInsideArena
  <2>1. peak \in Nat /\ offsets[t] % Alignment = 0 /\ offsets[t] + Size(t) <= peak
    BY DEF OffsetsAligned
  <2>2. offsets[t] \in Nat /\ Size(t) \in Nat BY SizeNat DEF Inv, Types
  <2>3. AlignOffset(peak) \in Nat /\ AlignOffset(peak) >= peak BY <2>1, AlignUp
  <2> QED BY <2>1, <2>2, <2>3
<1> QED BY <1>1, <1>2, AlignedInductive, SpecInv, PTL DEF Spec

\* When the plan is finished no tensor that needs bytes of the arena is without.
THEOREM PlacedTheorem == Spec => []EveryActivationPlaced
<1>1. Init => ReclaimableKept
  <2> SUFFICES ASSUME Init PROVE ReclaimableKept OBVIOUS
  <2>1. NumOps \in Nat /\ scanned = 0 BY NodeTypes DEF Init
  <2> QED BY <2>1 DEF ReclaimableKept
<1>2. Inv /\ ReclaimableKept => EveryActivationPlaced
  <2> SUFFICES ASSUME Inv, ReclaimableKept, Done,
                      NEW t \in Tensors, Storage(t) = "ACTIVATION", Size(t) > 0,
                      t \notin graph.inputs \cup graph.outputs
               PROVE  t \in Placed
    BY DEF EveryActivationPlaced
  <2>1. NumOps \in Nat /\ scanned > NumOps /\ todo = {} BY NodeTypes DEF Inv, Types, Done
  <2>2. IsReclaimable(graph, t) BY DEF IsReclaimable, Storage
  <2> QED BY <2>1, <2>2 DEF ReclaimableKept
<1> QED BY <1>1, <1>2, KeptInductive, SpecInv, PTL DEF Spec

--------------------------------------------------------------------------------

\* Only tensors that need bytes are placed.
Shapes == TypeOK /\ \A t \in todo : Size(t) > 0

\* The initial intervals lie among the operations.
LEMMA InitShapes == Init => Shapes
<1> SUFFICES ASSUME Init PROVE Shapes OBVIOUS
<1>1. NumOps \in Nat BY NodeTypes DEF Init
<1>2. Placed = {} /\ todo = {} /\ active = {} /\ scanned = 0 /\ peak = 0 BY DEF Init, Placed
<1>3. live \in [Tensors -> [first : 0 .. NumOps, last : 0 .. NumOps]]
  BY <1>1 DEF Init, InitialInterval, Tensors, NumOps
<1> QED BY <1>1, <1>2, <1>3 DEF Shapes, TypeOK

\* The analysis keeps intervals among the operations.
LEMMA ScanShapes ==
  ASSUME Inv, Shapes, ScanOp
  PROVE  Shapes'
<1>1. /\ NumOps \in Nat /\ scanned \in Nat /\ scanned < NumOps /\ scanned' = scanned + 1
      /\ Tensors' = Tensors /\ NumOps' = NumOps
      /\ live \in [Tensors -> [first : 0 .. NumOps, last : 0 .. NumOps]]
      /\ todo' = {} /\ active' = {} /\ Placed' = {} /\ peak' = peak /\ peak \in Nat
  <2>1. NumOps \in Nat /\ scanned \in Nat BY NodeTypes DEF Inv, Types
  <2>2. /\ scanned < NumOps /\ scanned' = scanned + 1 /\ graph' = graph /\ todo' = todo
        /\ active' = active /\ offsets' = offsets /\ peak' = peak
    BY DEF ScanOp
  <2>3. Tensors' = Tensors /\ NumOps' = NumOps /\ Placed' = Placed
    BY <2>2 DEF Tensors, NumOps, Placed
  <2>4. /\ live \in [Tensors -> [first : 0 .. NumOps, last : 0 .. NumOps]] /\ peak \in Nat
        /\ scanned <= NumOps => todo \cup active \cup Placed = {}
    BY DEF Shapes, TypeOK
  <2>5. todo = {} /\ active = {} /\ Placed = {} BY <2>1, <2>2, <2>4
  <2> QED BY <2>1, <2>2, <2>3, <2>4, <2>5
<1>2. ASSUME NEW t \in Tensors
      PROVE  Scanned(t, scanned, graph.nodes[scanned + 1]) \in [first : 0 .. NumOps, last : 0 .. NumOps]
  <2>1. live[t].first \in 0 .. NumOps /\ live[t].last \in 0 .. NumOps /\ scanned \in 0 .. NumOps
    BY <1>1
  <2> QED BY <2>1 DEF Scanned, Smaller, Larger
<1>3. live' \in [Tensors -> [first : 0 .. NumOps, last : 0 .. NumOps]]
  BY <1>1, <1>2 DEF ScanOp
<1> QED BY <1>1, <1>3 DEF Shapes, TypeOK

\* So does closing the analysis.
LEMMA CollectShapes ==
  ASSUME Inv, Shapes, CollectReclaimable
  PROVE  Shapes'
<1>1. /\ NumOps \in Nat /\ scanned' = NumOps + 1
      /\ Tensors' = Tensors /\ NumOps' = NumOps /\ \A t : Size(t)' = Size(t)
      /\ live \in [Tensors -> [first : 0 .. NumOps, last : 0 .. NumOps]]
      /\ active' = {} /\ Placed' = {} /\ peak' = peak /\ peak \in Nat
      /\ todo' = {t \in Tensors : IsReclaimable(graph, t) /\ Size(t) > 0}
  <2>1. NumOps \in Nat BY NodeTypes DEF Inv, Types
  <2>2. /\ scanned = NumOps /\ scanned' = NumOps + 1 /\ graph' = graph
        /\ todo' = {t \in Tensors : IsReclaimable(graph, t) /\ Size(t) > 0}
        /\ active' = active /\ offsets' = offsets /\ peak' = peak
    BY DEF CollectReclaimable
  <2>3. Tensors' = Tensors /\ NumOps' = NumOps /\ Placed' = Placed /\ \A t : Size(t)' = Size(t)
    BY <2>2 DEF Tensors, NumOps, Placed, Size
  <2>4. /\ live \in [Tensors -> [first : 0 .. NumOps, last : 0 .. NumOps]] /\ peak \in Nat
        /\ scanned <= NumOps => todo \cup active \cup Placed = {}
    BY DEF Shapes, TypeOK
  <2>5. active = {} /\ Placed = {} BY <2>1, <2>2, <2>4
  <2> QED BY <2>1, <2>2, <2>3, <2>4, <2>5
<1>2. ASSUME NEW t \in Tensors
      PROVE  [live[t] EXCEPT !.last = NumOps] \in [first : 0 .. NumOps, last : 0 .. NumOps]
  <2>1. live[t] \in [first : 0 .. NumOps, last : 0 .. NumOps] /\ NumOps \in 0 .. NumOps BY <1>1
  <2> QED BY <2>1
<1>3. live' \in [Tensors -> [first : 0 .. NumOps, last : 0 .. NumOps]]
  BY <1>1, <1>2 DEF CollectReclaimable
<1> QED BY <1>1, <1>3 DEF Shapes, TypeOK

\* A placed tensor has a length and an end.
LEMMA PlaceShapes ==
  ASSUME Inv, Shapes, Place
  PROVE  Shapes'
<1>1. PICK t \in todo : \E c \in {0} \cup {a.end : a \in StillActive(t)} : PlaceAt(t, AlignOffset(c))
  BY DEF Place
<1>2. PICK c \in {0} \cup {a.end : a \in StillActive(t)} : PlaceAt(t, AlignOffset(c))
  BY <1>1
<1>3. c \in Nat BY <1>2 DEF Inv, Types, StillActive
<1>4. PICK off : off = AlignOffset(c) /\ off \in Nat BY <1>3, AlignUp
<1>5. /\ NumOps \in Nat /\ t \in Tensors /\ t \notin Placed /\ Placed \cap todo = {}
      /\ Size(t) \in Nat /\ Size(t) > 0 /\ ~(scanned <= NumOps) /\ scanned \in 0 .. NumOps + 1
      /\ live \in [Tensors -> [first : 0 .. NumOps, last : 0 .. NumOps]]
      /\ peak \in Nat /\ todo \subseteq Tensors /\ Placed \subseteq Tensors
      /\ \A s \in Placed : offsets[s] \in Nat
  BY NodeTypes, SizeNat DEF Inv, Types, Shapes, TypeOK
<1>6. /\ graph' = graph /\ scanned' = scanned /\ live' = live
      /\ Tensors' = Tensors /\ NumOps' = NumOps /\ \A s : Size(s)' = Size(s)
      /\ todo' = todo \ {t} /\ Placed' = Placed \cup {t}
      /\ \A s \in Placed \cup {t} : offsets'[s] = IF s = t THEN off ELSE offsets[s]
      /\ peak' = Larger(peak, off + Size(t))
  BY <1>2, <1>4 DEF PlaceAt, Placed, Tensors, NumOps, Size
<1>7. PICK new : new = [start |-> off, end |-> off + Size(t), last |-> live[t].last] OBVIOUS
<1>8. active' \subseteq active \cup {new}
  BY <1>2, <1>4, <1>7 DEF PlaceAt, StillActive
<1>9. live[t].last \in 0 .. NumOps BY <1>5
<1>10. new.start \in Nat /\ new.end \in Nat /\ new.start < new.end /\ new.last \in 0 .. NumOps
  BY <1>4, <1>5, <1>7, <1>9
<1>11. \A a \in active' : a.start \in Nat /\ a.end \in Nat /\ a.start < a.end /\ a.last \in 0 .. NumOps
  BY <1>8, <1>10 DEF Shapes, TypeOK
<1>12. \A s \in Placed \cup {t} : offsets'[s] \in Nat BY <1>4, <1>5, <1>6
<1>13. peak' \in Nat BY <1>4, <1>5, <1>6 DEF Larger
<1>14. \A s \in todo' : Size(s)' > 0 BY <1>6 DEF Shapes
<1> QED BY <1>5, <1>6, <1>11, <1>12, <1>13, <1>14 DEF Shapes, TypeOK

\* Every step keeps the shapes.
LEMMA ShapesInductive == Inv /\ Shapes /\ [Next]_vars => Shapes'
<1> SUFFICES ASSUME Inv, Shapes, [Next]_vars PROVE Shapes' OBVIOUS
<1>1. CASE UNCHANGED vars
  BY <1>1 DEF vars, Shapes, TypeOK, Tensors, NumOps, Placed, Size
<1> QED BY <1>1, ScanShapes, CollectShapes, PlaceShapes DEF Next

\* Every part of the planner's state keeps its form.
THEOREM TypeTheorem == Spec => []TypeOK
<1>1. Inv /\ Shapes /\ [Next]_vars => Shapes' BY ShapesInductive
<1>2. Shapes => TypeOK BY DEF Shapes
<1> QED BY <1>1, <1>2, InitShapes, SpecInv, PTL DEF Spec

--------------------------------------------------------------------------------

\* The sums of the model, of the tensors of a graph.
SizesOf(g, S) == [t \in S |-> ByteSize(g.tensors[t])]
TotalSize(g, S) == MapThenSumSet(LAMBDA t : ByteSize(g.tensors[t]), S)

AlignedSizesOf(g, S) == [t \in S |-> AlignOffset(ByteSize(g.tensors[t]))]
TotalAligned(g, S) == MapThenSumSet(LAMBDA t : AlignOffset(ByteSize(g.tensors[t])), S)

\* A sum of sizes is one of those that the lemmas are about.
LEMMA TotalSizeIsSum ==
  ASSUME NEW g, NEW S, IsFiniteSet(S)
  PROVE  \E sum : IsSum(sum, SizesOf(g, S), S) /\ TotalSize(g, S) = sum[S]
<1> DEFINE Sums(sum) ==
      sum = [s \in SUBSET S |-> IF s = {} THEN 0
                                ELSE ByteSize(g.tensors[CHOOSE x \in s : TRUE])
                                       + sum[s \ {CHOOSE x \in s : TRUE}]]
           all == CHOOSE sum : Sums(sum)
<1>1. \A sum : IsSum(sum, SizesOf(g, S), S) <=> Sums(sum)
  <2>1. ASSUME NEW s \in SUBSET S, s # {}
        PROVE  SizesOf(g, S)[Chosen(s)] = ByteSize(g.tensors[CHOOSE x \in s : TRUE])
    <3>1. Chosen(s) \in S
      BY <2>1, ChosenIn
    <3> QED BY <3>1 DEF SizesOf, Chosen
  <2>2. TAKE sum
  <2>3. \A s \in SUBSET S :
          (IF s = {} THEN 0 ELSE SizesOf(g, S)[Chosen(s)] + sum[s \ {Chosen(s)}])
            = (IF s = {} THEN 0 ELSE ByteSize(g.tensors[CHOOSE x \in s : TRUE])
                                       + sum[s \ {CHOOSE x \in s : TRUE}])
    BY <2>1 DEF Chosen
  <2> QED BY <2>3 DEF IsSum
<1>2. Sums(all)
  <2>1. \E sum : IsSum(sum, SizesOf(g, S), S)
    BY SumDefined
  <2> HIDE DEF Sums
  <2>2. \E sum : Sums(sum)
    BY <1>1, <2>1
  <2> QED BY <2>2
<1>3. IsSum(all, SizesOf(g, S), S)
  <2> HIDE DEF all, Sums
  <2> QED BY <1>1, <1>2
<1>4. TotalSize(g, S) = all[S]
  BY DEF TotalSize, MapThenSumSet, MapThenFoldSet
<1> QED BY <1>3, <1>4

\* So is a sum of aligned sizes.
LEMMA TotalAlignedIsSum ==
  ASSUME NEW g, NEW S, IsFiniteSet(S)
  PROVE  \E sum : IsSum(sum, AlignedSizesOf(g, S), S) /\ TotalAligned(g, S) = sum[S]
<1> DEFINE Sums(sum) ==
      sum = [s \in SUBSET S |-> IF s = {} THEN 0
                                ELSE AlignOffset(ByteSize(g.tensors[CHOOSE x \in s : TRUE]))
                                       + sum[s \ {CHOOSE x \in s : TRUE}]]
           all == CHOOSE sum : Sums(sum)
<1>1. \A sum : IsSum(sum, AlignedSizesOf(g, S), S) <=> Sums(sum)
  <2>1. ASSUME NEW s \in SUBSET S, s # {}
        PROVE  AlignedSizesOf(g, S)[Chosen(s)]
                 = AlignOffset(ByteSize(g.tensors[CHOOSE x \in s : TRUE]))
    <3>1. Chosen(s) \in S
      BY <2>1, ChosenIn
    <3> QED BY <3>1 DEF AlignedSizesOf, Chosen
  <2>2. TAKE sum
  <2>3. \A s \in SUBSET S :
          (IF s = {} THEN 0 ELSE AlignedSizesOf(g, S)[Chosen(s)] + sum[s \ {Chosen(s)}])
            = (IF s = {} THEN 0 ELSE AlignOffset(ByteSize(g.tensors[CHOOSE x \in s : TRUE]))
                                       + sum[s \ {CHOOSE x \in s : TRUE}])
    BY <2>1 DEF Chosen
  <2> QED BY <2>3 DEF IsSum
<1>2. Sums(all)
  <2>1. \E sum : IsSum(sum, AlignedSizesOf(g, S), S)
    BY SumDefined
  <2> HIDE DEF Sums
  <2>2. \E sum : Sums(sum)
    BY <1>1, <2>1
  <2> QED BY <2>2
<1>3. IsSum(all, AlignedSizesOf(g, S), S)
  <2> HIDE DEF all, Sums
  <2> QED BY <1>1, <1>2
<1>4. TotalAligned(g, S) = all[S]
  BY DEF TotalAligned, MapThenSumSet, MapThenFoldSet
<1> QED BY <1>3, <1>4

\* One more tensor adds its aligned size.
LEMMA OneMoreAligned ==
  ASSUME NEW g, NEW S, IsFiniteSet(S), NEW t, t \notin S,
         \A s \in S \cup {t} : AlignOffset(ByteSize(g.tensors[s])) \in Nat
  PROVE  /\ TotalAligned(g, S) \in Nat
         /\ TotalAligned(g, S \cup {t}) = AlignOffset(ByteSize(g.tensors[t])) + TotalAligned(g, S)
<1>1. PICK T : T = S \cup {t}
  OBVIOUS
<1>2. IsFiniteSet(T)
  BY <1>1, FS_AddElement
<1>3. PICK f : f = AlignedSizesOf(g, S)
  OBVIOUS
<1>4. PICK h : h = AlignedSizesOf(g, T)
  OBVIOUS
<1>5. f \in [S -> Nat] /\ h \in [T -> Nat] /\ \A s \in S : f[s] = h[s]
  BY <1>1, <1>3, <1>4 DEF AlignedSizesOf
<1>6. PICK sum : IsSum(sum, f, S) /\ TotalAligned(g, S) = sum[S]
  BY <1>3, TotalAlignedIsSum
<1>7. PICK total : IsSum(total, h, T) /\ TotalAligned(g, T) = total[T]
  BY <1>2, <1>4, TotalAlignedIsSum
<1>8. S \subseteq T /\ T \ {t} = S /\ t \in T
  BY <1>1
<1>9. total[T] = h[t] + total[T \ {t}]
  BY <1>2, <1>5, <1>7, <1>8, SumAny
<1>10. sum[S] = total[S]
  BY <1>2, <1>5, <1>6, <1>7, <1>8, SumAgrees
<1>11. sum[S] \in Nat
  BY <1>5, <1>6, SumNat
<1>12. h[t] = AlignOffset(ByteSize(g.tensors[t]))
  BY <1>4, <1>8 DEF AlignedSizesOf
<1> QED BY <1>1, <1>6, <1>7, <1>8, <1>9, <1>10, <1>11, <1>12

\* The model's sums are these.
LEMMA SumsOfGraph ==
  ASSUME NEW S
  PROVE  AllSize(S) = TotalSize(graph, S) /\ AllAlignedSize(S) = TotalAligned(graph, S)
<1>1. AllSize(S) = TotalSize(graph, S)
  BY DEF AllSize, Size, TotalSize, MapThenSumSet, MapThenFoldSet
<1>2. AllAlignedSize(S) = TotalAligned(graph, S)
  BY DEF AllAlignedSize, AlignedSize, Size, TotalAligned, MapThenSumSet, MapThenFoldSet
<1> QED BY <1>1, <1>2

\* Alignment does not swap offsets, and lets an aligned offset be.
LEMMA AlignMonotone ==
  ASSUME NEW c \in Nat, NEW d \in Nat, c <= d
  PROVE  AlignOffset(c) <= AlignOffset(d)
<1>1. Alignment \in Nat \ {0}
  BY AlignmentAssumption
<1>2. PICK q \in Nat, r \in 0..(Alignment - 1) : c = Alignment * q + r /\ c % Alignment = r
  <2>1. c % Alignment \in 0..(Alignment - 1) /\ c = Alignment * (c \div Alignment) + (c % Alignment)
        /\ c \div Alignment \in Nat
    BY <1>1
  <2> QED BY <2>1
<1>3. PICK p \in Nat, s \in 0..(Alignment - 1) : d = Alignment * p + s /\ d % Alignment = s
  <2>1. d % Alignment \in 0..(Alignment - 1) /\ d = Alignment * (d \div Alignment) + (d % Alignment)
        /\ d \div Alignment \in Nat
    BY <1>1
  <2> QED BY <2>1
<1>4. AlignOffset(c) = Alignment * q + (IF r = 0 THEN 0 ELSE Alignment)
  BY <1>1, <1>2 DEF AlignOffset
<1>5. AlignOffset(d) = Alignment * p + (IF s = 0 THEN 0 ELSE Alignment)
  BY <1>1, <1>3 DEF AlignOffset
<1>6. CASE q = p
  BY <1>1, <1>2, <1>3, <1>4, <1>5, <1>6
<1>7. CASE q < p
  <2>1. p = q + 1 + (p - q - 1) /\ p - q - 1 \in Nat
    BY <1>7
  <2>2. PICK k \in Nat : k = p - q - 1 /\ p = q + 1 + k
    BY <2>1
  <2>3. Alignment * p = Alignment * q + Alignment + Alignment * k /\ Alignment * k \in Nat
    BY <1>1, <2>2
  <2> QED BY <1>1, <1>4, <1>5, <2>3
<1>8. CASE q > p
  <2>1. PICK k \in Nat : q = p + 1 + k
    <3>1. q - p - 1 \in Nat /\ q = p + 1 + (q - p - 1)
      BY <1>8
    <3> QED BY <3>1
  <2>2. Alignment * q = Alignment * p + Alignment + Alignment * k /\ Alignment * k \in Nat
    BY <1>1, <2>1
  <2> QED BY <1>1, <1>2, <1>3, <2>2
<1> QED BY <1>6, <1>7, <1>8

\* Past an aligned offset, a size is aligned as from the start.
LEMMA AlignPast ==
  ASSUME NEW c \in Nat, NEW n \in Nat, c % Alignment = 0
  PROVE  AlignOffset(c + n) = c + AlignOffset(n)
<1>1. Alignment \in Nat \ {0}
  BY AlignmentAssumption
<1>2. c = Alignment * (c \div Alignment) /\ c \div Alignment \in Int
  BY <1>1
<1>3. (c + n) % Alignment = n % Alignment
  <2>1. PICK q \in Int : c = Alignment * q
    BY <1>2
  <2>2. PICK p \in Int, r \in 0..(Alignment - 1) : n = Alignment * p + r /\ n % Alignment = r
    <3>1. n % Alignment \in 0..(Alignment - 1) /\ n = Alignment * (n \div Alignment) + (n % Alignment)
          /\ n \div Alignment \in Int
      BY <1>1
    <3> QED BY <3>1
  <2>3. c + n = Alignment * (q + p) + r /\ q + p \in Int
    BY <1>1, <2>1, <2>2
  <2>4. PICK m \in Int : m = q + p
    BY <2>3
  <2>5. (Alignment * m + r) % Alignment = r
    BY <1>1, <2>2, <2>4
  <2> QED BY <2>2, <2>3, <2>4, <2>5
<1>4. n % Alignment \in 0..(Alignment - 1)
  BY <1>1
<1> QED BY <1>1, <1>3, <1>4 DEF AlignOffset

--------------------------------------------------------------------------------

\* The tensors placed are finitely many and their aligned sizes cover the peak,
\* under which every interval in use ends.
PeakCovered ==
  /\ IsFiniteSet(Placed)
  /\ peak \in Nat
  /\ \A a \in active : a.end <= peak
  /\ AlignOffset(peak) <= TotalAligned(graph, Placed)

\* Nothing is placed at first.
LEMMA InitCovered == Init => PeakCovered
<1> SUFFICES ASSUME Init PROVE PeakCovered
  OBVIOUS
<1>1. Placed = {} /\ active = {} /\ peak = 0
  BY DEF Init, Placed
<1>2. IsFiniteSet({}) /\ IsFiniteSet(Placed)
  BY <1>1, FS_EmptySet
<1>3. PICK f : f = AlignedSizesOf(graph, {})
  OBVIOUS
<1>4. PICK sum : IsSum(sum, f, {}) /\ TotalAligned(graph, {}) = sum[{}]
  BY <1>2, <1>3, TotalAlignedIsSum
<1>5. f \in [{} -> Nat]
  BY <1>3 DEF AlignedSizesOf
<1>6. TotalAligned(graph, {}) = 0
  BY <1>2, <1>4, <1>5, SumNat
<1>7. AlignOffset(0) = 0
  BY AlignmentAssumption DEF AlignOffset
<1> QED BY <1>1, <1>2, <1>6, <1>7 DEF PeakCovered

\* A tensor is placed at the end of one in use, or at the start: the peak rises
\* by no more than its aligned size.
LEMMA PlaceCovered ==
  ASSUME Inv, Shapes, OffsetsAligned, PeakCovered, Place
  PROVE  PeakCovered'
<1>1. PICK t \in todo : \E c \in {0} \cup {a.end : a \in StillActive(t)} : PlaceAt(t, AlignOffset(c))
  BY DEF Place
<1>2. PICK c \in {0} \cup {a.end : a \in StillActive(t)} : PlaceAt(t, AlignOffset(c))
  BY <1>1
<1>3. c \in Nat /\ c <= peak /\ peak \in Nat
  BY <1>2 DEF Inv, Types, StillActive, PeakCovered
<1>4. PICK off : off = AlignOffset(c)
  OBVIOUS
<1>5. off \in Nat /\ off % Alignment = 0 /\ off <= AlignOffset(peak)
  BY <1>3, <1>4, AlignUp, AlignedOffset, AlignMonotone
<1>6. /\ t \in Tensors /\ t \notin Placed /\ Placed \subseteq Tensors /\ graph \in Graphs
      /\ \A s \in Tensors : Size(s) \in Nat
  BY SizeNat DEF Inv, Types, Shapes, TypeOK
<1>7. PICK n : n = Size(t)
  OBVIOUS
<1>8. /\ n \in Nat /\ graph' = graph /\ Placed' = Placed \cup {t} /\ peak' = Larger(peak, off + n)
      /\ active' = StillActive(t) \cup {[start |-> off, end |-> off + n, last |-> live[t].last]}
  BY <1>2, <1>4, <1>6, <1>7 DEF PlaceAt, Placed
<1>9. peak' \in Nat /\ peak <= peak' /\ off + n <= peak' /\ peak' \in {peak, off + n}
  BY <1>3, <1>5, <1>8 DEF Larger
<1>10. \A a \in active' : a.end <= peak'
  <2>1. ASSUME NEW a \in StillActive(t) PROVE a.end <= peak'
    <3>1. a.end \in Nat /\ a.end <= peak
      BY DEF StillActive, Inv, Types, PeakCovered
    <3> QED BY <1>3, <1>9, <3>1
  <2> QED BY <1>8, <1>9, <2>1
<1>11. \A s \in Placed \cup {t} : AlignOffset(ByteSize(graph.tensors[s])) \in Nat
  BY <1>6, AlignUp DEF Size
<1>12. /\ TotalAligned(graph, Placed) \in Nat
       /\ TotalAligned(graph, Placed \cup {t}) = AlignOffset(n) + TotalAligned(graph, Placed)
  <2>1. IsFiniteSet(Placed)
    BY DEF PeakCovered
  <2>2. /\ TotalAligned(graph, Placed) \in Nat
        /\ TotalAligned(graph, Placed \cup {t})
             = AlignOffset(ByteSize(graph.tensors[t])) + TotalAligned(graph, Placed)
    BY <1>6, <1>11, <2>1, OneMoreAligned
  <2> QED BY <1>7, <2>2 DEF Size
<1>13. AlignOffset(peak') <= TotalAligned(graph, Placed \cup {t})
  <2>1. AlignOffset(n) \in Nat /\ AlignOffset(peak) \in Nat
    BY <1>3, <1>8, AlignUp
  <2>2. AlignOffset(off + n) = off + AlignOffset(n)
    BY <1>5, <1>8, AlignPast
  <2>3. AlignOffset(peak) <= TotalAligned(graph, Placed)
    BY DEF PeakCovered
  <2> QED BY <1>5, <1>9, <1>12, <2>1, <2>2, <2>3
<1>14. IsFiniteSet(Placed \cup {t})
  BY FS_AddElement DEF PeakCovered
<1> QED BY <1>8, <1>9, <1>10, <1>13, <1>14 DEF PeakCovered

\* Every step keeps the peak covered.
LEMMA CoveredInductive ==
  Inv /\ Shapes /\ OffsetsAligned /\ PeakCovered /\ [Next]_vars => PeakCovered'
<1> SUFFICES ASSUME Inv, Shapes, OffsetsAligned, PeakCovered, [Next]_vars PROVE PeakCovered'
  OBVIOUS
<1>1. CASE Place
  BY <1>1, PlaceCovered
<1>2. CASE ScanOp \/ CollectReclaimable \/ UNCHANGED vars
  <2>1. graph' = graph /\ active' = active /\ offsets' = offsets /\ peak' = peak
    BY <1>2 DEF ScanOp, CollectReclaimable, vars
  <2> QED BY <2>1 DEF PeakCovered, Placed
<1> QED BY <1>1, <1>2 DEF Next

\* What is in use in one operation lies apart below the peak.
LEMMA InUseBelowPeak ==
  ASSUME Inv, OffsetsAligned, PeakCovered, NEW k \in 0 .. NumOps - 1
  PROVE  AllSize(Placed \cap (ResultsNeededAt(k) \cup Writes(k))) <= peak
<1>1. PICK S : S = Placed \cap (ResultsNeededAt(k) \cup Writes(k))
  OBVIOUS
<1>2. S \subseteq Placed /\ IsFiniteSet(S)
  BY <1>1, FS_Subset DEF PeakCovered
<1>3. /\ graph \in Graphs /\ Placed \subseteq Tensors /\ offsets \in [Placed -> Nat] /\ peak \in Nat
      /\ \A t \in Placed : Size(t) \in Nat /\ offsets[t] + Size(t) <= peak
  BY SizeNat DEF Inv, Types, OffsetsAligned
<1>4. PICK f : f = SizesOf(graph, S)
  OBVIOUS
<1>5. f \in [S -> Nat] /\ \A t \in S : f[t] = Size(t)
  BY <1>2, <1>3, <1>4 DEF SizesOf, Size
<1>6. PICK start : start = [t \in S |-> offsets[t]]
  OBVIOUS
<1>7. start \in [S -> Nat] /\ \A t \in S : start[t] = offsets[t]
  BY <1>2, <1>3, <1>6
<1>8. PICK sum : IsSum(sum, f, S) /\ TotalSize(graph, S) = sum[S]
  BY <1>2, <1>4, TotalSizeIsSum
<1>9. \A t \in S : start[t] + f[t] <= peak
  BY <1>2, <1>3, <1>5, <1>7
<1>10. \A t, u \in S : t /= u => start[t] + f[t] <= start[u] \/ start[u] + f[u] <= start[t]
  <2>1. \A t \in S : live[t].first <= k /\ k <= live[t].last
    BY <1>1, InUseAlive
  <2>2. \A t \in S : live[t].first \in Nat /\ live[t].last \in Nat
    BY <1>2, <1>3 DEF Inv, Types
  <2>3. ASSUME NEW t \in S, NEW u \in S, t /= u
        PROVE  offsets[t] + Size(t) <= offsets[u] \/ offsets[u] + Size(u) <= offsets[t]
    <3>1. live[t].first <= live[u].last /\ live[u].first <= live[t].last
      BY <2>1, <2>2
    <3> QED BY <1>2, <2>3, <3>1 DEF Inv, LiveTogetherApart
  <2> QED BY <1>5, <1>7, <2>3
<1>11. sum[S] <= peak
  BY <1>2, <1>3, <1>5, <1>7, <1>8, <1>9, <1>10, SumOfApart
<1> QED BY <1>1, <1>8, <1>11, SumsOfGraph

\* The arena costs no more than the tensors one after the other, each rounded up,
\* and no less than the tensors that any one operation needs together.
THEOREM PeakTheorem == Spec => []PeakBetweenBounds
<1>1. Init => OffsetsAligned
  BY DEF Init, OffsetsAligned, Placed
<1>2. Inv /\ Shapes /\ [Next]_vars => Shapes'
  BY ShapesInductive
<1>3. Inv /\ OffsetsAligned /\ PeakCovered => PeakBetweenBounds
  <2> SUFFICES ASSUME Inv, OffsetsAligned, PeakCovered PROVE PeakBetweenBounds
    OBVIOUS
  <2>1. AlignOffset(peak) <= AllAlignedSize(Placed)
    BY SumsOfGraph DEF PeakCovered
  <2> QED BY <2>1, InUseBelowPeak DEF PeakBetweenBounds
<1> QED BY <1>1, <1>2, <1>3, InitShapes, InitCovered, AlignedInductive, CoveredInductive, SpecInv,
           PTL DEF Spec
================================================================================
