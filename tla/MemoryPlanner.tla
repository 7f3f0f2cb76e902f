----------------------------- MODULE MemoryPlanner -----------------------------
(***************************************************************************)
(* The static arena planner of the compiler: memory/liveness.py finds the  *)
(* interval of operations during which each tensor is used, one operation  *)
(* at a time, and memory/planner.py then places the reclaimable tensors,   *)
(* one at a time, first fit, at aligned byte offsets of one arena.         *)
(*                                                                         *)
(* A graph is fixed at the start.  Its operations are numbered from 0, as  *)
(* in the code: operation k is graph.nodes[k + 1].                         *)
(***************************************************************************)
EXTENDS Integers, Sequences, FiniteSets, FiniteSetsExt

CONSTANTS Graphs,      \* the graphs the planner may be asked to plan
          Alignment    \* byte alignment of every offset

\* Bytes of a tensor: blocks of 32 elements for the quantized types.
ByteSize(tensor) ==
  CASE tensor.dtype = "Q8_0" -> (tensor.numel \div 32) * 34
    [] tensor.dtype = "Q4_0" -> (tensor.numel \div 32) * 18
    [] tensor.dtype \in {"F32", "I32"} -> tensor.numel * 4
    [] tensor.dtype \in {"F16", "BF16"} -> tensor.numel * 2
    [] tensor.dtype = "I64" -> tensor.numel * 8
    [] tensor.dtype \in {"I8", "BOOL"} -> tensor.numel

\* Graphs are in static single assignment: every tensor is written by at most
\* one operation, which comes before the operations that read it.
ASSUME GraphsAssumption ==
  \A g \in Graphs :
    /\ DOMAIN g.tensors \subseteq Nat
    /\ \A t \in DOMAIN g.tensors : ByteSize(g.tensors[t]) \in Nat
    /\ g.nodes \in Seq([inputs : SUBSET DOMAIN g.tensors, outputs : SUBSET DOMAIN g.tensors])
    /\ \A i, j \in 1 .. Len(g.nodes) :
         /\ i /= j => g.nodes[i].outputs \cap g.nodes[j].outputs = {}
         /\ i <= j => g.nodes[i].inputs \cap g.nodes[j].outputs = {}

ASSUME AlignmentAssumption == Alignment \in Nat \ {0}

VARIABLES graph,       \* the graph being planned
          scanned,     \* operations the liveness analysis has seen
          live,        \* tensor -> [first, last], its interval of operations
          todo,        \* reclaimable tensors not placed yet
          active,      \* intervals of the arena that are in use
          offsets,     \* tensor -> offset, for the tensors placed
          peak         \* end of the highest interval placed so far

vars == <<graph, scanned, live, todo, active, offsets, peak>>

Tensors == DOMAIN graph.tensors
NumOps == Len(graph.nodes)
Storage(t) == graph.tensors[t].storage

Larger(a, b) == IF a >= b THEN a ELSE b
Smaller(a, b) == IF a <= b THEN a ELSE b

Size(t) == ByteSize(graph.tensors[t])

\* MUTANT: rounds down.
AlignDown(offset) == offset - (offset % Alignment)

AlignOffset(offset) ==
  IF offset % Alignment = 0 THEN offset
  ELSE offset + (Alignment - (offset % Alignment))

--------------------------------------------------------------------------------
(* Liveness *)

IsReclaimable(g, t) ==
  /\ g.tensors[t].storage \in {"ACTIVATION", "CONSTANT"}
  /\ t \notin g.inputs \cup g.outputs

InitialInterval(g, t) ==
  [first |-> IF g.tensors[t].storage \in {"INPUT", "PARAMETER", "STATE"}
             THEN 0 ELSE Len(g.nodes),
   last  |-> IF IsReclaimable(g, t) THEN 0 ELSE Len(g.nodes)]

Init ==
  /\ graph \in Graphs
  /\ scanned = 0
  /\ live = [t \in DOMAIN graph.tensors |-> InitialInterval(graph, t)]
  /\ todo = {}
  /\ active = {}
  /\ offsets = <<>>
  /\ peak = 0

\* MUTANT: what an operation reads is not kept until it.
ScannedOutputsOnly(t, k, node) ==
  [first |-> IF t \in node.outputs THEN Smaller(live[t].first, k) ELSE live[t].first,
   last  |-> IF t \in node.outputs THEN Larger(live[t].last, k) ELSE live[t].last]

\* The outputs of operation k are born at k, what it reads is still used at k.
Scanned(t, k, node) ==
  [first |-> IF t \in node.outputs THEN Smaller(live[t].first, k) ELSE live[t].first,
   last  |-> IF t \in node.inputs \cup node.outputs
             THEN Larger(live[t].last, k) ELSE live[t].last]

ScanOp ==
  /\ scanned < NumOps
  /\ live' = [t \in Tensors |-> Scanned(t, scanned, graph.nodes[scanned + 1])]
  /\ scanned' = scanned + 1
  /\ UNCHANGED <<graph, todo, active, offsets, peak>>

\* MUTANT: results end one operation after the last.
CollectLate ==
  /\ scanned = NumOps
  /\ live' = [t \in Tensors |-> IF t \in graph.outputs
                                THEN [live[t] EXCEPT !.last = NumOps + 1] ELSE live[t]]
  /\ todo' = {t \in Tensors : IsReclaimable(graph, t) /\ Size(t) > 0}
  /\ scanned' = NumOps + 1
  /\ UNCHANGED <<graph, active, offsets, peak>>

\* MUTANT: results nothing reads get no place.
CollectRead ==
  /\ scanned = NumOps
  /\ live' = [t \in Tensors |-> IF t \in graph.outputs
                                THEN [live[t] EXCEPT !.last = NumOps] ELSE live[t]]
  /\ todo' = {t \in Tensors : /\ IsReclaimable(graph, t) /\ Size(t) > 0
                              /\ live[t].first < live[t].last}
  /\ scanned' = NumOps + 1
  /\ UNCHANGED <<graph, active, offsets, peak>>

\* The results of the graph are kept to its end, and the tensors to place are
\* collected.
CollectReclaimable ==
  /\ scanned = NumOps
  /\ live' = [t \in Tensors |-> IF t \in graph.outputs
                                THEN [live[t] EXCEPT !.last = NumOps] ELSE live[t]]
  /\ todo' = {t \in Tensors : IsReclaimable(graph, t) /\ Size(t) > 0}
  /\ scanned' = NumOps + 1
  /\ UNCHANGED <<graph, active, offsets, peak>>

--------------------------------------------------------------------------------
(* First fit *)

\* The order of the sort: by first use, then the larger first, then by id.
Precedes(s, t) ==
  \/ live[s].first < live[t].first
  \/ /\ live[s].first = live[t].first
     /\ \/ Size(s) > Size(t)
        \/ Size(s) = Size(t) /\ s < t

IsNext(t) == t \in todo /\ \A s \in todo \ {t} : Precedes(t, s)

\* MUTANT: an interval is free in the operation that reads its tensor last.
ActiveAfter(t) == {a \in active : a.last > live[t].first}

\* The intervals whose tensor is still used when t is born.
StillActive(t) == {a \in active : a.last >= live[t].first}

\* Below a, the scan has raised its candidate to the highest end it passed.
Candidate(passed, c) ==
  /\ c \in {0} \cup {a.end : a \in passed}
  /\ \A a \in passed : a.end <= c

Below(a, intervals) == {b \in intervals : b.start < a.start}

FitsBelow(a, c, t) == AlignOffset(c) + Size(t) <= a.start

\* c is where the scan stops: below the first interval that leaves a gap large
\* enough, or after them all.
FirstFit(intervals, c, t) ==
  LET NoGapBelow(a) == \A d \in {0} \cup {b.end : b \in intervals} :
        Candidate(Below(a, intervals), d) => ~FitsBelow(a, d, t)
  IN \/ \E a \in intervals :
          /\ Candidate(Below(a, intervals), c)
          /\ FitsBelow(a, c, t)
          /\ \A b \in Below(a, intervals) : NoGapBelow(b)
     \/ /\ Candidate(intervals, c)
        /\ \A a \in intervals : NoGapBelow(a)

\* MUTANT: the peak is that of the last tensor placed.
PlaceWithLastPeak(t, offset) ==
  /\ offsets' = [s \in DOMAIN offsets \cup {t} |->
                   IF s = t THEN offset ELSE offsets[s]]
  /\ active' = StillActive(t) \cup
       {[start |-> offset, end |-> offset + Size(t), last |-> live[t].last]}
  /\ peak' = offset + Size(t)
  /\ todo' = todo \ {t}
  /\ UNCHANGED <<graph, scanned, live>>

PlaceAt(t, offset) ==
  /\ offsets' = [s \in DOMAIN offsets \cup {t} |->
                   IF s = t THEN offset ELSE offsets[s]]
  /\ active' = StillActive(t) \cup
       {[start |-> offset, end |-> offset + Size(t), last |-> live[t].last]}
  /\ peak' = Larger(peak, offset + Size(t))
  /\ todo' = todo \ {t}
  /\ UNCHANGED <<graph, scanned, live>>

Place ==
  \E t \in todo :
    /\ IsNext(t)
    /\ \E c \in {0} \cup {a.end : a \in StillActive(t)} :
         FirstFit(StillActive(t), c, t) /\ PlaceAt(t, AlignOffset(c))

Next == ScanOp \/ CollectReclaimable \/ Place

Spec == Init /\ [][Next]_vars

Done == scanned = NumOps + 1 /\ todo = {}
Placed == DOMAIN offsets

--------------------------------------------------------------------------------
(* What the plan is for: the executor runs the operations in order, each      *)
(* writing its outputs at their offsets and reading its inputs at theirs.     *)

Bytes(t) == offsets[t] .. offsets[t] + Size(t) - 1

Writes(k) == graph.nodes[k + 1].outputs
Reads(k) == graph.nodes[k + 1].inputs

\* Results of operations up to k that k or a later operation reads.  The inputs,
\* parameters and states of a graph have no place in the arena.  Its constants
\* have one, but nothing writes them: their first use stays behind the last
\* operation (liveness.py:75), when every interval has ended, so they are all
\* placed at the start of the arena, over the results there, while
\* docs/ir/canonical_ir.md:160 says that constants are not arena reusable.
ResultsNeededAt(k) ==
  {t \in Tensors : /\ \E i \in 0 .. k : t \in Writes(i)
                   /\ \E j \in k .. NumOps - 1 : t \in Reads(j)}

\* Every part of the state has its form; intervals of the arena have a length
\* and no offset is placed before the analysis is over.
TypeOK ==
  /\ scanned \in 0 .. NumOps + 1
  /\ live \in [Tensors -> [first : 0 .. NumOps, last : 0 .. NumOps]]
  /\ todo \subseteq Tensors
  /\ \A a \in active : a.start \in Nat /\ a.end \in Nat /\ a.start < a.end
                       /\ a.last \in 0 .. NumOps
  /\ Placed \subseteq Tensors /\ Placed \cap todo = {}
  /\ \A t \in Placed : offsets[t] \in Nat
  /\ peak \in Nat
  /\ scanned <= NumOps => todo \cup active \cup Placed = {}

\* An operation never writes over the result of an operation that it or a later
\* one still reads, nor over another of its own results: the plan's intervals
\* come from the analysis, its bytes from first fit, and both must be right for
\* this.  Of constants it says nothing (see ResultsNeededAt).
NothingOverwrittenWhileNeeded ==
  \A k \in 0 .. NumOps - 1 : \A t \in Placed \cap Writes(k) :
    \A u \in (Placed \cap (ResultsNeededAt(k) \cup Writes(k))) \ {t} :
      Bytes(t) \cap Bytes(u) = {}

\* Tensors whose intervals of operations meet lie apart in the arena.  (That of a
\* constant meets no other: it ends before it begins.)
LiveTogetherApart ==
  \A t, u \in Placed :
    (t /= u /\ live[t].first <= live[u].last /\ live[u].first <= live[t].last)
      => \/ offsets[t] + Size(t) <= offsets[u]
         \/ offsets[u] + Size(u) <= offsets[t]

\* Offsets are aligned, and the arena that is allocated covers every tensor.
AlignedInsideArena ==
  \A t \in Placed : /\ offsets[t] % Alignment = 0
                    /\ offsets[t] + Size(t) <= AlignOffset(peak)

\* Reuse never costs: the arena is no larger than all tensors one after the
\* other, each rounded up, and no smaller than the results that are needed at
\* one time.
AllSize(S) == MapThenSumSet(Size, S)
AlignedSize(t) == AlignOffset(Size(t))
AllAlignedSize(S) == MapThenSumSet(AlignedSize, S)

PeakBetweenBounds ==
  Done => /\ AlignOffset(peak) <= AllAlignedSize(Placed)
          /\ \A k \in 0 .. NumOps - 1 :
               AllSize(Placed \cap (ResultsNeededAt(k) \cup Writes(k))) <= peak

\* Every activation that has a byte and is no result of the graph gets a place
\* (docs/ir/canonical_ir.md:161).
EveryActivationPlaced ==
  Done => {t \in Tensors : /\ Storage(t) = "ACTIVATION" /\ Size(t) > 0
                           /\ t \notin graph.inputs \cup graph.outputs} \subseteq Placed

================================================================================
