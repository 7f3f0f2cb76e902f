---------------------------- MODULE MCMemoryPlanner ----------------------------
(***************************************************************************)
(* Instances of MemoryPlanner: every graph of NumActivations operations,   *)
(* each with one result and one or two operands among the results before   *)
(* it and the input, one of them a recent result, with two sizes, one of   *)
(* them less than the alignment and the other no multiple of it.  The      *)
(* second operation and the last but one also read a constant each.        *)
(***************************************************************************)
EXTENDS MemoryPlanner

CONSTANTS NumActivations, Numels

Input == 1
Activation(k) == k + 1
Constants == {NumActivations + 2, NumActivations + 3}

\* What the k-th operation (from 1) may read.
Readable(k) == {Input} \cup {Activation(i) : i \in 1 .. k - 1}
Recent(k) == IF k = NumActivations THEN {Activation(k - 1)}
             ELSE {t \in {Activation(k - 1), Activation(k - 2)} : t >= Input}

ReadSets(k) == {{s, t} : s \in Recent(k), t \in Readable(k)}

TensorOf(t, numels) ==
  [storage |-> IF t = Input THEN "INPUT"
               ELSE IF t \in Constants THEN "CONSTANT"
               ELSE IF t = Activation(NumActivations) THEN "OUTPUT" ELSE "ACTIVATION",
   dtype |-> IF t = Activation(2) THEN "F16" ELSE "F32",
   numel |-> IF t \in DOMAIN numels THEN numels[t] ELSE 3]

ConstantsReadBy(k) ==
  {c \in Constants : k = IF c = NumActivations + 2 THEN 2 ELSE NumActivations - 1}

GraphOf(reads, numels) ==
  [tensors |-> [t \in (1 .. NumActivations + 1) \cup Constants |-> TensorOf(t, numels)],
   nodes |-> [k \in 1 .. NumActivations |->
                [inputs |-> reads[k] \cup ConstantsReadBy(k), outputs |-> {Activation(k)}]],
   inputs |-> {Input},
   outputs |-> {Activation(NumActivations)}]

\* One read set for each of the first n operations.
ReadChoices ==
  LET prefixes[n \in 0 .. NumActivations] ==
        IF n = 0 THEN {<<>>}
        ELSE {Append(reads, r) : reads \in prefixes[n - 1], r \in ReadSets(n)}
  IN prefixes[NumActivations]

ActivationGraphs ==
  {GraphOf(reads, numels) :
     reads \in ReadChoices,
     numels \in [Activation(1) .. Activation(NumActivations - 1) -> Numels]}
================================================================================
