---------------------------- MODULE NumberLemmas ----------------------------
(***************************************************************************)
(* Least and largest elements of sets of natural numbers, and induction up *)
(* to a bound over a set (the library's induction theorems are about an    *)
(* operator), from the well-foundedness of the natural numbers; and what   *)
(* follows by it of loops and of sums over finite sets.                    *)
(***************************************************************************)
EXTENDS Integers, FiniteSetsExt, FiniteSetTheorems, WellFoundedInduction, TLAPS

NatOrder == {p \in Nat \X Nat : p[1] < p[2]}

\* Every non-empty set of natural numbers has a least element.
LEMMA LeastElement ==
  ASSUME NEW S \in SUBSET Nat, S # {}
  PROVE  \E x \in S : \A y \in S : x <= y
<1>1. IsWellFoundedOn(NatOrder, Nat)
  BY NatLessThanWellFounded DEF NatOrder, OpToRel
<1>2. PICK x \in S : \A y \in S : ~(<<y, x>> \in NatOrder)
  BY <1>1, WFMin
<1>3. \A y \in S : x <= y
  <2> TAKE y \in S
  <2>1. x \in Nat /\ y \in Nat
    OBVIOUS
  <2>2. <<y, x>>[1] = y /\ <<y, x>>[2] = x /\ <<y, x>> \in Nat \X Nat
    BY <2>1
  <2>3. ~(y < x)
    BY <1>2, <2>2 DEF NatOrder
  <2> QED BY <2>1, <2>3
<1> QED BY <1>3

\* What holds of 0 and is passed on to the next number, up to a bound, holds
\* up to the bound.
LEMMA UpTo ==
  ASSUME NEW max \in Nat, NEW S, 0 \in S,
         \A n \in Nat : n < max /\ n \in S => n + 1 \in S
  PROVE  \A n \in 0..max : n \in S
<1> SUFFICES ASSUME {n \in 0..max : n \notin S} # {} PROVE FALSE
  OBVIOUS
<1>1. PICK x \in {n \in 0..max : n \notin S} :
        \A y \in {n \in 0..max : n \notin S} : x <= y
  <2>1. {n \in 0..max : n \notin S} \in SUBSET Nat
    OBVIOUS
  <2> QED BY <2>1, LeastElement
<1>2. x \in Nat /\ x # 0 /\ x <= max /\ x \notin S
  BY <1>1
<1>3. x - 1 \in Nat /\ x - 1 < max /\ x = (x - 1) + 1
  BY <1>2
<1>4. x - 1 \in S
  BY <1>1, <1>3
<1> QED BY <1>2, <1>3, <1>4

\* A non-empty set of numbers with a bound has a largest element.
LEMMA LargestElement ==
  ASSUME NEW n \in Nat, NEW S \in SUBSET (0..n), S # {}
  PROVE  Max(S) \in S /\ \A y \in S : y <= Max(S)
<1> DEFINE Gaps == {n - y : y \in S}
<1>1. Gaps \in SUBSET Nat /\ Gaps # {}
  OBVIOUS
<1>2. PICK g \in Gaps : \A d \in Gaps : g <= d
  BY <1>1, LeastElement
<1>3. PICK x \in S : g = n - x
  BY <1>2
<1>4. \A y \in S : x >= y
  BY <1>2, <1>3
<1>5. \E z \in S : \A y \in S : z >= y
  BY <1>4
<1>6. Max(S) \in S /\ \A y \in S : Max(S) >= y
  BY <1>5 DEF Max
<1>7. \A y \in S : y <= Max(S)
  BY <1>6
<1> QED BY <1>6, <1>7

----------------------------------------------------------------------------
(***************************************************************************)
(* A loop is a function from the number of steps to the state after them,  *)
(* which is defined from itself.  X[n] are the states that the loop can be *)
(* in after n steps.                                                       *)
(***************************************************************************)
IsLoop(g, len, start, step) ==
  /\ g = [n \in 0..len |-> g[n]]
  /\ g[0] = start
  /\ \A n \in 1..len : g[n] = step[n][g[n - 1]]

\* There is such a function.
LEMMA LoopDefined ==
  ASSUME NEW len \in Nat, NEW start, NEW step
  PROVE  \E g : IsLoop(g, len, start, step)
<1> DEFINE Loops(g, k) == g = [n \in 0..k |-> IF n = 0 THEN start ELSE step[n][g[n - 1]]]
           S == {k \in Nat : \E g : Loops(g, k)}
<1>1. 0 \in S
  <2> DEFINE g == [n \in 0..0 |-> start]
  <2>1. g = [n \in 0..0 |-> IF n = 0 THEN start ELSE step[n][g[n - 1]]]
    OBVIOUS
  <2> HIDE DEF g
  <2> QED BY <2>1
<1>2. ASSUME NEW k \in Nat, k < len, k \in S PROVE k + 1 \in S
  <2>1. PICK g : Loops(g, k)
    BY <1>2
  <2> DEFINE h == [n \in 0..(k + 1) |-> IF n = 0 THEN start ELSE step[n][g[n - 1]]]
  <2>2. ASSUME NEW n \in 0..(k + 1), n # 0 PROVE g[n - 1] = h[n - 1]
    <3>1. n - 1 \in 0..k /\ n - 1 \in 0..(k + 1)
      BY <2>2
    <3>2. g[n - 1] = IF n - 1 = 0 THEN start ELSE step[n - 1][g[(n - 1) - 1]]
      BY <2>1, <3>1
    <3>3. h[n - 1] = IF n - 1 = 0 THEN start ELSE step[n - 1][g[(n - 1) - 1]]
      BY <3>1
    <3> QED BY <3>2, <3>3
  <2>3. h = [n \in 0..(k + 1) |-> IF n = 0 THEN start ELSE step[n][h[n - 1]]]
    <3>1. \A n \in 0..(k + 1) : (IF n = 0 THEN start ELSE step[n][g[n - 1]])
                                  = (IF n = 0 THEN start ELSE step[n][h[n - 1]])
      BY <2>2
    <3> QED BY <3>1
  <2> HIDE DEF h
  <2> QED BY <2>3
<1>3. len \in S
  <2>1. \A n \in Nat : n < len /\ n \in S => n + 1 \in S
    BY <1>2
  <2>2. len \in 0..len
    OBVIOUS
  <2> HIDE DEF S
  <2> QED BY <1>1, <2>1, <2>2, UpTo
<1>4. PICK g : Loops(g, len)
  BY <1>3
<1>5. g = [n \in 0..len |-> g[n]] /\ g[0] = start
  BY <1>4
<1>6. ASSUME NEW n \in 1..len PROVE g[n] = step[n][g[n - 1]]
  <2>1. n \in 0..len /\ n # 0
    OBVIOUS
  <2> QED BY <1>4, <2>1
<1>7. IsLoop(g, len, start, step)
  BY <1>5, <1>6 DEF IsLoop
<1> QED BY <1>7

\* What its steps establish.
LEMMA LoopReaches ==
  ASSUME NEW len \in Nat, NEW X, NEW g, g[0] \in X[0],
         \A n \in 1..len : g[n - 1] \in X[n - 1] => g[n] \in X[n]
  PROVE  \A n \in 0..len : g[n] \in X[n]
<1> DEFINE S == {n \in Nat : g[n] \in X[n]}
<1>1. 0 \in S
  OBVIOUS
<1>2. ASSUME NEW n \in Nat, n < len, n \in S PROVE n + 1 \in S
  <2>1. n + 1 \in 1..len /\ (n + 1) - 1 = n
    BY <1>2
  <2>2. g[(n + 1) - 1] \in X[(n + 1) - 1] => g[n + 1] \in X[n + 1]
    BY <2>1
  <2> QED BY <1>2, <2>1, <2>2
<1>3. \A n \in 0..len : n \in S
  <2> HIDE DEF S
  <2> QED BY <1>1, <1>2, UpTo
<1> QED BY <1>3

\* A loop whose steps lead from X[n - 1] to X[n] runs through these states.
LEMMA LoopRuns ==
  ASSUME NEW len \in Nat, NEW X, NEW step, NEW start \in X[0],
         \A n \in 1..len : \A x \in X[n - 1] : step[n][x] \in X[n]
  PROVE  \E g : IsLoop(g, len, start, step) /\ \A n \in 0..len : g[n] \in X[n]
<1>1. PICK g : IsLoop(g, len, start, step)
  BY LoopDefined
<1>2. g[0] \in X[0] /\ \A n \in 1..len : g[n - 1] \in X[n - 1] => g[n] \in X[n]
  BY <1>1 DEF IsLoop
<1>3. \A n \in 0..len : g[n] \in X[n]
  BY <1>2, LoopReaches
<1> QED BY <1>1, <1>3

\* The numbers of a loop's steps.
LEMMA LoopNumbers ==
  ASSUME NEW len \in Nat
  PROVE  /\ len \in 0..len
         /\ \A n \in 1..len : n \in 0..len /\ n - 1 \in 0..len /\ n # 0
         /\ \A n \in 0..len : n = 0 \/ n \in 1..len
OBVIOUS

----------------------------------------------------------------------------
(***************************************************************************)
(* The sum of a function over a finite set, as FiniteSetsExt!MapThenSumSet *)
(* takes it: a function sum of the subsets, defined from itself, that adds *)
(* one chosen element after the other.                                     *)
(***************************************************************************)
Chosen(s) == CHOOSE x \in s : TRUE

IsSum(sum, f, S) ==
  sum = [s \in SUBSET S |-> IF s = {} THEN 0 ELSE f[Chosen(s)] + sum[s \ {Chosen(s)}]]

\* A set of subsets with the empty set, and with every subset of which it has
\* what one element less leaves, has them all.
LEMMA SubsetsUp ==
  ASSUME NEW S, IsFiniteSet(S), NEW X, {} \in X,
         \A s \in SUBSET S : s # {} /\ (\A x \in s : s \ {x} \in X) => s \in X
  PROVE  \A s \in SUBSET S : s \in X
<1> DEFINE Reached == {n \in Nat : \A s \in SUBSET S : Cardinality(s) = n => s \in X}
<1>1. 0 \in Reached
  <2> SUFFICES ASSUME NEW s \in SUBSET S, Cardinality(s) = 0 PROVE s \in X
    OBVIOUS
  <2>1. s = {}
    BY FS_Subset, FS_EmptySet
  <2> QED BY <2>1
<1>2. ASSUME NEW n \in Nat, n \in Reached PROVE n + 1 \in Reached
  <2> SUFFICES ASSUME NEW s \in SUBSET S, Cardinality(s) = n + 1 PROVE s \in X
    OBVIOUS
  <2>1. IsFiniteSet(s)
    BY FS_Subset
  <2>2. s # {}
    <3>1. Cardinality({}) = 0 /\ Cardinality(s) # 0
      BY FS_EmptySet
    <3> HIDE DEF Reached
    <3> QED BY <3>1
  <2>3. ASSUME NEW x \in s PROVE s \ {x} \in X
    <3>1. Cardinality(s \ {x}) = Cardinality(s) - 1
      BY <2>1, FS_RemoveElement
    <3>2. Cardinality(s \ {x}) = n /\ s \ {x} \in SUBSET S
      BY <3>1
    <3> QED BY <1>2, <3>2
  <2> QED BY <2>2, <2>3
<1>3. Cardinality(S) \in Nat
  BY FS_CardinalityType
<1>4. \A n \in 0..Cardinality(S) : n \in Reached
  <2>1. \A n \in Nat : n < Cardinality(S) /\ n \in Reached => n + 1 \in Reached
    BY <1>2
  <2> HIDE DEF Reached
  <2> QED BY <1>1, <1>3, <2>1, UpTo
<1>5. ASSUME NEW s \in SUBSET S PROVE s \in X
  <2>1. Cardinality(s) \in 0..Cardinality(S)
    BY <1>3, FS_Subset, FS_CardinalityType
  <2>2. Cardinality(s) \in Reached
    BY <1>4, <2>1
  <2> QED BY <2>2
<1> QED BY <1>5

\* What is chosen from a set that is not empty is in it.
LEMMA ChosenIn ==
  ASSUME NEW s, s # {}
  PROVE  Chosen(s) \in s
BY DEF Chosen

\* There is such a function.
LEMMA SumDefined ==
  ASSUME NEW S, IsFiniteSet(S), NEW f
  PROVE  \E sum : IsSum(sum, f, S)
<1> DEFINE Small(k) == {s \in SUBSET S : Cardinality(s) <= k}
           Sums(g, k) == g = [s \in Small(k) |-> IF s = {} THEN 0
                                                ELSE f[Chosen(s)] + g[s \ {Chosen(s)}]]
           Reached == {k \in Nat : \E g : Sums(g, k)}
<1>1. 0 \in Reached
  <2> DEFINE g == [s \in Small(0) |-> 0]
  <2>1. ASSUME NEW s \in Small(0) PROVE s = {}
    <3>1. IsFiniteSet(s) /\ Cardinality(s) <= 0
      BY FS_Subset
    <3>2. Cardinality(s) = 0
      BY <3>1, FS_CardinalityType
    <3> QED BY <3>1, <3>2, FS_EmptySet
  <2>2. Sums(g, 0)
    BY <2>1
  <2> HIDE DEF g, Sums
  <2> QED BY <2>2
<1>2. ASSUME NEW k \in Nat, k \in Reached PROVE k + 1 \in Reached
  <2>1. PICK g : Sums(g, k)
    BY <1>2
  <2> DEFINE h == [s \in Small(k + 1) |-> IF s = {} THEN 0
                                          ELSE f[Chosen(s)] + g[s \ {Chosen(s)}]]
  <2>2. ASSUME NEW s \in Small(k + 1), s # {}
        PROVE  g[s \ {Chosen(s)}] = h[s \ {Chosen(s)}]
    <3>1. PICK r : r = s \ {Chosen(s)}
      OBVIOUS
    <3>2. IsFiniteSet(s) /\ Cardinality(s) \in Nat /\ Cardinality(s) <= k + 1
      BY FS_Subset, FS_CardinalityType
    <3>3. Cardinality(r) = Cardinality(s) - 1
      BY <2>2, <3>1, <3>2, ChosenIn, FS_RemoveElement
    <3>4. r \in Small(k) /\ r \in Small(k + 1)
      BY <3>1, <3>2, <3>3
    <3>5. g[r] = IF r = {} THEN 0 ELSE f[Chosen(r)] + g[r \ {Chosen(r)}]
      <4> HIDE DEF Small
      <4> QED BY <2>1, <3>4
    <3>6. h[r] = IF r = {} THEN 0 ELSE f[Chosen(r)] + g[r \ {Chosen(r)}]
      <4> HIDE DEF Small
      <4> QED BY <3>4
    <3> QED BY <3>1, <3>5, <3>6
  <2>3. Sums(h, k + 1)
    <3> HIDE DEF Small
    <3>1. \A s \in Small(k + 1) :
            (IF s = {} THEN 0 ELSE f[Chosen(s)] + g[s \ {Chosen(s)}])
              = (IF s = {} THEN 0 ELSE f[Chosen(s)] + h[s \ {Chosen(s)}])
      BY <2>2
    <3> QED BY <3>1
  <2> HIDE DEF h, Sums
  <2> QED BY <2>3
<1>3. Cardinality(S) \in Nat
  BY FS_CardinalityType
<1>4. Cardinality(S) \in Reached
  <2>1. \A n \in Nat : n < Cardinality(S) /\ n \in Reached => n + 1 \in Reached
    BY <1>2
  <2>2. Cardinality(S) \in 0..Cardinality(S)
    BY <1>3
  <2> HIDE DEF Reached
  <2> QED BY <1>1, <1>3, <2>1, <2>2, UpTo
<1>5. PICK g : Sums(g, Cardinality(S))
  <2> HIDE DEF Sums
  <2> QED BY <1>4
<1>6. Small(Cardinality(S)) = SUBSET S
  BY FS_Subset
<1>7. IsSum(g, f, S)
  <2> HIDE DEF Small
  <2> QED BY <1>5, <1>6 DEF IsSum
<1> QED BY <1>7

\* It is a number.
LEMMA SumNat ==
  ASSUME NEW S, IsFiniteSet(S), NEW f \in [S -> Nat], NEW sum, IsSum(sum, f, S)
  PROVE  sum[{}] = 0 /\ \A s \in SUBSET S : sum[s] \in Nat
<1> DEFINE X == {s \in SUBSET S : sum[s] \in Nat}
<1>1. \A s \in SUBSET S :
        sum[s] = IF s = {} THEN 0 ELSE f[Chosen(s)] + sum[s \ {Chosen(s)}]
  BY DEF IsSum
<1>2. {} \in X /\ sum[{}] = 0
  BY <1>1
<1>3. ASSUME NEW s \in SUBSET S, s # {}, \A x \in s : s \ {x} \in X PROVE s \in X
  <2>1. PICK c : c = Chosen(s)
    OBVIOUS
  <2>2. c \in s /\ sum[s] = f[c] + sum[s \ {c}]
    BY <1>1, <1>3, <2>1, ChosenIn
  <2>3. f[c] \in Nat /\ sum[s \ {c}] \in Nat
    BY <1>3, <2>2
  <2> QED BY <2>2, <2>3
<1>4. \A s \in SUBSET S : s \in X
  <2>1. \A s \in SUBSET S : s # {} /\ (\A x \in s : s \ {x} \in X) => s \in X
    BY <1>3
  <2> HIDE DEF X
  <2> QED BY <1>2, <2>1, SubsetsUp
<1> QED BY <1>2, <1>4

\* It does not matter which element is added last.
LEMMA SumAny ==
  ASSUME NEW S, IsFiniteSet(S), NEW f \in [S -> Nat], NEW sum, IsSum(sum, f, S)
  PROVE  \A s \in SUBSET S : \A x \in s : sum[s] = f[x] + sum[s \ {x}]
<1> DEFINE X == {s \in SUBSET S : \A x \in s : sum[s] = f[x] + sum[s \ {x}]}
<1>1. \A s \in SUBSET S : s # {} => sum[s] = f[Chosen(s)] + sum[s \ {Chosen(s)}]
  BY DEF IsSum
<1>2. {} \in X
  OBVIOUS
<1>3. ASSUME NEW s \in SUBSET S, s # {}, \A x \in s : s \ {x} \in X PROVE s \in X
  <2>1. PICK c : c = Chosen(s)
    OBVIOUS
  <2>2. c \in s /\ sum[s] = f[c] + sum[s \ {c}]
    BY <1>1, <1>3, <2>1, ChosenIn
  <2>3. ASSUME NEW x \in s, x # c PROVE sum[s] = f[x] + sum[s \ {x}]
    <3>1. s \ {c} \in X /\ s \ {x} \in X /\ x \in s \ {c} /\ c \in s \ {x}
      BY <1>3, <2>2, <2>3
    <3>2. PICK r : r = s \ {c, x}
      OBVIOUS
    <3>3. (s \ {c}) \ {x} = r /\ (s \ {x}) \ {c} = r /\ r \in SUBSET S
      BY <3>2
    <3>4. sum[s \ {c}] = f[x] + sum[r]
      BY <3>1, <3>3
    <3>5. sum[s \ {x}] = f[c] + sum[r]
      BY <3>1, <3>3
    <3>6. f[c] \in Nat /\ f[x] \in Nat /\ sum[r] \in Nat
      BY <2>2, <3>3, SumNat
    <3> QED BY <2>2, <3>4, <3>5, <3>6
  <2> QED BY <2>2, <2>3
<1>4. \A s \in SUBSET S : s \in X
  <2>1. \A s \in SUBSET S : s # {} /\ (\A x \in s : s \ {x} \in X) => s \in X
    BY <1>3
  <2> HIDE DEF X
  <2> QED BY <1>2, <2>1, SubsetsUp
<1> QED BY <1>4

\* Sums over two sets of functions that agree on a part of both agree there.
LEMMA SumAgrees ==
  ASSUME NEW S, IsFiniteSet(S), NEW f \in [S -> Nat], NEW sum, IsSum(sum, f, S),
         NEW T, IsFiniteSet(T), NEW g \in [T -> Nat], NEW total, IsSum(total, g, T),
         S \subseteq T, \A x \in S : f[x] = g[x]
  PROVE  \A s \in SUBSET S : sum[s] = total[s]
<1> DEFINE X == {s \in SUBSET S : sum[s] = total[s]}
<1>1. {} \in X
  BY SumNat
<1>2. ASSUME NEW s \in SUBSET S, s # {}, \A x \in s : s \ {x} \in X PROVE s \in X
  <2>1. PICK c : c \in s
    BY <1>2
  <2>2. sum[s] = f[c] + sum[s \ {c}]
    BY <2>1, SumAny
  <2>3. total[s] = g[c] + total[s \ {c}]
    <3>1. s \in SUBSET T
      OBVIOUS
    <3> QED BY <2>1, <3>1, SumAny
  <2>4. f[c] = g[c] /\ sum[s \ {c}] = total[s \ {c}]
    BY <1>2, <2>1
  <2> QED BY <2>2, <2>3, <2>4
<1>3. \A s \in SUBSET S : s \in X
  <2>1. \A s \in SUBSET S : s # {} /\ (\A x \in s : s \ {x} \in X) => s \in X
    BY <1>2
  <2> HIDE DEF X
  <2> QED BY <1>1, <2>1, SubsetsUp
<1> QED BY <1>3

\* Intervals that lie apart below a bound are together no longer than it.
LEMMA SumOfApart ==
  ASSUME NEW S, IsFiniteSet(S), NEW f \in [S -> Nat], NEW sum, IsSum(sum, f, S),
         NEW start \in [S -> Nat], NEW max \in Nat,
         \A x \in S : start[x] + f[x] <= max,
         \A x, y \in S : x # y => start[x] + f[x] <= start[y] \/ start[y] + f[y] <= start[x]
  PROVE  sum[S] <= max
<1> DEFINE Interval(x) == start[x]..(start[x] + f[x] - 1)
           Covered(s) == {n \in 0..(max - 1) : \E x \in s : n \in Interval(x)}
           X == {s \in SUBSET S : Cardinality(Covered(s)) = sum[s]}
<1>1. {} \in X
  <2>1. Covered({}) = {}
    OBVIOUS
  <2> QED BY <2>1, SumNat, FS_EmptySet
<1>2. ASSUME NEW s \in SUBSET S, s # {}, \A x \in s : s \ {x} \in X PROVE s \in X
  <2>1. PICK c : c \in s
    BY <1>2
  <2>2. PICK r : r = s \ {c}
    OBVIOUS
  <2>3. start[c] \in Nat /\ f[c] \in Nat /\ start[c] + f[c] <= max
    BY <2>1
  <2>4. Covered(s) = Interval(c) \cup Covered(r)
    BY <2>1, <2>2, <2>3
  <2>5. Interval(c) \cap Covered(r) = {}
    <3> SUFFICES ASSUME NEW n \in Interval(c), NEW y \in r, n \in Interval(y) PROVE FALSE
      OBVIOUS
    <3>1. start[y] \in Nat /\ f[y] \in Nat /\ y # c /\ y \in S
      BY <2>2
    <3>2. start[c] + f[c] <= start[y] \/ start[y] + f[y] <= start[c]
      BY <2>1, <3>1
    <3> QED BY <2>3, <3>1, <3>2
  <2>6. IsFiniteSet(Interval(c)) /\ Cardinality(Interval(c)) = f[c]
    <3>1. PICK last : last = start[c] + f[c] - 1
      OBVIOUS
    <3>2. start[c] \in Int /\ last \in Int
      BY <2>3, <3>1
    <3>3. /\ IsFiniteSet(start[c]..last)
          /\ Cardinality(start[c]..last) = IF start[c] > last THEN 0 ELSE last - start[c] + 1
      BY <3>2, FS_Interval
    <3>4. (IF start[c] > last THEN 0 ELSE last - start[c] + 1) = f[c]
      BY <2>3, <3>1
    <3> QED BY <3>1, <3>3, <3>4
  <2>7. IsFiniteSet(Covered(r))
    <3>1. IsFiniteSet(0..(max - 1)) /\ Covered(r) \in SUBSET (0..(max - 1))
      BY FS_Interval
    <3> QED BY <3>1, FS_Subset
  <2>8. Cardinality(Covered(r)) = sum[r]
    BY <1>2, <2>1, <2>2
  <2>9. PICK a, b : a = Interval(c) /\ b = Covered(r)
    OBVIOUS
  <2> HIDE DEF Interval, Covered
  <2>10. Cardinality(a \cup b) = Cardinality(a) + Cardinality(b) - Cardinality(a \cap b)
    BY <2>6, <2>7, <2>9, FS_Union
  <2>11. Cardinality(a \cap b) = 0
    BY <2>5, <2>9, FS_EmptySet
  <2>12. sum[s] = f[c] + sum[r] /\ sum[r] \in Nat
    <3>1. r \in SUBSET S
      BY <2>2
    <3> QED BY <2>1, <2>2, <3>1, SumAny, SumNat
  <2>13. Cardinality(Covered(s)) = sum[s]
    BY <2>3, <2>4, <2>6, <2>8, <2>9, <2>10, <2>11, <2>12
  <2> QED BY <2>13
<1>3. \A s \in SUBSET S : s \in X
  <2>1. \A s \in SUBSET S : s # {} /\ (\A x \in s : s \ {x} \in X) => s \in X
    BY <1>2
  <2> HIDE DEF X
  <2> QED BY <1>1, <2>1, SubsetsUp
<1>4. Cardinality(Covered(S)) = sum[S]
  BY <1>3
<1>5. Cardinality(Covered(S)) <= max
  <2>1. Cardinality(0..(max - 1)) = max /\ IsFiniteSet(0..(max - 1))
    BY FS_Interval
  <2>2. Covered(S) \in SUBSET (0..(max - 1))
    OBVIOUS
  <2> HIDE DEF Covered
  <2> QED BY <2>1, <2>2, FS_Subset
<1> QED BY <1>4, <1>5
=============================================================================
