--------------------------- MODULE VMMPoolLemmas ---------------------------
(***************************************************************************)
(* What the operations of VMMPool do to the fields of the manager's state, *)
(* for any number of pages and addresses.  The proofs about the manager    *)
(* itself and about the paged KV cache, which drives it, both rest on      *)
(* these lemmas.                                                           *)
(***************************************************************************)
EXTENDS VMMPool, SequenceTheorems, FiniteSetTheorems, TLAPS

(***************************************************************************)
(* Sequences without duplicates, which the warm pool is.                   *)
(***************************************************************************)
Elements(s) == {s[i] : i \in DOMAIN s}
Distinct(s) == \A i, j \in DOMAIN s : s[i] = s[j] => i = j

\* Taking the last element of a sequence.
LEMMA PopFacts ==
    ASSUME NEW S, NEW s \in Seq(S), s # <<>>, Distinct(s)
    PROVE  LET t == SubSeq(s, 1, Len(s) - 1)
               h == s[Len(s)]
           IN  /\ h \in S /\ h \in Elements(s)
               /\ t \in Seq(S)
               /\ Distinct(t)
               /\ Elements(t) = Elements(s) \ {h}
  <1> DEFINE t == SubSeq(s, 1, Len(s) - 1)
  <1>1. Len(s) \in Nat /\ Len(s) > 0 /\ DOMAIN s = 1..Len(s)
        /\ \A i \in 1..Len(s) : s[i] \in S
    OBVIOUS
  <1>2. t \in Seq(S) /\ Len(t) = Len(s) - 1 /\ \A i \in 1..(Len(s) - 1) : t[i] = s[i]
    <2>1. \A i \in 1..(Len(s) - 1) : s[i] \in S
      BY <1>1
    <2>2. 1 \in Int /\ Len(s) - 1 \in Int
      BY <1>1
    <2>3. t \in Seq(S) /\ Len(t) = (IF 1 <= Len(s) - 1 THEN Len(s) - 1 - 1 + 1 ELSE 0)
          /\ \A i \in 1..(Len(s) - 1 - 1 + 1) : t[i] = s[1 + i - 1]
      BY <2>1, <2>2, SubSeqProperties
    <2>4. QED
      BY <2>3, <1>1
  <1>3. DOMAIN t = 1..(Len(s) - 1)
    BY <1>2, LenProperties
  <1> HIDE DEF t
  <1>4. Distinct(t)
    BY <1>1, <1>2, <1>3 DEF Distinct
  <1>5. Elements(t) = Elements(s) \ {s[Len(s)]}
    <2>1. ASSUME NEW x \in Elements(t) PROVE x \in Elements(s) \ {s[Len(s)]}
      BY <1>1, <1>2, <1>3, <2>1 DEF Elements, Distinct
    <2>2. ASSUME NEW x \in Elements(s) \ {s[Len(s)]} PROVE x \in Elements(t)
      BY <1>1, <1>2, <1>3, <2>2 DEF Elements
    <2>3. QED
      BY <2>1, <2>2
  <1>6. s[Len(s)] \in S /\ s[Len(s)] \in Elements(s)
    BY <1>1 DEF Elements
  <1>7. QED
    BY <1>2, <1>4, <1>5, <1>6 DEF t

\* Appending a new element.
LEMMA PushFacts ==
    ASSUME NEW S, NEW s \in Seq(S), NEW h \in S, Distinct(s), h \notin Elements(s)
    PROVE  /\ Append(s, h) \in Seq(S)
           /\ Distinct(Append(s, h))
           /\ Elements(Append(s, h)) = Elements(s) \cup {h}
  <1> DEFINE t == Append(s, h)
  <1>1. /\ Len(s) \in Nat /\ DOMAIN s = 1..Len(s)
        /\ t \in Seq(S) /\ DOMAIN t = 1..(Len(s) + 1)
        /\ \A i \in 1..Len(s) : t[i] = s[i]
        /\ t[Len(s) + 1] = h
    OBVIOUS
  <1> HIDE DEF t
  <1>2. Distinct(t)
    BY <1>1 DEF Distinct, Elements
  <1>3. Elements(t) = Elements(s) \cup {h}
    <2>1. ASSUME NEW x \in Elements(t) PROVE x \in Elements(s) \cup {h}
      BY <1>1, <2>1 DEF Elements
    <2>2. ASSUME NEW x \in Elements(s) PROVE x \in Elements(t)
      BY <1>1, <2>2 DEF Elements
    <2>3. h \in Elements(t)
      BY <1>1 DEF Elements
    <2>4. QED
      BY <2>1, <2>2, <2>3
  <1>4. QED
    BY <1>1, <1>2, <1>3 DEF t

\* Appending a sequence of new elements.
LEMMA ConcatFacts ==
    ASSUME NEW S, NEW s \in Seq(S), NEW u \in Seq(S), Distinct(s), Distinct(u),
           Elements(s) \cap Elements(u) = {}
    PROVE  /\ s \o u \in Seq(S)
           /\ Distinct(s \o u)
           /\ Elements(s \o u) = Elements(s) \cup Elements(u)
  <1> DEFINE t == s \o u
  <1>1. /\ Len(s) \in Nat /\ DOMAIN s = 1..Len(s)
        /\ Len(u) \in Nat /\ DOMAIN u = 1..Len(u)
        /\ t \in Seq(S) /\ DOMAIN t = 1..(Len(s) + Len(u))
        /\ \A i \in 1..(Len(s) + Len(u)) :
              t[i] = IF i <= Len(s) THEN s[i] ELSE u[i - Len(s)]
    BY ConcatProperties, LenProperties
  <1> HIDE DEF t
  <1>2. Distinct(t)
    <2> SUFFICES ASSUME NEW i \in DOMAIN t, NEW j \in DOMAIN t, t[i] = t[j]
                 PROVE  i = j
      BY DEF Distinct
    <2>1. CASE i <= Len(s) /\ j <= Len(s)
      BY <1>1, <2>1 DEF Distinct
    <2>2. CASE i > Len(s) /\ j > Len(s)
      <3>1. i - Len(s) \in DOMAIN u /\ j - Len(s) \in DOMAIN u
        BY <1>1, <2>2
      <3>2. u[i - Len(s)] = u[j - Len(s)]
        BY <1>1, <2>2
      <3>3. i - Len(s) = j - Len(s)
        BY <3>1, <3>2 DEF Distinct
      <3>4. QED
        BY <3>3, <1>1
    <2>3. CASE i <= Len(s) /\ j > Len(s)
      <3>1. j - Len(s) \in DOMAIN u /\ t[j] = u[j - Len(s)]
        BY <1>1, <2>3
      <3>2. t[i] \in Elements(s) /\ t[j] \in Elements(u)
        BY <1>1, <2>3, <3>1 DEF Elements
      <3>3. QED
        BY <3>2
    <2>4. CASE i > Len(s) /\ j <= Len(s)
      <3>1. i - Len(s) \in DOMAIN u /\ t[i] = u[i - Len(s)]
        BY <1>1, <2>4
      <3>2. j \in DOMAIN s /\ t[j] = s[j]
        BY <1>1, <2>4
      <3>3. t[j] \in Elements(s) /\ t[i] \in Elements(u)
        BY <3>1, <3>2 DEF Elements
      <3>4. QED
        BY <3>3
    <2>5. QED
      BY <1>1, <2>1, <2>2, <2>3, <2>4
  <1>3. Elements(t) = Elements(s) \cup Elements(u)
    <2>1. ASSUME NEW x \in Elements(t) PROVE x \in Elements(s) \cup Elements(u)
      <3>1. PICK i \in DOMAIN t : x = t[i]
        BY DEF Elements
      <3>2. CASE i <= Len(s)
        BY <1>1, <3>1, <3>2 DEF Elements
      <3>3. CASE i > Len(s)
        <4>1. i - Len(s) \in DOMAIN u /\ x = u[i - Len(s)]
          BY <1>1, <3>1, <3>3
        <4>2. QED
          BY <4>1 DEF Elements
      <3>4. QED
        BY <1>1, <3>2, <3>3
    <2>2. ASSUME NEW x \in Elements(s) PROVE x \in Elements(t)
      BY <1>1, <2>2 DEF Elements
    <2>3. ASSUME NEW x \in Elements(u) PROVE x \in Elements(t)
      <3>1. PICK i \in DOMAIN u : x = u[i]
        BY DEF Elements
      <3>2. Len(s) + i \in DOMAIN t /\ t[Len(s) + i] = u[i]
        BY <1>1
      <3>3. QED
        BY <3>1, <3>2 DEF Elements
    <2>4. QED
      BY <2>1, <2>2, <2>3
  <1>4. QED
    BY <1>1, <1>2, <1>3 DEF t

----------------------------------------------------------------------------
(***************************************************************************)
(* What each operation of the manager does to the fields of its state.     *)
(***************************************************************************)
LEMMA AllocFromPoolEffect ==
    ASSUME NEW v \in PoolState, v.free_pages_pool # <<>>, NEW fresh,
           Distinct(v.free_pages_pool)
    PROVE  LET w == AllocPhysicalPage(v, fresh)
               h == AllocatedHandle(v, fresh)
           IN  /\ w \in PoolState
               /\ h \in Handles /\ h \in Pooled(v)
               /\ w.handle_refcounts = [v.handle_refcounts EXCEPT ![h] = 1]
               /\ Distinct(w.free_pages_pool)
               /\ Pooled(w) = Pooled(v) \ {h}
               /\ w.mapped_pages = v.mapped_pages
               /\ w.total_mapped = v.total_mapped
               /\ w.prefix_page_table = v.prefix_page_table
               /\ w.driver = v.driver
  <1> DEFINE p == v.free_pages_pool
             q == SubSeq(p, 1, Len(p) - 1)
             h == p[Len(p)]
  <1>1. p \in Seq(Handles)
    BY DEF PoolState
  <1>2. /\ h \in Handles /\ h \in Elements(p)
        /\ q \in Seq(Handles) /\ Distinct(q) /\ Elements(q) = Elements(p) \ {h}
    BY <1>1, PopFacts
  <1>3. AllocatedHandle(v, fresh) = h
    BY DEF AllocatedHandle
  <1>4. AllocPhysicalPage(v, fresh) =
            [v EXCEPT !.free_pages_pool = q, !.handle_refcounts[h] = 1]
    BY <1>3 DEF AllocPhysicalPage
  <1> DEFINE w == AllocPhysicalPage(v, fresh)
  <1> HIDE DEF q, h, w
  <1>5. [v.handle_refcounts EXCEPT ![h] = 1] \in [Handles -> Nat]
    BY <1>2 DEF PoolState
  <1>6. w = [v EXCEPT !.free_pages_pool = q,
                      !.handle_refcounts = [v.handle_refcounts EXCEPT ![h] = 1]]
    BY <1>4 DEF PoolState, w
  <1>7. /\ w \in PoolState
        /\ w.free_pages_pool = q
        /\ w.handle_refcounts = [v.handle_refcounts EXCEPT ![h] = 1]
        /\ w.mapped_pages = v.mapped_pages
        /\ w.total_mapped = v.total_mapped
        /\ w.prefix_page_table = v.prefix_page_table
        /\ w.driver = v.driver
    BY <1>2, <1>5, <1>6 DEF PoolState
  <1>8. Pooled(w) = Elements(q) /\ Pooled(v) = Elements(p)
    BY <1>7 DEF Pooled, Elements
  <1>9. QED
    BY <1>2, <1>3, <1>7, <1>8 DEF w

\* Allocating a page that the driver creates.
LEMMA AllocFreshEffect ==
    ASSUME NEW v \in PoolState, v.free_pages_pool = <<>>, NEW fresh \in Handles
    PROVE  LET w == AllocPhysicalPage(v, fresh)
           IN  /\ w \in PoolState
               /\ AllocatedHandle(v, fresh) = fresh
               /\ w.handle_refcounts = [v.handle_refcounts EXCEPT ![fresh] = 1]
               /\ w.free_pages_pool = v.free_pages_pool
               /\ w.mapped_pages = v.mapped_pages
               /\ w.total_mapped = v.total_mapped
               /\ w.prefix_page_table = v.prefix_page_table
               /\ w.driver = v.driver \cup {fresh}
  <1> DEFINE w == AllocPhysicalPage(v, fresh)
  <1>1. w = [v EXCEPT !.driver = v.driver \cup {fresh},
                      !.handle_refcounts = [v.handle_refcounts EXCEPT ![fresh] = 1]]
    BY NoHandleAssumption DEF PoolState, AllocPhysicalPage
  <1>2. /\ [v.handle_refcounts EXCEPT ![fresh] = 1] \in [Handles -> Nat]
        /\ AllocatedHandle(v, fresh) = fresh /\ v.driver \cup {fresh} \in SUBSET Handles
    BY DEF PoolState, AllocatedHandle
  <1> HIDE DEF w
  <1>3. QED
    BY <1>1, <1>2 DEF w, PoolState

\* Retaining a page.
LEMMA RetainEffect ==
    ASSUME NEW v \in PoolState, NEW h \in Handles, v.handle_refcounts[h] > 0
    PROVE  LET w == RetainPhysicalPage(v, h)
           IN  /\ w \in PoolState
               /\ w.handle_refcounts = [v.handle_refcounts EXCEPT ![h] = @ + 1]
               /\ w.free_pages_pool = v.free_pages_pool
               /\ w.mapped_pages = v.mapped_pages
               /\ w.total_mapped = v.total_mapped
               /\ w.prefix_page_table = v.prefix_page_table
               /\ w.driver = v.driver
  <1> DEFINE w == RetainPhysicalPage(v, h)
  <1>1. w = [v EXCEPT !.handle_refcounts = [v.handle_refcounts EXCEPT ![h] = @ + 1]]
    BY NoHandleAssumption DEF PoolState, RetainPhysicalPage, Counted
  <1>2. [v.handle_refcounts EXCEPT ![h] = @ + 1] \in [Handles -> Nat]
    BY DEF PoolState
  <1> HIDE DEF w
  <1>3. QED
    BY <1>1, <1>2 DEF w, PoolState

\* Releasing a page.
LEMMA ReleaseEffect ==
    ASSUME NEW v \in PoolState, NEW h \in Handles, v.handle_refcounts[h] > 0,
           Distinct(v.free_pages_pool), h \notin Pooled(v)
    PROVE  LET w == ReleasePhysicalPage(v, h)
           IN  /\ w \in PoolState
               /\ w.handle_refcounts = [v.handle_refcounts EXCEPT ![h] = @ - 1]
               /\ w.mapped_pages = v.mapped_pages
               /\ w.total_mapped = v.total_mapped
               /\ w.prefix_page_table = v.prefix_page_table
               /\ Distinct(w.free_pages_pool)
               /\ \/ /\ v.handle_refcounts[h] > 1
                     /\ Pooled(w) = Pooled(v) /\ w.driver = v.driver
                  \/ /\ v.handle_refcounts[h] = 1
                     /\ Pooled(w) = Pooled(v) \cup {h} /\ w.driver = v.driver
                  \/ /\ v.handle_refcounts[h] = 1
                     /\ Pooled(w) = Pooled(v) /\ w.driver = v.driver \ {h}
  <1> DEFINE w == ReleasePhysicalPage(v, h)
             p == v.free_pages_pool
  <1>1. /\ w \in PoolState
        /\ w.handle_refcounts = [v.handle_refcounts EXCEPT ![h] = @ - 1]
        /\ w.mapped_pages = v.mapped_pages
        /\ w.total_mapped = v.total_mapped
        /\ w.prefix_page_table = v.prefix_page_table
        /\ \/ /\ v.handle_refcounts[h] > 1
              /\ w.free_pages_pool = p /\ w.driver = v.driver
           \/ /\ v.handle_refcounts[h] = 1
              /\ w.free_pages_pool = Append(p, h) /\ w.driver = v.driver
           \/ /\ v.handle_refcounts[h] = 1
              /\ w.free_pages_pool = p /\ w.driver = v.driver \ {h}
    <2> DEFINE n == [v.handle_refcounts EXCEPT ![h] = @ - 1]
    <2>1. n \in [Handles -> Nat] /\ n[h] = v.handle_refcounts[h] - 1
          /\ v.handle_refcounts[h] \in Nat
      BY DEF PoolState
    <2>2. Append(p, h) \in Seq(Handles)
      BY DEF PoolState
    <2>3. w = IF n[h] > 0 THEN [v EXCEPT !.handle_refcounts = n]
              ELSE IF Len(p) < v.max_warm_pages
              THEN [v EXCEPT !.handle_refcounts = n, !.free_pages_pool = Append(p, h)]
              ELSE [v EXCEPT !.handle_refcounts = n, !.driver = v.driver \ {h}]
      BY NoHandleAssumption DEF PoolState, ReleasePhysicalPage, Counted, Release
    <2> HIDE DEF w, n
    <2> DEFINE Rest == /\ w.mapped_pages = v.mapped_pages
                       /\ w.total_mapped = v.total_mapped
                       /\ w.prefix_page_table = v.prefix_page_table
    <2>4. CASE n[h] > 0
      <3>1. w = [v EXCEPT !.handle_refcounts = n]
        BY <2>3, <2>4
      <3>2. /\ w \in PoolState /\ w.handle_refcounts = n /\ Rest
            /\ w.free_pages_pool = p /\ w.driver = v.driver
        BY <2>1, <3>1 DEF PoolState
      <3>3. QED
        BY <2>1, <2>4, <3>2 DEF n
    <2>5. CASE ~(n[h] > 0) /\ Len(p) < v.max_warm_pages
      <3>1. w = [v EXCEPT !.handle_refcounts = n, !.free_pages_pool = Append(p, h)]
        BY <2>3, <2>5
      <3>2. /\ w \in PoolState /\ w.handle_refcounts = n /\ Rest
            /\ w.free_pages_pool = Append(p, h) /\ w.driver = v.driver
        BY <2>1, <2>2, <3>1 DEF PoolState
      <3>3. QED
        BY <2>1, <2>5, <3>2 DEF n
    <2>6. CASE ~(n[h] > 0) /\ ~(Len(p) < v.max_warm_pages)
      <3>1. w = [v EXCEPT !.handle_refcounts = n, !.driver = v.driver \ {h}]
        BY <2>3, <2>6
      <3>2. /\ w \in PoolState /\ w.handle_refcounts = n /\ Rest
            /\ w.free_pages_pool = p /\ w.driver = v.driver \ {h}
        BY <2>1, <3>1 DEF PoolState
      <3>3. QED
        BY <2>1, <2>6, <3>2 DEF n
    <2>7. QED
      BY <2>4, <2>5, <2>6
  <1>2. p \in Seq(Handles) /\ h \notin Elements(p)
    BY DEF PoolState, Pooled, Elements
  <1>3. Distinct(Append(p, h)) /\ Elements(Append(p, h)) = Elements(p) \cup {h}
    BY <1>2, PushFacts
  <1>4. Pooled(w) = Elements(w.free_pages_pool) /\ Pooled(v) = Elements(p)
    BY DEF Pooled, Elements
  <1> HIDE DEF w
  <1>5. QED
    BY <1>1, <1>3, <1>4 DEF w

\* Mapping a page.
LEMMA MapEffect ==
    ASSUME NEW v \in PoolState, NEW a \in Addrs, NEW h \in Handles, CanMap(v, a, h)
    PROVE  LET w == MapPage(v, a, h)
           IN  /\ w \in PoolState
               /\ w.handle_refcounts = v.handle_refcounts
               /\ w.free_pages_pool = v.free_pages_pool
               /\ w.mapped_pages = [v.mapped_pages EXCEPT ![a] = h]
               /\ w.total_mapped = v.total_mapped + 1
               /\ w.prefix_page_table = v.prefix_page_table
               /\ w.driver = v.driver
  <1> DEFINE w == MapPage(v, a, h)
  <1>1. w = [v EXCEPT !.mapped_pages = [v.mapped_pages EXCEPT ![a] = h],
                      !.total_mapped = v.total_mapped + 1]
    BY DEF PoolState, MapPage
  <1>2. /\ [v.mapped_pages EXCEPT ![a] = h] \in [Addrs -> Handles \cup {NoHandle}]
        /\ v.total_mapped + 1 \in Nat
    BY DEF PoolState
  <1> HIDE DEF w
  <1>3. QED
    BY <1>1, <1>2 DEF w, PoolState

\* Unmapping a page.
LEMMA UnmapEffect ==
    ASSUME NEW v \in PoolState, NEW a \in Addrs, v.mapped_pages[a] # NoHandle,
           v.total_mapped > 0
    PROVE  LET w == UnmapPage(v, a)
           IN  /\ w \in PoolState
               /\ w.handle_refcounts = v.handle_refcounts
               /\ w.free_pages_pool = v.free_pages_pool
               /\ w.mapped_pages = [v.mapped_pages EXCEPT ![a] = NoHandle]
               /\ w.total_mapped = v.total_mapped - 1
               /\ w.prefix_page_table = v.prefix_page_table
               /\ w.driver = v.driver
  <1> DEFINE w == UnmapPage(v, a)
  <1>1. w = [v EXCEPT !.mapped_pages = [v.mapped_pages EXCEPT ![a] = NoHandle],
                      !.total_mapped = v.total_mapped - 1]
    BY DEF PoolState, UnmapPage
  <1>2. /\ [v.mapped_pages EXCEPT ![a] = NoHandle] \in [Addrs -> Handles \cup {NoHandle}]
        /\ v.total_mapped - 1 \in Nat
    BY DEF PoolState
  <1> HIDE DEF w
  <1>3. QED
    BY <1>1, <1>2 DEF w, PoolState

\* Looking up the page of a prefix.
LEMMA GetPrefixEffect ==
    ASSUME NEW v \in PoolState, NEW k \in Hashes, v.prefix_page_table[k] # NoHandle
    PROVE  LET w == GetPrefixPage(v, k)
               h == v.prefix_page_table[k]
           IN  /\ w \in PoolState
               /\ h \in Handles
               /\ w.handle_refcounts = [v.handle_refcounts EXCEPT ![h] = @ + 1]
               /\ w.free_pages_pool = v.free_pages_pool
               /\ w.mapped_pages = v.mapped_pages
               /\ w.total_mapped = v.total_mapped
               /\ w.prefix_page_table = v.prefix_page_table
               /\ w.driver = v.driver
  <1> DEFINE w == GetPrefixPage(v, k)
             h == v.prefix_page_table[k]
  <1>1. h \in Handles
    BY DEF PoolState
  <1>2. w = [v EXCEPT !.handle_refcounts = [v.handle_refcounts EXCEPT ![h] = @ + 1]]
    BY DEF PoolState, GetPrefixPage
  <1> HIDE DEF w, h
  <1>3. [v.handle_refcounts EXCEPT ![h] = @ + 1] \in [Handles -> Nat]
    BY <1>1 DEF PoolState
  <1>4. QED
    BY <1>1, <1>2, <1>3 DEF w, h, PoolState

\* Registering the page of a prefix.
LEMMA RegisterPrefixEffect ==
    ASSUME NEW v \in PoolState, NEW k \in Hashes, NEW h \in Handles
    PROVE  LET w == RegisterPrefixPage(v, k, h)
           IN  /\ w \in PoolState
               /\ w.handle_refcounts = [v.handle_refcounts EXCEPT ![h] = @ + 1]
               /\ w.free_pages_pool = v.free_pages_pool
               /\ w.mapped_pages = v.mapped_pages
               /\ w.total_mapped = v.total_mapped
               /\ w.prefix_page_table = [v.prefix_page_table EXCEPT ![k] = h]
               /\ w.driver = v.driver
  <1> DEFINE w == RegisterPrefixPage(v, k, h)
  <1>1. w = [v EXCEPT !.prefix_page_table = [v.prefix_page_table EXCEPT ![k] = h],
                      !.handle_refcounts = [v.handle_refcounts EXCEPT ![h] = @ + 1]]
    BY DEF PoolState, RegisterPrefixPage
  <1>2. /\ [v.handle_refcounts EXCEPT ![h] = @ + 1] \in [Handles -> Nat]
        /\ [v.prefix_page_table EXCEPT ![k] = h] \in [Hashes -> Handles \cup {NoHandle}]
    BY DEF PoolState
  <1> HIDE DEF w
  <1>3. QED
    BY <1>1, <1>2 DEF w, PoolState

\* Evicting a prefix.
LEMMA EvictPrefixEffect ==
    ASSUME NEW v \in PoolState, NEW k \in Hashes, v.prefix_page_table[k] # NoHandle,
           v.handle_refcounts[v.prefix_page_table[k]] > 0
    PROVE  LET w == EvictPrefixPage(v, k)
               h == v.prefix_page_table[k]
           IN  /\ w \in PoolState
               /\ h \in Handles
               /\ w.handle_refcounts = [v.handle_refcounts EXCEPT ![h] = @ - 1]
               /\ w.free_pages_pool = v.free_pages_pool
               /\ w.mapped_pages = v.mapped_pages
               /\ w.total_mapped = v.total_mapped
               /\ w.prefix_page_table = [v.prefix_page_table EXCEPT ![k] = NoHandle]
               /\ w.driver = IF v.handle_refcounts[h] = 1 THEN v.driver \ {h}
                             ELSE v.driver
  <1> DEFINE w == EvictPrefixPage(v, k)
             h == v.prefix_page_table[k]
             counts == [v.handle_refcounts EXCEPT ![h] = @ - 1]
             table == [v.prefix_page_table EXCEPT ![k] = NoHandle]
             driver == IF v.handle_refcounts[h] = 1 THEN v.driver \ {h} ELSE v.driver
  <1>1. /\ h \in Handles /\ counts \in [Handles -> Nat]
        /\ table \in [Hashes -> Handles \cup {NoHandle}]
        /\ driver \in SUBSET Handles
    BY DEF PoolState
  <1>2. w = [v EXCEPT !.prefix_page_table = table, !.handle_refcounts = counts,
                      !.driver = driver]
    <2>1. CASE v.handle_refcounts[h] > 1
      <3>1. w = [v EXCEPT !.prefix_page_table = table, !.handle_refcounts = counts]
        BY <2>1 DEF EvictPrefixPage, Counted, PoolState
      <3>2. driver = v.driver
        BY <2>1
      <3> HIDE DEF w, counts, table, driver
      <3>3. QED
        BY <1>1, <3>1, <3>2 DEF PoolState
    <2>2. CASE v.handle_refcounts[h] = 1
      <3>1. counts = [v.handle_refcounts EXCEPT ![h] = 0]
        BY <2>2
      <3>2. w = Release([[v EXCEPT !.prefix_page_table = table]
                         EXCEPT !.handle_refcounts[h] = 0], h)
        BY <2>2 DEF EvictPrefixPage, Counted
      <3>3. [[v EXCEPT !.prefix_page_table = table] EXCEPT !.handle_refcounts[h] = 0]
              = [v EXCEPT !.prefix_page_table = table, !.handle_refcounts = counts]
        BY <3>1 DEF PoolState
      <3>4. w = [[v EXCEPT !.prefix_page_table = table, !.handle_refcounts = counts]
                 EXCEPT !.driver = v.driver \ {h}]
        <4> DEFINE u == [v EXCEPT !.prefix_page_table = table,
                                  !.handle_refcounts = counts]
        <4>1. u.driver = v.driver
          BY DEF PoolState
        <4>2. w = Release(u, h)
          BY <3>2, <3>3
        <4> HIDE DEF u, w
        <4>3. w = [u EXCEPT !.driver = v.driver \ {h}]
          BY <4>1, <4>2 DEF Release
        <4>4. QED
          BY <4>3 DEF u
      <3>5. driver = v.driver \ {h}
        BY <2>2
      <3> HIDE DEF w, counts, table, driver
      <3>6. QED
        BY <3>4, <3>5
    <2>3. QED
      BY <1>1, <2>1, <2>2 DEF PoolState
  <1> HIDE DEF w, counts, table, driver
  <1>3. /\ w \in PoolState
        /\ w.handle_refcounts = counts
        /\ w.free_pages_pool = v.free_pages_pool
        /\ w.mapped_pages = v.mapped_pages
        /\ w.total_mapped = v.total_mapped
        /\ w.prefix_page_table = table
        /\ w.driver = driver
    BY <1>1, <1>2 DEF PoolState
  <1>4. QED
    BY <1>1, <1>3 DEF w, counts, table, driver

\* Configuring the pool.
LEMMA ConfigureEffect ==
    ASSUME NEW v \in PoolState, NEW warm \in Nat, NEW prealloc \in Nat,
           NEW new \in Seq(Handles), Distinct(v.free_pages_pool), Distinct(new),
           Pooled(v) \cap Elements(new) = {}
    PROVE  LET w == ConfigurePool(v, warm, prealloc, new)
           IN  /\ w \in PoolState
               /\ w.handle_refcounts = v.handle_refcounts
               /\ Distinct(w.free_pages_pool)
               /\ Pooled(w) = Pooled(v) \cup Elements(new)
               /\ w.mapped_pages = v.mapped_pages
               /\ w.total_mapped = v.total_mapped
               /\ w.prefix_page_table = v.prefix_page_table
               /\ w.driver = v.driver \cup Elements(new)
  <1> DEFINE w == ConfigurePool(v, warm, prealloc, new)
             p == v.free_pages_pool
             q == p \o new
             driver == v.driver \cup Elements(new)
  <1>1. p \in Seq(Handles) /\ Elements(p) = Pooled(v)
    BY DEF PoolState, Pooled, Elements
  <1>2. q \in Seq(Handles) /\ Distinct(q) /\ Elements(q) = Elements(p) \cup Elements(new)
    BY <1>1, ConcatFacts
  <1>3. Elements(new) \in SUBSET Handles
    <2>1. new \in [1..Len(new) -> Handles] /\ DOMAIN new = 1..Len(new)
      BY LenProperties
    <2>2. QED
      BY <2>1 DEF Elements
  <1>4. w = [v EXCEPT !.max_warm_pages = warm, !.prealloc_pages = prealloc,
                      !.free_pages_pool = q, !.driver = driver]
    BY DEF ConfigurePool, Elements, PoolState
  <1>5. driver \in SUBSET Handles
    BY <1>3 DEF PoolState
  <1> HIDE DEF w, q, driver
  <1>6. /\ w \in PoolState
        /\ w.handle_refcounts = v.handle_refcounts
        /\ w.free_pages_pool = q
        /\ w.mapped_pages = v.mapped_pages
        /\ w.total_mapped = v.total_mapped
        /\ w.prefix_page_table = v.prefix_page_table
        /\ w.driver = driver
    BY <1>2, <1>4, <1>5 DEF PoolState
  <1>7. Pooled(w) = Elements(q)
    BY <1>6 DEF Pooled, Elements
  <1>8. QED
    BY <1>1, <1>2, <1>6, <1>7 DEF w, driver

\* Draining the pool.
LEMMA DrainEffect ==
    ASSUME NEW v \in PoolState
    PROVE  LET w == DrainWarmPool(v)
           IN  /\ w \in PoolState
               /\ w.handle_refcounts = v.handle_refcounts
               /\ w.free_pages_pool = <<>>
               /\ w.mapped_pages = v.mapped_pages
               /\ w.total_mapped = v.total_mapped
               /\ w.prefix_page_table = v.prefix_page_table
               /\ w.driver = v.driver \ Pooled(v)
  <1> DEFINE w == DrainWarmPool(v)
             driver == v.driver \ Pooled(v)
  <1>1. driver \in SUBSET Handles /\ <<>> \in Seq(Handles)
    BY DEF PoolState
  <1>2. w = [v EXCEPT !.driver = driver, !.free_pages_pool = <<>>]
    BY DEF DrainWarmPool, PoolState
  <1> HIDE DEF w, driver
  <1>3. QED
    BY <1>1, <1>2 DEF PoolState, w, driver

\* Resetting the manager.
LEMMA ResetEffect ==
    ASSUME NEW v \in PoolState
    PROVE  LET w == Reset(v)
           IN  /\ w \in PoolState
               /\ w.handle_refcounts = [h \in Handles |-> 0]
               /\ w.free_pages_pool = <<>>
               /\ w.mapped_pages = [a \in Addrs |-> NoHandle]
               /\ w.total_mapped = 0
               /\ w.prefix_page_table = [k \in Hashes |-> NoHandle]
               /\ w.driver = v.driver \ (Pooled(v) \cup
                                 {h \in Handles : v.handle_refcounts[h] > 0})
  <1> DEFINE w == Reset(v)
             driver == v.driver \ (Pooled(v) \cup
                          {h \in Handles : v.handle_refcounts[h] > 0})
             u == EmptyPool(v.max_warm_pages)
  <1>1. driver \in SUBSET Handles /\ v.max_warm_pages \in Nat /\ v.prealloc_pages \in Nat
    BY DEF PoolState
  <1>2. /\ u \in PoolState
        /\ u.handle_refcounts = [h \in Handles |-> 0]
        /\ u.free_pages_pool = <<>>
        /\ u.mapped_pages = [a \in Addrs |-> NoHandle]
        /\ u.total_mapped = 0
        /\ u.prefix_page_table = [k \in Hashes |-> NoHandle]
    BY <1>1 DEF EmptyPool, PoolState
  <1>3. w = [u EXCEPT !.prealloc_pages = v.prealloc_pages, !.driver = driver]
    BY DEF Reset
  <1> HIDE DEF w, u, driver
  <1>4. QED
    BY <1>1, <1>2, <1>3 DEF PoolState, w, driver

----------------------------------------------------------------------------
(***************************************************************************)
(* What holds of any state of the manager, also one in which a mapped page *)
(* is pooled or pooled twice: references and pool change, mappings do not. *)
(***************************************************************************)
SameMappings(v, w) ==
    /\ w \in PoolState
    /\ w.mapped_pages = v.mapped_pages
    /\ w.total_mapped = v.total_mapped

\* Allocation keeps the types.
LEMMA AllocTyped ==
    ASSUME NEW v \in PoolState, NEW fresh \in Handles \cup {NoHandle}
    PROVE  /\ SameMappings(v, AllocPhysicalPage(v, fresh))
           /\ AllocatedHandle(v, fresh) \in Handles \cup {NoHandle}
  <1> DEFINE w == AllocPhysicalPage(v, fresh)
             p == v.free_pages_pool
             q == SubSeq(p, 1, Len(p) - 1)
             h == p[Len(p)]
  <1>1. CASE p = <<>>
    <2>1. AllocatedHandle(v, fresh) = fresh
      BY <1>1 DEF AllocatedHandle
    <2>2. CASE fresh = NoHandle
      <3>1. w = v
        BY <1>1, <2>2 DEF AllocPhysicalPage
      <3>2. QED
        BY <2>1, <3>1 DEF SameMappings
    <2>3. CASE fresh # NoHandle
      BY <1>1, <2>1, <2>3, AllocFreshEffect DEF SameMappings
    <2>4. QED
      BY <2>2, <2>3
  <1>2. CASE p # <<>>
    <2>1. p \in Seq(Handles)
      BY DEF PoolState
    <2>2. h \in Handles /\ q \in Seq(Handles)
      BY <1>2, <2>1
    <2>3. AllocatedHandle(v, fresh) = h
      BY <1>2 DEF AllocatedHandle
    <2>4. w = [v EXCEPT !.free_pages_pool = q, !.handle_refcounts[h] = 1]
      BY <1>2, <2>3 DEF AllocPhysicalPage
    <2> HIDE DEF w, q, h
    <2>5. [v.handle_refcounts EXCEPT ![h] = 1] \in [Handles -> Nat]
      BY <2>2 DEF PoolState
    <2>6. w = [v EXCEPT !.free_pages_pool = q,
                        !.handle_refcounts = [v.handle_refcounts EXCEPT ![h] = 1]]
      BY <2>4 DEF PoolState
    <2>7. w \in PoolState /\ w.mapped_pages = v.mapped_pages /\ w.total_mapped = v.total_mapped
      BY <2>2, <2>5, <2>6 DEF PoolState
    <2>8. QED
      BY <2>2, <2>3, <2>7 DEF SameMappings, w
  <1>3. QED
    BY <1>1, <1>2

\* So does retaining a page.
LEMMA RetainTyped ==
    ASSUME NEW v \in PoolState, NEW h \in Handles \cup {NoHandle}
    PROVE  SameMappings(v, RetainPhysicalPage(v, h))
  <1>1. CASE Counted(v, h)
    <2>1. h \in Handles /\ v.handle_refcounts[h] > 0
      BY <1>1 DEF Counted
    <2>2. QED
      BY <2>1, RetainEffect DEF SameMappings
  <1>2. CASE ~Counted(v, h)
    BY <1>2 DEF RetainPhysicalPage, SameMappings
  <1>3. QED
    BY <1>1, <1>2

\* So does releasing a page.
LEMMA ReleaseTyped ==
    ASSUME NEW v \in PoolState, NEW h \in Handles \cup {NoHandle}
    PROVE  SameMappings(v, ReleasePhysicalPage(v, h))
  <1> DEFINE w == ReleasePhysicalPage(v, h)
             p == v.free_pages_pool
             n == [v.handle_refcounts EXCEPT ![h] = @ - 1]
  <1>1. CASE ~Counted(v, h)
    BY <1>1 DEF ReleasePhysicalPage, SameMappings
  <1>2. CASE Counted(v, h)
    <2>1. h \in Handles /\ v.handle_refcounts[h] > 0 /\ p \in Seq(Handles)
      BY <1>2 DEF Counted, PoolState
    <2>2. n \in [Handles -> Nat] /\ Append(p, h) \in Seq(Handles)
      BY <2>1 DEF PoolState
    <2>3. \/ w = [v EXCEPT !.handle_refcounts = n]
          \/ w = [v EXCEPT !.handle_refcounts = n, !.free_pages_pool = Append(p, h)]
          \/ w = [v EXCEPT !.handle_refcounts = n, !.driver = v.driver \ {h}]
      BY <1>2, <2>1 DEF PoolState, ReleasePhysicalPage, Release
    <2> HIDE DEF w, n
    <2>4. w \in PoolState /\ w.mapped_pages = v.mapped_pages /\ w.total_mapped = v.total_mapped
      BY <2>2, <2>3 DEF PoolState
    <2>5. QED
      BY <2>4 DEF SameMappings, w
  <1>3. QED
    BY <1>1, <1>2
=============================================================================
