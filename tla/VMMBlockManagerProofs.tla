----------------------- MODULE VMMBlockManagerProofs -----------------------
(***************************************************************************)
(* Proofs about VMMBlockManager for any number of pages, addresses and     *)
(* prefix keys.                                                            *)
(***************************************************************************)
EXTENDS VMMBlockManager, VMMPoolLemmas

----------------------------------------------------------------------------
(***************************************************************************)
(* The inductive invariant.  MappedPagesHeld, which the clients keep, ties *)
(* the mappings to the references: with it a page whose last reference     *)
(* goes is mapped nowhere.                                                 *)
(***************************************************************************)
MappedPagesHeld == \A h \in Handles : Mapped(vmm, h) => held[h] > 0

IInv ==
    /\ TypeOK
    /\ WarmPagesUnused
    /\ CountCoversHolders
    /\ MappedPagesHeld
    /\ DriverAccounting
    /\ MappedBytesExact

AbstractStep == [Abstract!Next]_(Abstract!pageVars)

\* A page without references is held by no client and not registered.
LEMMA UncountedIsFree ==
    ASSUME IInv, NEW h \in Handles, vmm.handle_refcounts[h] = 0
    PROVE  /\ held[h] = 0
           /\ Registrations(h) = {}
           /\ ~Mapped(vmm, h)
  <1>1. IsFiniteSet(Registrations(h)) /\ Cardinality(Registrations(h)) \in Nat
    BY SizesAssumption, FS_Subset, FS_CardinalityType DEF Registrations
  <1>2. vmm.handle_refcounts[h] >= held[h] + Cardinality(Registrations(h))
        /\ held[h] \in Nat
    BY DEF IInv, TypeOK, CountCoversHolders
  <1>3. held[h] = 0 /\ Cardinality(Registrations(h)) = 0
    BY <1>1, <1>2
  <1>4. Registrations(h) = {}
    BY <1>1, <1>3, FS_EmptySet
  <1>5. QED
    BY <1>3, <1>4 DEF IInv, MappedPagesHeld

\* A page that clients hold or the table names is counted, and not pooled.
LEMMA HeldIsCounted ==
    ASSUME IInv, NEW h \in Handles, held[h] > 0 \/ Registrations(h) # {}
    PROVE  /\ vmm.handle_refcounts[h] > 0
           /\ h \notin Pooled(vmm)
           /\ h \in vmm.driver
  <1>1. vmm.handle_refcounts[h] \in Nat
    BY DEF IInv, TypeOK, PoolState
  <1>2. vmm.handle_refcounts[h] > 0
    BY <1>1, UncountedIsFree
  <1>3. QED
    BY <1>2 DEF IInv, WarmPagesUnused, DriverAccounting

\* The invariant holds at first.
LEMMA InitIInv == Init => IInv /\ Abstract!Init
  <1> SUFFICES ASSUME Init PROVE IInv /\ Abstract!Init
    OBVIOUS
  <1>1. /\ vmm \in PoolState
        /\ vmm.handle_refcounts = [h \in Handles |-> 0]
        /\ vmm.free_pages_pool = <<>>
        /\ vmm.mapped_pages = [a \in Addrs |-> NoHandle]
        /\ vmm.total_mapped = 0
        /\ vmm.prefix_page_table = [k \in Hashes |-> NoHandle]
        /\ vmm.driver = {}
    BY SizesAssumption DEF Init, EmptyPool, PoolState
  <1>2. held = [h \in Handles |-> 0]
    BY DEF Init
  <1>3. Pooled(vmm) = {} /\ \A h \in Handles : ~Mapped(vmm, h)
    BY <1>1, NoHandleAssumption DEF Pooled, Mapped
  <1>4. \A h \in Handles : Registrations(h) = {}
    BY <1>1, NoHandleAssumption DEF Registrations
  <1>5. CountCoversHolders
    <2> SUFFICES ASSUME NEW h \in Handles
                 PROVE  vmm.handle_refcounts[h] >= held[h] + Cardinality(Registrations(h))
      BY DEF CountCoversHolders
    <2>1. Cardinality(Registrations(h)) = 0
      BY <1>4, FS_EmptySet
    <2>2. QED
      BY <1>1, <1>2, <2>1
  <1>6. MappedBytesExact
    BY <1>1, FS_EmptySet DEF MappedBytesExact
  <1>7. Abstract!Init
    BY <1>1 DEF Abstract!Init
  <1>8. QED
    BY <1>1, <1>2, <1>3, <1>5, <1>6, <1>7
       DEF IInv, TypeOK, WarmPagesUnused, MappedPagesHeld, DriverAccounting

----------------------------------------------------------------------------
(***************************************************************************)
(* Facts shared by several actions: what follows when a part of the        *)
(* manager's state stays as it is.                                         *)
(***************************************************************************)
LEMMA RegistrationsFinite ==
    ASSUME NEW h
    PROVE  IsFiniteSet(Registrations(h)) /\ Cardinality(Registrations(h)) \in Nat
  BY SizesAssumption, FS_Subset, FS_CardinalityType DEF Registrations

\* CountCoversHolders survives when counts grow as much as holdings do.
LEMMA CountFrame ==
    ASSUME IInv, TypeOK', vmm'.prefix_page_table = vmm.prefix_page_table,
           \A h \in Handles :
              vmm'.handle_refcounts[h] - held'[h] >= vmm.handle_refcounts[h] - held[h]
    PROVE  CountCoversHolders'
  <1> SUFFICES ASSUME NEW h \in Handles
               PROVE  vmm'.handle_refcounts[h] >= held'[h] + Cardinality(Registrations(h)')
    BY DEF CountCoversHolders
  <1>1. Registrations(h)' = Registrations(h)
    BY DEF Registrations
  <1>2. vmm.handle_refcounts[h] >= held[h] + Cardinality(Registrations(h))
    BY DEF IInv, CountCoversHolders
  <1>3. /\ vmm.handle_refcounts[h] \in Nat /\ vmm'.handle_refcounts[h] \in Nat
        /\ held[h] \in Nat /\ held'[h] \in Nat
    BY DEF IInv, TypeOK, PoolState
  <1>4. QED
    BY <1>1, <1>2, <1>3, RegistrationsFinite

\* Operations that neither map nor unmap.
LEMMA BytesFrame ==
    ASSUME IInv, vmm'.mapped_pages = vmm.mapped_pages,
           vmm'.total_mapped = vmm.total_mapped
    PROVE  /\ MappedBytesExact'
           /\ \A h \in Handles : Mapped(vmm', h) <=> Mapped(vmm, h)
  BY DEF IInv, MappedBytesExact, Mapped

----------------------------------------------------------------------------
(***************************************************************************)
(* Each action keeps the invariant, and is a step of PhysicalPages or      *)
(* leaves its variables unchanged.                                         *)
(***************************************************************************)
LEMMA StutterStep ==
    ASSUME IInv, UNCHANGED vars
    PROVE  IInv' /\ AbstractStep
  BY DEF IInv, vars, TypeOK, WarmPagesUnused, CountCoversHolders, MappedPagesHeld,
         DriverAccounting, MappedBytesExact, Registrations, AbstractStep,
         Abstract!pageVars

\* Allocating a page keeps the invariant.
LEMMA AllocStep ==
    ASSUME IInv, Alloc
    PROVE  IInv' /\ AbstractStep
  <1>1. PICK fresh \in Creatable(vmm) \cup {NoHandle} :
          LET h == AllocatedHandle(vmm, fresh) IN
          /\ vmm' = AllocPhysicalPage(vmm, fresh)
          /\ held' = IF h = NoHandle THEN held ELSE [held EXCEPT ![h] = @ + 1]
    BY DEF Alloc
  <1> DEFINE h == AllocatedHandle(vmm, fresh)
  <1>2. vmm \in PoolState /\ held \in [Handles -> Nat]
    BY DEF IInv, TypeOK
  <1>3. CASE vmm.free_pages_pool = <<>> /\ fresh = NoHandle
    <2>1. UNCHANGED vars
      BY <1>1, <1>3 DEF AllocPhysicalPage, AllocatedHandle, vars
    <2>2. QED
      BY <2>1, StutterStep
  <1>4. CASE vmm.free_pages_pool # <<>> \/ fresh # NoHandle
    <2>1. /\ vmm' \in PoolState
          /\ h \in Handles
          /\ vmm'.handle_refcounts = [vmm.handle_refcounts EXCEPT ![h] = 1]
          /\ Distinct(vmm'.free_pages_pool)
          /\ vmm'.mapped_pages = vmm.mapped_pages
          /\ vmm'.total_mapped = vmm.total_mapped
          /\ vmm'.prefix_page_table = vmm.prefix_page_table
          /\ vmm'.driver = vmm.driver \cup {h}
          /\ Pooled(vmm') = Pooled(vmm) \ {h}
          /\ vmm.handle_refcounts[h] = 0
      <3>1. CASE vmm.free_pages_pool # <<>>
        <4>1. Distinct(vmm.free_pages_pool)
          BY DEF IInv, WarmPagesUnused, Distinct
        <4>2. h \in Pooled(vmm) /\ h \in Handles
          BY <1>2, <3>1, <4>1, AllocFromPoolEffect
        <4>3. vmm.handle_refcounts[h] = 0 /\ h \in vmm.driver
          BY <4>2 DEF IInv, WarmPagesUnused
        <4>4. vmm.driver = vmm.driver \cup {h}
          BY <4>3
        <4>5. QED
          BY <1>1, <1>2, <3>1, <4>1, <4>3, <4>4, AllocFromPoolEffect
      <3>2. CASE vmm.free_pages_pool = <<>>
        <4>1. fresh \in Handles /\ fresh \notin vmm.driver
          BY <1>1, <1>4, <3>2 DEF Creatable
        <4>2. h = fresh /\ Distinct(vmm.free_pages_pool)
          BY <3>2 DEF AllocatedHandle, Distinct
        <4>3. vmm.handle_refcounts[h] = 0
          BY <1>2, <4>1, <4>2 DEF IInv, DriverAccounting, PoolState
        <4>4. Pooled(vmm) = {}
          BY <3>2 DEF Pooled
        <4>5. /\ vmm' \in PoolState
              /\ vmm'.free_pages_pool = vmm.free_pages_pool
              /\ vmm'.handle_refcounts = [vmm.handle_refcounts EXCEPT ![fresh] = 1]
              /\ vmm'.mapped_pages = vmm.mapped_pages
              /\ vmm'.total_mapped = vmm.total_mapped
              /\ vmm'.prefix_page_table = vmm.prefix_page_table
              /\ vmm'.driver = vmm.driver \cup {fresh}
          BY <1>1, <1>2, <3>2, <4>1, AllocFreshEffect
        <4>6. Pooled(vmm') = {}
          BY <4>5, <3>2 DEF Pooled
        <4>7. QED
          BY <4>1, <4>2, <4>3, <4>4, <4>5, <4>6
      <3>3. QED
        BY <3>1, <3>2
    <2>2. held' = [held EXCEPT ![h] = @ + 1]
      BY <1>1, <2>1, NoHandleAssumption
    <2> HIDE DEF h
    <2>3. held[h] = 0 /\ ~Mapped(vmm, h)
      BY <2>1, UncountedIsFree
    <2>4. TypeOK'
      BY <1>2, <2>1, <2>2 DEF TypeOK
    <2>5. /\ MappedBytesExact'
          /\ \A g \in Handles : Mapped(vmm', g) <=> Mapped(vmm, g)
      BY <2>1, BytesFrame
    <2>6. WarmPagesUnused'
      BY <1>2, <2>1, <2>5 DEF IInv, WarmPagesUnused, Distinct, PoolState, Pooled
    <2>7. CountCoversHolders'
      BY <1>2, <2>1, <2>2, <2>3, <2>4, CountFrame DEF PoolState
    <2>8. MappedPagesHeld'
      BY <1>2, <2>1, <2>2, <2>5 DEF IInv, MappedPagesHeld
    <2>9. DriverAccounting'
      BY <1>2, <2>1 DEF IInv, DriverAccounting, PoolState
    <2>10. Abstract!Acquire(h)
      BY <2>1, <2>3 DEF Abstract!Acquire, Mapped
    <2>11. QED
      BY <2>1, <2>4, <2>5, <2>6, <2>7, <2>8, <2>9, <2>10
         DEF IInv, AbstractStep, Abstract!Next
  <1>5. QED
    BY <1>3, <1>4

\* So does retaining one.
LEMMA RetainStep ==
    ASSUME IInv, NEW h \in Handles, Retain(h)
    PROVE  IInv' /\ AbstractStep
  <1>1. vmm \in PoolState /\ held \in [Handles -> Nat] /\ held[h] > 0
    BY DEF IInv, TypeOK, Retain
  <1>2. vmm.handle_refcounts[h] > 0 /\ h \notin Pooled(vmm) /\ h \in vmm.driver
    BY <1>1, HeldIsCounted
  <1>3. /\ vmm' \in PoolState
        /\ vmm'.handle_refcounts = [vmm.handle_refcounts EXCEPT ![h] = @ + 1]
        /\ vmm'.free_pages_pool = vmm.free_pages_pool
        /\ vmm'.mapped_pages = vmm.mapped_pages
        /\ vmm'.total_mapped = vmm.total_mapped
        /\ vmm'.prefix_page_table = vmm.prefix_page_table
        /\ vmm'.driver = vmm.driver
    BY <1>1, <1>2, RetainEffect DEF Retain
  <1>4. held' = [held EXCEPT ![h] = @ + 1]
    BY DEF Retain
  <1>5. TypeOK'
    BY <1>1, <1>3, <1>4 DEF TypeOK
  <1>6. /\ MappedBytesExact'
        /\ \A g \in Handles : Mapped(vmm', g) <=> Mapped(vmm, g)
    BY <1>3, BytesFrame
  <1>7. WarmPagesUnused'
    <2>1. Pooled(vmm') = Pooled(vmm) /\ Pooled(vmm) \subseteq Handles
      BY <1>1, <1>3 DEF Pooled, PoolState
    <2>2. QED
      BY <1>1, <1>2, <1>3, <1>6, <2>1 DEF IInv, WarmPagesUnused, PoolState
  <1>8. CountCoversHolders'
    BY <1>1, <1>3, <1>4, <1>5, CountFrame DEF PoolState
  <1>9. MappedPagesHeld'
    BY <1>1, <1>4, <1>6 DEF IInv, MappedPagesHeld
  <1>10. DriverAccounting'
    <2>1. Pooled(vmm') = Pooled(vmm)
      BY <1>3 DEF Pooled
    <2>2. QED
      BY <1>1, <1>2, <1>3, <2>1 DEF IInv, DriverAccounting, PoolState
  <1>11. Abstract!Share(h)
    BY <1>2, <1>3 DEF Abstract!Share
  <1>12. QED
    BY <1>5, <1>6, <1>7, <1>8, <1>9, <1>10, <1>11
       DEF IInv, AbstractStep, Abstract!Next

\* So does releasing one.
LEMMA ReleaseStep ==
    ASSUME IInv, NEW h \in Handles, ReleaseRef(h)
    PROVE  IInv' /\ AbstractStep
  <1>1. /\ vmm \in PoolState /\ held \in [Handles -> Nat] /\ held[h] > 0
        /\ held[h] = 1 => ~Mapped(vmm, h)
    BY DEF IInv, TypeOK, ReleaseRef
  <1>2. vmm.handle_refcounts[h] > 0 /\ h \notin Pooled(vmm) /\ h \in vmm.driver
    BY <1>1, HeldIsCounted
  <1>3. Distinct(vmm.free_pages_pool)
    BY DEF IInv, WarmPagesUnused, Distinct
  <1>4. /\ vmm' \in PoolState
        /\ vmm'.handle_refcounts = [vmm.handle_refcounts EXCEPT ![h] = @ - 1]
        /\ vmm'.mapped_pages = vmm.mapped_pages
        /\ vmm'.total_mapped = vmm.total_mapped
        /\ vmm'.prefix_page_table = vmm.prefix_page_table
        /\ Distinct(vmm'.free_pages_pool)
        /\ \/ /\ vmm.handle_refcounts[h] > 1
              /\ Pooled(vmm') = Pooled(vmm) /\ vmm'.driver = vmm.driver
           \/ /\ vmm.handle_refcounts[h] = 1
              /\ Pooled(vmm') = Pooled(vmm) \cup {h} /\ vmm'.driver = vmm.driver
           \/ /\ vmm.handle_refcounts[h] = 1
              /\ Pooled(vmm') = Pooled(vmm) /\ vmm'.driver = vmm.driver \ {h}
    BY <1>1, <1>2, <1>3, ReleaseEffect DEF ReleaseRef
  <1>5. held' = [held EXCEPT ![h] = @ - 1]
    BY DEF ReleaseRef
  <1>6. TypeOK'
    BY <1>1, <1>4, <1>5 DEF TypeOK
  <1>7. /\ MappedBytesExact'
        /\ \A g \in Handles : Mapped(vmm', g) <=> Mapped(vmm, g)
    BY <1>4, BytesFrame
  <1>8. vmm.handle_refcounts[h] = 1 => held[h] = 1
    <2>1. vmm.handle_refcounts[h] >= held[h] + Cardinality(Registrations(h))
      BY DEF IInv, CountCoversHolders
    <2>2. QED
      BY <1>1, <2>1, RegistrationsFinite DEF PoolState
  <1>9. WarmPagesUnused'
    <2>1. Pooled(vmm) \subseteq Handles
      BY <1>1 DEF Pooled, PoolState
    <2>2. ASSUME NEW g \in Pooled(vmm')
          PROVE  g \in vmm'.driver /\ vmm'.handle_refcounts[g] = 0 /\ ~Mapped(vmm', g)
      <3>1. CASE g = h
        BY <1>1, <1>2, <1>4, <1>7, <1>8, <2>2, <3>1 DEF PoolState
      <3>2. CASE g # h
        BY <1>1, <1>4, <1>7, <2>1, <2>2, <3>2 DEF IInv, WarmPagesUnused, PoolState
      <3>3. QED
        BY <3>1, <3>2
    <2>3. QED
      BY <1>4, <2>2 DEF WarmPagesUnused, Distinct
  <1>10. CountCoversHolders'
    BY <1>1, <1>4, <1>5, <1>6, CountFrame DEF PoolState
  <1>11. MappedPagesHeld'
    BY <1>1, <1>5, <1>7 DEF IInv, MappedPagesHeld
  <1>12. DriverAccounting'
    BY <1>1, <1>2, <1>4 DEF IInv, DriverAccounting, PoolState
  <1>13. Abstract!Drop(h)
    <2>1. vmm.handle_refcounts[h] = 1 => \A a \in Addrs : vmm.mapped_pages[a] # h
      BY <1>1, <1>8 DEF Mapped
    <2>2. QED
      BY <1>2, <1>4, <2>1 DEF Abstract!Drop
  <1>14. QED
    BY <1>6, <1>7, <1>9, <1>10, <1>11, <1>12, <1>13
       DEF IInv, AbstractStep, Abstract!Next

\* The addresses that show a page.
Shown(v) == {a \in Addrs : v.mapped_pages[a] # NoHandle}

\* So does mapping one.
LEMMA MapStep ==
    ASSUME IInv, NEW a \in Addrs, NEW h \in Handles, Map(a, h)
    PROVE  IInv' /\ AbstractStep
  <1>1. vmm \in PoolState /\ held \in [Handles -> Nat] /\ held[h] > 0 /\ held' = held
    BY DEF IInv, TypeOK, Map
  <1>2. CASE ~CanMap(vmm, a, h)
    <2>1. UNCHANGED vars
      BY <1>1, <1>2 DEF Map, MapPage, vars
    <2>2. QED
      BY <2>1, StutterStep
  <1>3. CASE CanMap(vmm, a, h)
    <2>1. /\ vmm' \in PoolState
          /\ vmm'.handle_refcounts = vmm.handle_refcounts
          /\ vmm'.free_pages_pool = vmm.free_pages_pool
          /\ vmm'.mapped_pages = [vmm.mapped_pages EXCEPT ![a] = h]
          /\ vmm'.total_mapped = vmm.total_mapped + 1
          /\ vmm'.prefix_page_table = vmm.prefix_page_table
          /\ vmm'.driver = vmm.driver
      BY <1>1, <1>3, MapEffect DEF Map
    <2>2. Pooled(vmm') = Pooled(vmm) /\ Pooled(vmm) \subseteq Handles
      BY <1>1, <2>1 DEF Pooled, PoolState
    <2>3. vmm.handle_refcounts[h] > 0 /\ h \notin Pooled(vmm) /\ h \in vmm.driver
      BY <1>1, HeldIsCounted
    <2>4. \A g \in Handles : Mapped(vmm', g) => Mapped(vmm, g) \/ g = h
      BY <1>1, <2>1 DEF Mapped, PoolState
    <2>5. TypeOK'
      BY <1>1, <2>1 DEF TypeOK
    <2>6. WarmPagesUnused'
      BY <2>1, <2>2, <2>3, <2>4 DEF IInv, WarmPagesUnused
    <2>7. CountCoversHolders'
      BY <1>1, <2>1, <2>5, CountFrame DEF PoolState
    <2>8. MappedPagesHeld'
      BY <1>1, <2>4 DEF IInv, MappedPagesHeld
    <2>9. DriverAccounting'
      BY <2>1, <2>2 DEF IInv, DriverAccounting
    <2>10. MappedBytesExact'
      <3>1. Shown(vmm') = Shown(vmm) \cup {a} /\ a \notin Shown(vmm)
        BY <1>1, <1>3, <2>1, NoHandleAssumption DEF Shown, CanMap, PoolState
      <3>2. IsFiniteSet(Shown(vmm))
        BY SizesAssumption, FS_Subset DEF Shown
      <3>3. Cardinality(Shown(vmm')) = Cardinality(Shown(vmm)) + 1
        BY <3>1, <3>2, FS_AddElement
      <3>4. QED
        BY <2>1, <3>3 DEF IInv, MappedBytesExact, Shown
    <2>11. Abstract!Show(a, h)
      BY <1>3, <2>1, <2>3 DEF Abstract!Show, CanMap
    <2>12. QED
      BY <2>5, <2>6, <2>7, <2>8, <2>9, <2>10, <2>11
         DEF IInv, AbstractStep, Abstract!Next
  <1>4. QED
    BY <1>2, <1>3

\* So does unmapping one.
LEMMA UnmapStep ==
    ASSUME IInv, NEW a \in Addrs, Unmap(a)
    PROVE  IInv' /\ AbstractStep
  <1>1. vmm \in PoolState /\ held \in [Handles -> Nat] /\ held' = held
    BY DEF IInv, TypeOK, Unmap
  <1>2. CASE vmm.mapped_pages[a] = NoHandle
    <2>1. UNCHANGED vars
      BY <1>1, <1>2 DEF Unmap, UnmapPage, vars
    <2>2. QED
      BY <2>1, StutterStep
  <1>3. CASE vmm.mapped_pages[a] # NoHandle
    <2>1. /\ a \in Shown(vmm) /\ IsFiniteSet(Shown(vmm))
          /\ Cardinality(Shown(vmm)) \in Nat
      BY <1>3, SizesAssumption, FS_Subset, FS_CardinalityType DEF Shown
    <2>2. vmm.total_mapped = Cardinality(Shown(vmm)) /\ vmm.total_mapped > 0
      <3>1. vmm.total_mapped = Cardinality(Shown(vmm))
        BY DEF IInv, MappedBytesExact, Shown
      <3>2. Cardinality(Shown(vmm)) # 0
        BY <2>1, FS_EmptySet
      <3>3. QED
        BY <2>1, <3>1, <3>2
    <2>3. /\ vmm' \in PoolState
          /\ vmm'.handle_refcounts = vmm.handle_refcounts
          /\ vmm'.free_pages_pool = vmm.free_pages_pool
          /\ vmm'.mapped_pages = [vmm.mapped_pages EXCEPT ![a] = NoHandle]
          /\ vmm'.total_mapped = vmm.total_mapped - 1
          /\ vmm'.prefix_page_table = vmm.prefix_page_table
          /\ vmm'.driver = vmm.driver
      BY <1>1, <1>3, <2>2, UnmapEffect DEF Unmap
    <2>4. Pooled(vmm') = Pooled(vmm) /\ Pooled(vmm) \subseteq Handles
      BY <1>1, <2>3 DEF Pooled, PoolState
    <2>5. \A g \in Handles : Mapped(vmm', g) => Mapped(vmm, g)
      BY <1>1, <2>3, NoHandleAssumption DEF Mapped, PoolState
    <2>6. TypeOK'
      BY <1>1, <2>3 DEF TypeOK
    <2>7. WarmPagesUnused'
      BY <2>3, <2>4, <2>5 DEF IInv, WarmPagesUnused
    <2>8. CountCoversHolders'
      BY <1>1, <2>3, <2>6, CountFrame DEF PoolState
    <2>9. MappedPagesHeld'
      BY <1>1, <2>5 DEF IInv, MappedPagesHeld
    <2>10. DriverAccounting'
      BY <2>3, <2>4 DEF IInv, DriverAccounting
    <2>11. MappedBytesExact'
      <3>1. Shown(vmm') = Shown(vmm) \ {a}
        BY <1>1, <2>3 DEF Shown, PoolState
      <3>2. Cardinality(Shown(vmm')) = Cardinality(Shown(vmm)) - 1
        BY <2>1, <3>1, FS_RemoveElement
      <3>3. QED
        BY <2>2, <2>3, <3>2 DEF MappedBytesExact, Shown
    <2>12. Abstract!Hide(a)
      BY <2>3 DEF Abstract!Hide
    <2>13. QED
      BY <2>6, <2>7, <2>8, <2>9, <2>10, <2>11, <2>12
         DEF IInv, AbstractStep, Abstract!Next
  <1>4. QED
    BY <1>2, <1>3

\* So does a lookup of a prefix.
LEMMA GetPrefixStep ==
    ASSUME IInv, NEW k \in Hashes, GetPrefix(k)
    PROVE  IInv' /\ AbstractStep
  <1> DEFINE h == vmm.prefix_page_table[k]
  <1>1. /\ vmm \in PoolState /\ held \in [Handles -> Nat] /\ h # NoHandle
        /\ held' = [held EXCEPT ![h] = @ + 1]
    BY DEF IInv, TypeOK, GetPrefix
  <1>2. /\ vmm' \in PoolState
        /\ h \in Handles
        /\ vmm'.handle_refcounts = [vmm.handle_refcounts EXCEPT ![h] = @ + 1]
        /\ vmm'.free_pages_pool = vmm.free_pages_pool
        /\ vmm'.mapped_pages = vmm.mapped_pages
        /\ vmm'.total_mapped = vmm.total_mapped
        /\ vmm'.prefix_page_table = vmm.prefix_page_table
        /\ vmm'.driver = vmm.driver
    BY <1>1, GetPrefixEffect DEF GetPrefix
  <1>3. k \in Registrations(h)
    BY DEF Registrations
  <1> HIDE DEF h
  <1>4. vmm.handle_refcounts[h] > 0 /\ h \notin Pooled(vmm) /\ h \in vmm.driver
    BY <1>2, <1>3, HeldIsCounted
  <1>5. TypeOK'
    BY <1>1, <1>2 DEF TypeOK
  <1>6. /\ MappedBytesExact'
        /\ \A g \in Handles : Mapped(vmm', g) <=> Mapped(vmm, g)
    BY <1>2, BytesFrame
  <1>7. Pooled(vmm') = Pooled(vmm) /\ Pooled(vmm) \subseteq Handles
    BY <1>1, <1>2 DEF Pooled, PoolState
  <1>8. WarmPagesUnused'
    BY <1>1, <1>2, <1>4, <1>6, <1>7 DEF IInv, WarmPagesUnused, PoolState
  <1>9. CountCoversHolders'
    BY <1>1, <1>2, <1>5, CountFrame DEF PoolState
  <1>10. MappedPagesHeld'
    BY <1>1, <1>2, <1>6 DEF IInv, MappedPagesHeld
  <1>11. DriverAccounting'
    BY <1>1, <1>2, <1>4, <1>7 DEF IInv, DriverAccounting, PoolState
  <1>12. Abstract!Share(h)
    BY <1>2, <1>4 DEF Abstract!Share
  <1>13. QED
    BY <1>2, <1>5, <1>6, <1>8, <1>9, <1>10, <1>11, <1>12
       DEF IInv, AbstractStep, Abstract!Next

\* So does registering a prefix.
LEMMA RegisterPrefixStep ==
    ASSUME IInv, NEW k \in Hashes, NEW h \in Handles, RegisterPrefix(k, h)
    PROVE  IInv' /\ AbstractStep
  <1>1. /\ vmm \in PoolState /\ held \in [Handles -> Nat] /\ held[h] > 0
        /\ held' = held /\ vmm' = RegisterPrefixPage(vmm, k, h)
    BY DEF IInv, TypeOK, RegisterPrefix
  <1>2. /\ vmm' \in PoolState
        /\ vmm'.handle_refcounts = [vmm.handle_refcounts EXCEPT ![h] = @ + 1]
        /\ vmm'.free_pages_pool = vmm.free_pages_pool
        /\ vmm'.mapped_pages = vmm.mapped_pages
        /\ vmm'.total_mapped = vmm.total_mapped
        /\ vmm'.prefix_page_table = [vmm.prefix_page_table EXCEPT ![k] = h]
        /\ vmm'.driver = vmm.driver
    BY <1>1, RegisterPrefixEffect
  <1>3. vmm.handle_refcounts[h] > 0 /\ h \notin Pooled(vmm) /\ h \in vmm.driver
    BY <1>1, HeldIsCounted
  <1>4. TypeOK'
    BY <1>1, <1>2 DEF TypeOK
  <1>5. /\ MappedBytesExact'
        /\ \A g \in Handles : Mapped(vmm', g) <=> Mapped(vmm, g)
    BY <1>2, BytesFrame
  <1>6. Pooled(vmm') = Pooled(vmm) /\ Pooled(vmm) \subseteq Handles
    BY <1>1, <1>2 DEF Pooled, PoolState
  <1>7. WarmPagesUnused'
    BY <1>1, <1>2, <1>3, <1>5, <1>6 DEF IInv, WarmPagesUnused, PoolState
  <1>8. CountCoversHolders'
    <2> SUFFICES ASSUME NEW g \in Handles
                 PROVE  vmm'.handle_refcounts[g] >= held'[g] + Cardinality(Registrations(g)')
      BY DEF CountCoversHolders
    <2>1. /\ vmm.handle_refcounts[g] >= held[g] + Cardinality(Registrations(g))
          /\ vmm.handle_refcounts[g] \in Nat /\ held[g] \in Nat
      BY <1>1 DEF IInv, CountCoversHolders, PoolState
    <2>2. CASE g = h
      <3>1. Registrations(h)' = Registrations(h) \cup {k}
        BY <1>1, <1>2 DEF Registrations, PoolState
      <3>2. Cardinality(Registrations(h)') <= Cardinality(Registrations(h)) + 1
        BY <3>1, RegistrationsFinite, FS_AddElement
      <3>3. Cardinality(Registrations(h)') \in Nat
        BY <3>1, RegistrationsFinite, FS_AddElement, FS_CardinalityType
      <3>4. vmm'.handle_refcounts[h] = vmm.handle_refcounts[h] + 1
        BY <1>1, <1>2 DEF PoolState
      <3>5. Cardinality(Registrations(h)) \in Nat
        BY RegistrationsFinite
      <3>6. QED
        BY <1>1, <2>1, <2>2, <3>2, <3>3, <3>4, <3>5
    <2>3. CASE g # h
      <3>1. Registrations(g)' \subseteq Registrations(g)
        BY <1>1, <1>2, <2>3 DEF Registrations, PoolState
      <3>2. /\ Cardinality(Registrations(g)') <= Cardinality(Registrations(g))
            /\ Cardinality(Registrations(g)') \in Nat
        BY <3>1, RegistrationsFinite, FS_Subset, FS_CardinalityType
      <3>3. vmm'.handle_refcounts[g] = vmm.handle_refcounts[g]
        BY <1>1, <1>2, <2>3 DEF PoolState
      <3>4. QED
        BY <1>1, <2>1, <3>2, <3>3, RegistrationsFinite
    <2>4. QED
      BY <2>2, <2>3
  <1>9. MappedPagesHeld'
    BY <1>1, <1>5 DEF IInv, MappedPagesHeld
  <1>10. DriverAccounting'
    BY <1>1, <1>2, <1>3, <1>6 DEF IInv, DriverAccounting, PoolState
  <1>11. Abstract!Share(h)
    BY <1>2, <1>3 DEF Abstract!Share
  <1>12. QED
    BY <1>4, <1>5, <1>7, <1>8, <1>9, <1>10, <1>11
       DEF IInv, AbstractStep, Abstract!Next

\* So does evicting one.
LEMMA EvictPrefixStep ==
    ASSUME IInv, NEW k \in Hashes, EvictPrefix(k)
    PROVE  IInv' /\ AbstractStep
  <1>0. PICK h : h = vmm.prefix_page_table[k]
    OBVIOUS
  <1>1. vmm \in PoolState /\ held \in [Handles -> Nat] /\ held' = held
    BY DEF IInv, TypeOK, EvictPrefix
  <1>2. CASE h = NoHandle
    <2>1. [vmm.prefix_page_table EXCEPT ![k] = NoHandle] = vmm.prefix_page_table
      BY <1>0, <1>1, <1>2 DEF PoolState
    <2>2. vmm' = [vmm EXCEPT !.prefix_page_table = vmm.prefix_page_table]
      BY <1>0, <1>2, <2>1 DEF EvictPrefix, EvictPrefixPage, Counted
    <2>3. UNCHANGED vars
      BY <1>1, <2>2 DEF PoolState, vars
    <2>4. QED
      BY <2>3, StutterStep
  <1>3. CASE h # NoHandle
    <2>1. h \in Handles /\ k \in Registrations(h)
      BY <1>0, <1>1, <1>3 DEF Registrations, PoolState
    <2>2. vmm.handle_refcounts[h] > 0 /\ h \notin Pooled(vmm) /\ h \in vmm.driver
      BY <2>1, HeldIsCounted
    <2>3. /\ vmm' \in PoolState
          /\ vmm'.handle_refcounts = [vmm.handle_refcounts EXCEPT ![h] = @ - 1]
          /\ vmm'.free_pages_pool = vmm.free_pages_pool
          /\ vmm'.mapped_pages = vmm.mapped_pages
          /\ vmm'.total_mapped = vmm.total_mapped
          /\ vmm'.prefix_page_table = [vmm.prefix_page_table EXCEPT ![k] = NoHandle]
          /\ vmm'.driver = IF vmm.handle_refcounts[h] = 1 THEN vmm.driver \ {h}
                           ELSE vmm.driver
      BY <1>0, <1>1, <1>3, <2>2, EvictPrefixEffect DEF EvictPrefix
    <2>4. /\ \A g \in Handles : g # h => Registrations(g)' = Registrations(g)
          /\ Registrations(h)' = Registrations(h) \ {k}
      <3> DEFINE table == vmm.prefix_page_table
      <3>1. /\ vmm'.prefix_page_table = [table EXCEPT ![k] = NoHandle]
            /\ table \in [Hashes -> Handles \cup {NoHandle}] /\ table[k] = h
        BY <1>0, <1>1, <2>3 DEF PoolState
      <3>2. ASSUME NEW g \in Handles, g # h PROVE Registrations(g)' = Registrations(g)
        BY <3>1, <3>2, NoHandleAssumption DEF Registrations
      <3>3. Registrations(h)' = Registrations(h) \ {k}
        BY <2>1, <3>1, NoHandleAssumption DEF Registrations
      <3>4. QED
        BY <3>2, <3>3
    <2>5. Cardinality(Registrations(h)') = Cardinality(Registrations(h)) - 1
      BY <2>1, <2>4, RegistrationsFinite, FS_RemoveElement
    <2>6. vmm.handle_refcounts[h] = 1 => held[h] = 0
      <3>1. vmm.handle_refcounts[h] >= held[h] + Cardinality(Registrations(h))
        BY <2>1 DEF IInv, CountCoversHolders
      <3>2. Cardinality(Registrations(h)) # 0
        BY <2>1, RegistrationsFinite, FS_EmptySet
      <3>3. QED
        BY <1>1, <2>1, <3>1, <3>2, RegistrationsFinite
    <2>7. TypeOK'
      BY <1>1, <2>3 DEF TypeOK
    <2>8. /\ MappedBytesExact'
          /\ \A g \in Handles : Mapped(vmm', g) <=> Mapped(vmm, g)
      BY <2>3, BytesFrame
    <2>9. Pooled(vmm') = Pooled(vmm) /\ Pooled(vmm) \subseteq Handles
      BY <1>1, <2>3 DEF Pooled, PoolState
    <2>10. WarmPagesUnused'
      BY <1>1, <2>1, <2>2, <2>3, <2>8, <2>9 DEF IInv, WarmPagesUnused, PoolState
    <2>11. CountCoversHolders'
      <3> SUFFICES ASSUME NEW g \in Handles
                   PROVE  vmm'.handle_refcounts[g]
                            >= held'[g] + Cardinality(Registrations(g)')
        BY DEF CountCoversHolders
      <3>1. /\ vmm.handle_refcounts[g] >= held[g] + Cardinality(Registrations(g))
            /\ vmm.handle_refcounts[g] \in Nat /\ held[g] \in Nat
        BY <1>1 DEF IInv, CountCoversHolders, PoolState
      <3>2. CASE g = h
        <4>1. vmm'.handle_refcounts[h] = vmm.handle_refcounts[h] - 1
          BY <1>1, <2>1, <2>3 DEF PoolState
        <4>2. Cardinality(Registrations(h)) \in Nat
          BY RegistrationsFinite
        <4>3. QED
          BY <1>1, <2>5, <3>1, <3>2, <4>1, <4>2
      <3>3. CASE g # h
        BY <1>1, <2>3, <2>4, <3>1, <3>3 DEF PoolState
      <3>4. QED
        BY <3>2, <3>3
    <2>12. MappedPagesHeld'
      BY <1>1, <2>8 DEF IInv, MappedPagesHeld
    <2>13. DriverAccounting'
      BY <1>1, <2>1, <2>2, <2>3, <2>9 DEF IInv, DriverAccounting, PoolState
    <2>14. Abstract!Drop(h)
      <3>1. vmm.handle_refcounts[h] = 1 => \A a \in Addrs : vmm.mapped_pages[a] # h
        BY <1>1, <2>1, <2>6 DEF IInv, MappedPagesHeld, Mapped
      <3>2. QED
        BY <2>2, <2>3, <3>1 DEF Abstract!Drop
    <2>15. QED
      BY <2>1, <2>7, <2>8, <2>10, <2>11, <2>12, <2>13, <2>14
         DEF IInv, AbstractStep, Abstract!Next
  <1>4. QED
    BY <1>2, <1>3

\* The steps that only create and free pages nobody refers to.
LEMMA ResizeStep ==
    ASSUME IInv, vmm' \in PoolState, held' = held,
           vmm'.handle_refcounts = vmm.handle_refcounts,
           vmm'.mapped_pages = vmm.mapped_pages,
           vmm'.total_mapped = vmm.total_mapped,
           vmm'.prefix_page_table = vmm.prefix_page_table,
           vmm'.driver = Pooled(vmm') \cup {h \in Handles : vmm.handle_refcounts[h] > 0},
           Distinct(vmm'.free_pages_pool),
           \A h \in Pooled(vmm') : vmm.handle_refcounts[h] = 0
    PROVE  IInv' /\ AbstractStep
  <1>1. vmm \in PoolState /\ held \in [Handles -> Nat]
    BY DEF IInv, TypeOK
  <1>2. TypeOK'
    BY <1>1 DEF TypeOK
  <1>3. /\ MappedBytesExact'
        /\ \A g \in Handles : Mapped(vmm', g) <=> Mapped(vmm, g)
    BY BytesFrame
  <1>4. Pooled(vmm') \subseteq Handles
    BY DEF Pooled, PoolState
  <1>5. WarmPagesUnused'
    <2> SUFFICES ASSUME NEW h \in Pooled(vmm')
                 PROVE  h \in vmm'.driver /\ vmm'.handle_refcounts[h] = 0
                        /\ ~Mapped(vmm', h)
      BY DEF WarmPagesUnused, Distinct
    <2>1. h \in Handles /\ vmm.handle_refcounts[h] = 0
      BY <1>4
    <2>2. QED
      BY <1>3, <2>1, UncountedIsFree
  <1>6. CountCoversHolders'
    BY <1>1, <1>2, CountFrame DEF PoolState
  <1>7. MappedPagesHeld'
    BY <1>3 DEF IInv, MappedPagesHeld
  <1>8. DriverAccounting'
    BY DEF DriverAccounting
  <1>9. Abstract!Resize
    <2>1. vmm'.driver \in SUBSET Handles
      BY DEF PoolState
    <2>2. \A h \in Handles : vmm.handle_refcounts[h] > 0 => h \in vmm'.driver /\ h \in vmm.driver
      BY DEF IInv, DriverAccounting
    <2>3. QED
      BY <2>1, <2>2 DEF Abstract!Resize
  <1>10. QED
    BY <1>2, <1>3, <1>5, <1>6, <1>7, <1>8, <1>9 DEF IInv, AbstractStep, Abstract!Next

\* So does configuring the pool.
LEMMA ConfigureStep ==
    ASSUME IInv, NEW warm \in WarmSizes, NEW prealloc \in PreallocSizes,
           Configure(warm, prealloc)
    PROVE  IInv' /\ AbstractStep
  <1>1. PICK new \in NewPages(prealloc) :
            vmm' = ConfigurePool(vmm, warm, prealloc, new) /\ held' = held
    BY DEF Configure
  <1>2. vmm \in PoolState /\ warm \in Nat /\ prealloc \in Nat
    BY SizesAssumption DEF IInv, TypeOK
  <1>3. Distinct(new) /\ new \in Seq(Handles) /\ Elements(new) \subseteq Creatable(vmm)
    <2>1. Distinct(new)
      BY DEF NewPages, Distinct
    <2>2. CASE new = <<>>
      BY <2>1, <2>2 DEF Elements
    <2>3. CASE new # <<>>
      <3>1. PICK n \in 1..prealloc : new \in [1..n -> Creatable(vmm)]
        <4>1. new \in {<<>>} \cup UNION {[1..n -> Creatable(vmm)] : n \in 1..prealloc}
          BY DEF NewPages
        <4>2. \E F \in {[1..n -> Creatable(vmm)] : n \in 1..prealloc} : new \in F
          BY <2>3, <4>1, Zenon
        <4>3. QED
          BY <4>2, Zenon
      <3>2. Creatable(vmm) \subseteq Handles /\ n \in Nat
        BY <1>2 DEF Creatable
      <3>3. new \in Seq(Handles)
        BY <3>1, <3>2
      <3>4. QED
        BY <2>1, <3>1, <3>3 DEF Elements
    <2>4. QED
      BY <2>1, <2>2, <2>3
  <1>4. Pooled(vmm) \cap Elements(new) = {} /\ Distinct(vmm.free_pages_pool)
    BY <1>3 DEF IInv, WarmPagesUnused, Creatable, Distinct
  <1>5. /\ vmm' \in PoolState
        /\ vmm'.handle_refcounts = vmm.handle_refcounts
        /\ Distinct(vmm'.free_pages_pool)
        /\ Pooled(vmm') = Pooled(vmm) \cup Elements(new)
        /\ vmm'.mapped_pages = vmm.mapped_pages
        /\ vmm'.total_mapped = vmm.total_mapped
        /\ vmm'.prefix_page_table = vmm.prefix_page_table
        /\ vmm'.driver = vmm.driver \cup Elements(new)
    BY <1>1, <1>2, <1>3, <1>4, ConfigureEffect
  <1>6. \A h \in Pooled(vmm') : vmm.handle_refcounts[h] = 0
    <2>1. \A h \in Creatable(vmm) : vmm.handle_refcounts[h] = 0
      BY <1>2 DEF IInv, DriverAccounting, Creatable, PoolState
    <2>2. QED
      BY <1>3, <1>5, <2>1 DEF IInv, WarmPagesUnused
  <1>7. vmm'.driver = Pooled(vmm') \cup {h \in Handles : vmm.handle_refcounts[h] > 0}
    BY <1>5 DEF IInv, DriverAccounting
  <1>8. QED
    BY <1>1, <1>5, <1>6, <1>7, ResizeStep

\* So does draining it.
LEMMA DrainStep ==
    ASSUME IInv, Drain
    PROVE  IInv' /\ AbstractStep
  <1>1. vmm \in PoolState /\ held' = held
    BY DEF IInv, TypeOK, Drain
  <1>2. /\ vmm' \in PoolState
        /\ vmm'.handle_refcounts = vmm.handle_refcounts
        /\ vmm'.free_pages_pool = <<>>
        /\ vmm'.mapped_pages = vmm.mapped_pages
        /\ vmm'.total_mapped = vmm.total_mapped
        /\ vmm'.prefix_page_table = vmm.prefix_page_table
        /\ vmm'.driver = vmm.driver \ Pooled(vmm)
    BY <1>1, DrainEffect DEF Drain
  <1>3. Pooled(vmm') = {} /\ Distinct(vmm'.free_pages_pool)
    BY <1>2 DEF Pooled, Distinct
  <1>4. vmm'.driver = Pooled(vmm') \cup {h \in Handles : vmm.handle_refcounts[h] > 0}
    BY <1>2, <1>3 DEF IInv, DriverAccounting, WarmPagesUnused
  <1>5. QED
    BY <1>1, <1>2, <1>3, <1>4, ResizeStep

\* So does resetting the manager.
LEMMA ResetStep ==
    ASSUME IInv, ResetAll
    PROVE  IInv' /\ AbstractStep
  <1>1. vmm \in PoolState /\ held' = [h \in Handles |-> 0]
    BY DEF IInv, TypeOK, ResetAll
  <1>2. /\ vmm' \in PoolState
        /\ vmm'.handle_refcounts = [h \in Handles |-> 0]
        /\ vmm'.free_pages_pool = <<>>
        /\ vmm'.mapped_pages = [a \in Addrs |-> NoHandle]
        /\ vmm'.total_mapped = 0
        /\ vmm'.prefix_page_table = [k \in Hashes |-> NoHandle]
        /\ vmm'.driver = {}
    BY <1>1, ResetEffect DEF ResetAll, IInv, DriverAccounting
  <1>3. Pooled(vmm') = {} /\ \A h \in Handles : ~Mapped(vmm', h)
    BY <1>2, NoHandleAssumption DEF Pooled, Mapped
  <1>4. CountCoversHolders'
    <2> SUFFICES ASSUME NEW h \in Handles
                 PROVE  vmm'.handle_refcounts[h] >= held'[h] + Cardinality(Registrations(h)')
      BY DEF CountCoversHolders
    <2>1. Registrations(h)' = {}
      BY <1>2, NoHandleAssumption DEF Registrations
    <2>2. QED
      BY <1>1, <1>2, <2>1, FS_EmptySet
  <1>5. MappedBytesExact'
    BY <1>2, FS_EmptySet DEF MappedBytesExact
  <1>6. TypeOK' /\ WarmPagesUnused' /\ MappedPagesHeld' /\ DriverAccounting'
    BY <1>1, <1>2, <1>3 DEF TypeOK, WarmPagesUnused, MappedPagesHeld, DriverAccounting
  <1>7. Abstract!Clear
    BY <1>2 DEF Abstract!Clear
  <1>8. QED
    BY <1>4, <1>5, <1>6, <1>7 DEF IInv, AbstractStep, Abstract!Next

----------------------------------------------------------------------------
\* Every step keeps the invariant and is a step of the abstract allocator.
LEMMA NextStep ==
    ASSUME IInv, [Next]_vars
    PROVE  IInv' /\ AbstractStep
  <1>1. CASE Next
    BY <1>1, AllocStep, DrainStep, ResetStep, RetainStep, ReleaseStep, UnmapStep,
       MapStep, GetPrefixStep, EvictPrefixStep, RegisterPrefixStep, ConfigureStep
       DEF Next
  <1>2. CASE UNCHANGED vars
    BY <1>2, StutterStep
  <1>3. QED
    BY <1>1, <1>2

(***************************************************************************)
(* The inductive invariant holds in every reachable state.                 *)
(***************************************************************************)
THEOREM InductiveInvariant == Spec => []IInv
  <1>1. Init => IInv
    BY InitIInv
  <1>2. IInv /\ [Next]_vars => IInv'
    BY NextStep
  <1>3. QED
    BY <1>1, <1>2, PTL DEF Spec

(***************************************************************************)
(* The state keeps its type: in particular no reference count, and not the *)
(* number of mapped bytes, is ever decremented below zero.                 *)
(***************************************************************************)
THEOREM TypeCorrect == Spec => []TypeOK
  <1>1. IInv => TypeOK
    BY DEF IInv
  <1>2. QED
    BY <1>1, InductiveInvariant, PTL

(***************************************************************************)
(* alloc_physical_page never hands out a page that is in use: what is in   *)
(* the warm pool is there once, and nobody refers to it or sees it.        *)
(***************************************************************************)
THEOREM WarmPoolSafe == Spec => []WarmPagesUnused
  <1>1. IInv => WarmPagesUnused
    BY DEF IInv
  <1>2. QED
    BY <1>1, InductiveInvariant, PTL

(***************************************************************************)
(* No release or eviction frees a page that a client or the prefix table   *)
(* still refers to.                                                        *)
(***************************************************************************)
THEOREM CountsCover == Spec => []CountCoversHolders
  <1>1. IInv => CountCoversHolders
    BY DEF IInv
  <1>2. QED
    BY <1>1, InductiveInvariant, PTL

\* The memory behind a mapping stays allocated for as long as it is mapped.
THEOREM MappingsBacked == Spec => []MappedPagesCounted
  <1>1. IInv => MappedPagesCounted
    BY HeldIsCounted DEF IInv, MappedPagesHeld, MappedPagesCounted
  <1>2. QED
    BY <1>1, InductiveInvariant, PTL

\* No page is lost to the driver and none is given back twice.
THEOREM NoPageLost == Spec => []DriverAccounting
  <1>1. IInv => DriverAccounting
    BY DEF IInv
  <1>2. QED
    BY <1>1, InductiveInvariant, PTL

\* total_mapped_physical_bytes counts the mapped addresses.
THEOREM MappedBytesCorrect == Spec => []MappedBytesExact
  <1>1. IInv => MappedBytesExact
    BY DEF IInv
  <1>2. QED
    BY <1>1, InductiveInvariant, PTL

(***************************************************************************)
(* VMMBlockManager implements the abstract allocator of shared pages.      *)
(***************************************************************************)
THEOREM Refinement == Spec => ImplementsPhysicalPages
  <1>1. Init => Abstract!Init
    BY InitIInv
  <1>2. IInv /\ [Next]_vars => [Abstract!Next]_(Abstract!pageVars)
    BY NextStep DEF AbstractStep
  <1>3. QED
    BY <1>1, <1>2, InductiveInvariant, PTL
       DEF Spec, ImplementsPhysicalPages, Abstract!Spec
=============================================================================
