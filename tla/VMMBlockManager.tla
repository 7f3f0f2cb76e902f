-------------------------- MODULE VMMBlockManager --------------------------
(***************************************************************************)
(* VMMBlockManager under clients that keep to its contract: a client       *)
(* releases only references it was given, maps and registers only pages it *)
(* holds a reference to, and unmaps a page before it gives up the last     *)
(* reference clients have to it.  "held" counts those references; it is    *)
(* the clients' knowledge, not state of the manager.  The calls of several *)
(* clients come in any order; each is one step, as all are made from the   *)
(* thread that runs the executor.                                          *)
(***************************************************************************)
EXTENDS VMMPool, FiniteSets

CONSTANTS
    WarmSizes,     \* capacities passed to configure_pool
    PreallocSizes, \* pre-allocations passed to configure_pool
    DefaultWarm,   \* max_warm_pages after construction
    MaxRefs        \* bound on the references to one page, for TLC

ASSUME SizesAssumption ==
    /\ IsFiniteSet(Hashes) /\ IsFiniteSet(Addrs)
    /\ WarmSizes \subseteq Nat
    /\ PreallocSizes \subseteq Nat
    /\ DefaultWarm \in Nat

VARIABLES
    vmm,  \* the manager's state
    held  \* held[h]: the references to h that clients hold

vars == <<vmm, held>>

Init ==
    /\ vmm = EmptyPool(DefaultWarm)
    /\ held = [h \in Handles |-> 0]

----------------------------------------------------------------------------
\* A client asks for a page; cuMemCreate may fail (fresh = NoHandle).
Alloc ==
    \E fresh \in Creatable(vmm) \cup {NoHandle} :
        LET h == AllocatedHandle(vmm, fresh) IN
        /\ vmm' = AllocPhysicalPage(vmm, fresh)
        /\ held' = IF h = NoHandle THEN held ELSE [held EXCEPT ![h] = @ + 1]

Retain(h) ==
    /\ held[h] > 0 /\ vmm.handle_refcounts[h] < MaxRefs
    /\ vmm' = RetainPhysicalPage(vmm, h)
    /\ held' = [held EXCEPT ![h] = @ + 1]

ReleaseRef(h) ==
    /\ held[h] > 0
    /\ held[h] = 1 => ~Mapped(vmm, h)
    /\ vmm' = ReleasePhysicalPage(vmm, h)
    /\ held' = [held EXCEPT ![h] = @ - 1]

Map(a, h) ==
    /\ held[h] > 0
    /\ vmm' = MapPage(vmm, a, h)
    /\ UNCHANGED held

Unmap(a) ==
    /\ vmm' = UnmapPage(vmm, a)
    /\ UNCHANGED held

GetPrefix(k) ==
    LET h == vmm.prefix_page_table[k] IN
    /\ h # NoHandle /\ vmm.handle_refcounts[h] < MaxRefs
    /\ vmm' = GetPrefixPage(vmm, k)
    /\ held' = [held EXCEPT ![h] = @ + 1]

RegisterPrefix(k, h) ==
    /\ held[h] > 0 /\ vmm.handle_refcounts[h] < MaxRefs
    /\ vmm' = RegisterPrefixPage(vmm, k, h)
    /\ UNCHANGED held

EvictPrefix(k) ==
    /\ vmm' = EvictPrefixPage(vmm, k)
    /\ UNCHANGED held

\* The pages configure_pool can create before it has "prealloc" pooled or
\* cuMemCreate fails.
NewPages(prealloc) ==
    {new \in {<<>>} \cup UNION {[1..n -> Creatable(vmm)] : n \in 1..prealloc} :
        /\ new # <<>> => Len(vmm.free_pages_pool) + Len(new) <= prealloc
        /\ \A i, j \in DOMAIN new : new[i] = new[j] => i = j}

Configure(warm, prealloc) ==
    \E new \in NewPages(prealloc) :
        /\ vmm' = ConfigurePool(vmm, warm, prealloc, new)
        /\ UNCHANGED held

Drain ==
    /\ vmm' = DrainWarmPool(vmm)
    /\ UNCHANGED held

\* reset() ends every client's references as well.
ResetAll ==
    /\ vmm' = Reset(vmm)
    /\ held' = [h \in Handles |-> 0]

Next ==
    \/ Alloc \/ Drain \/ ResetAll
    \/ \E h \in Handles : Retain(h) \/ ReleaseRef(h)
    \/ \E a \in Addrs : Unmap(a) \/ \E h \in Handles : Map(a, h)
    \/ \E k \in Hashes :
          GetPrefix(k) \/ EvictPrefix(k) \/ \E h \in Handles : RegisterPrefix(k, h)
    \/ \E warm \in WarmSizes, prealloc \in PreallocSizes : Configure(warm, prealloc)

Spec == Init /\ [][Next]_vars

----------------------------------------------------------------------------
\* The manager's state and the clients' counts have the declared shapes.
TypeOK ==
    /\ vmm \in PoolState
    /\ held \in [Handles -> Nat]

\* The prefix table entries that name page h.
Registrations(h) == {k \in Hashes : vmm.prefix_page_table[k] = h}

(***************************************************************************)
(* A page in the warm pool is there once, is held by the driver, has no    *)
(* reference count and is mapped nowhere: otherwise alloc_physical_page    *)
(* (vmm_pool.cu:190) would hand the same memory to two clients.            *)
(***************************************************************************)
WarmPagesUnused ==
    LET pool == vmm.free_pages_pool IN
    /\ \A i, j \in DOMAIN pool : pool[i] = pool[j] => i = j
    /\ \A h \in Pooled(vmm) :
          h \in vmm.driver /\ vmm.handle_refcounts[h] = 0 /\ ~Mapped(vmm, h)

(***************************************************************************)
(* The count of a page is never below the references its clients hold,     *)
(* plus one for every entry of the prefix table that names it: release and *)
(* evict (vmm_pool.cu:224, 314) cannot free a page somebody still uses.    *)
(***************************************************************************)
CountCoversHolders ==
    \A h \in Handles :
        vmm.handle_refcounts[h] >= held[h] + Cardinality(Registrations(h))

(***************************************************************************)
(* An address shows only pages that are counted, so that no operation can  *)
(* free or recycle the memory behind a mapping (vmm_pool.cu:224, 314).     *)
(***************************************************************************)
MappedPagesCounted ==
    \A h \in Handles : Mapped(vmm, h) => vmm.handle_refcounts[h] > 0

(***************************************************************************)
(* The driver holds exactly the counted and the pooled pages: no page is   *)
(* lost without cuMemRelease, and none is released twice, by release,      *)
(* evict, drain or reset (vmm_pool.cu:59-69, 231, 316, 375).               *)
(***************************************************************************)
DriverAccounting ==
    vmm.driver = Pooled(vmm) \cup {h \in Handles : vmm.handle_refcounts[h] > 0}

(***************************************************************************)
(* total_mapped_physical_bytes, the number the tests read as "VRAM leak",  *)
(* is the number of mapped addresses (vmm_pool.cu:262, 280).               *)
(***************************************************************************)
MappedBytesExact ==
    vmm.total_mapped = Cardinality({a \in Addrs : vmm.mapped_pages[a] # NoHandle})

(***************************************************************************)
(* The manager implements the abstract page allocator: pages go to one     *)
(* client at a time and stay backed by memory while they are referenced.   *)
(***************************************************************************)
Abstract == INSTANCE PhysicalPages WITH
    Pages   <- Handles,
    Nothing <- NoHandle,
    Places  <- Addrs,
    refs    <- vmm.handle_refcounts,
    backed  <- vmm.driver,
    shows   <- vmm.mapped_pages

ImplementsPhysicalPages == Abstract!Spec
=============================================================================
