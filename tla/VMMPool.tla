------------------------------ MODULE VMMPool ------------------------------
(***************************************************************************)
(* The operations of VMMBlockManager (runtime/src/vmm_pool.cu) as          *)
(* operators on its state.  The manager hands out physical GPU pages, each *)
(* named by the handle cuMemCreate returned for it, counts the references  *)
(* to each handle, keeps released pages in a warm pool, maps pages at      *)
(* addresses of reserved windows, and keeps a table of shared prefix       *)
(* pages.  Every operation runs under the manager's mutex, so each is one  *)
(* step from one state record to the next.                                 *)
(*                                                                         *)
(* A record v has the fields                                               *)
(*   handle_refcounts    handle -> count; 0 stands for "no entry": the     *)
(*                       code erases an entry that reaches zero            *)
(*   free_pages_pool     the warm pool, a stack whose top is at the end    *)
(*   mapped_pages        address -> handle mapped there, or NoHandle       *)
(*   total_mapped        total_mapped_bytes in pages                       *)
(*   prefix_page_table   prefix hash -> handle, or NoHandle                *)
(*   max_warm_pages      the capacity of the warm pool                     *)
(*   prealloc_pages      the pages configure_pool was asked to create      *)
(*   driver              the handles the CUDA driver holds: created by     *)
(*                       cuMemCreate and not given to cuMemRelease         *)
(***************************************************************************)
EXTENDS Naturals, Sequences

CONSTANTS
    Handles,   \* handles of physical pages the driver can create
    NoHandle,  \* the handle 0: "no page"
    Addrs,     \* page-aligned virtual addresses of the reserved windows
    Hashes     \* keys of the prefix page table

ASSUME NoHandleAssumption == NoHandle \notin Handles

PoolState ==
    [handle_refcounts  : [Handles -> Nat],
     free_pages_pool   : Seq(Handles),
     mapped_pages      : [Addrs -> Handles \cup {NoHandle}],
     total_mapped      : Nat,
     prefix_page_table : [Hashes -> Handles \cup {NoHandle}],
     max_warm_pages    : Nat,
     prealloc_pages    : Nat,
     driver            : SUBSET Handles]

\* The state after init(): nothing allocated, a warm pool of "warm" pages.
EmptyPool(warm) ==
    [handle_refcounts  |-> [h \in Handles |-> 0],
     free_pages_pool   |-> <<>>,
     mapped_pages      |-> [a \in Addrs |-> NoHandle],
     total_mapped      |-> 0,
     prefix_page_table |-> [k \in Hashes |-> NoHandle],
     max_warm_pages    |-> warm,
     prealloc_pages    |-> 0,
     driver            |-> {}]

Mapped(v, h) == \E a \in Addrs : v.mapped_pages[a] = h

(***************************************************************************)
(* The CUDA driver.  A handle names one physical allocation, so a new      *)
(* handle is one the driver does not hold and whose memory no mapping      *)
(* keeps alive (cuMemRelease frees the memory once it is unmapped too).    *)
(***************************************************************************)
Creatable(v) == {h \in Handles : h \notin v.driver /\ ~Mapped(v, h)}

Release(v, h) == [v EXCEPT !.driver = @ \ {h}]

(***************************************************************************)
(* alloc_physical_page: the most recently pooled page, or else the page    *)
(* "fresh" that cuMemCreate makes.  fresh = NoHandle: cuMemCreate failed.  *)
(***************************************************************************)
AllocatedHandle(v, fresh) ==
    IF v.free_pages_pool = <<>> THEN fresh
    ELSE v.free_pages_pool[Len(v.free_pages_pool)]

\* Mutant: the page is taken from the top of the pool but not removed.
AllocWithoutPop(v, fresh) ==
    IF AllocatedHandle(v, fresh) = NoHandle THEN v
    ELSE [v EXCEPT !.driver = @ \cup {AllocatedHandle(v, fresh)},
                   !.handle_refcounts[AllocatedHandle(v, fresh)] = 1]

AllocPhysicalPage(v, fresh) ==
    IF v.free_pages_pool # <<>>
    THEN [v EXCEPT !.free_pages_pool = SubSeq(@, 1, Len(@) - 1),
                   !.handle_refcounts[AllocatedHandle(v, fresh)] = 1]
    ELSE IF fresh = NoHandle THEN v
    ELSE [v EXCEPT !.driver = @ \cup {fresh},
                   !.handle_refcounts[fresh] = 1]

\* retain_physical_page: a handle without an entry is left alone.
Counted(v, h) == h # NoHandle /\ v.handle_refcounts[h] > 0

RetainPhysicalPage(v, h) ==
    IF Counted(v, h) THEN [v EXCEPT !.handle_refcounts[h] = @ + 1] ELSE v

\* release_physical_page: the last reference recycles the page, or gives it
\* back to the driver when the warm pool is full.
\*
\* Mutants: the page is given back while one reference is left; a handle
\* without an entry is decremented.
ReleaseOneEarly(v, h) ==
    IF ~Counted(v, h) THEN v
    ELSE LET w == [v EXCEPT !.handle_refcounts[h] = @ - 1] IN
         IF w.handle_refcounts[h] > 1 THEN w ELSE Release(w, h)

ReleaseUncounted(v, h) ==
    LET w == [v EXCEPT !.handle_refcounts[h] = @ - 1] IN
    IF v.handle_refcounts[h] = 1 THEN Release(w, h) ELSE w

ReleasePhysicalPage(v, h) ==
    IF ~Counted(v, h) THEN v
    ELSE LET w == [v EXCEPT !.handle_refcounts[h] = @ - 1] IN
         IF w.handle_refcounts[h] > 0 THEN w
         ELSE IF Len(v.free_pages_pool) < v.max_warm_pages
              THEN [w EXCEPT !.free_pages_pool = Append(@, h)]
              ELSE Release(w, h)

(***************************************************************************)
(* map_page.  cuMemMap refuses an address that is mapped already and a     *)
(* handle the driver does not hold; the caller learns of it only from the  *)
(* result.  A cuMemSetAccess that fails undoes the mapping, so a failed    *)
(* map_page leaves the state as it was.                                    *)
(***************************************************************************)
CanMap(v, a, h) ==
    h \in v.driver /\ v.mapped_pages[a] = NoHandle

MapPage(v, a, h) ==
    IF CanMap(v, a, h)
    THEN [v EXCEPT !.mapped_pages[a] = h, !.total_mapped = @ + 1]
    ELSE v

\* unmap_page: nothing happens at an address that has no mapping.
\* Mutant: the bytes are subtracted before the mapping is looked up.
UnmapAlwaysSubtracts(v, a) ==
    [v EXCEPT !.mapped_pages[a] = NoHandle, !.total_mapped = @ - 1]

UnmapPage(v, a) ==
    IF v.mapped_pages[a] = NoHandle THEN v
    ELSE [v EXCEPT !.mapped_pages[a] = NoHandle, !.total_mapped = @ - 1]

(***************************************************************************)
(* The prefix page table.  get_prefix_page adds a reference for its        *)
(* caller; register_prefix_page adds one for the table, also when it       *)
(* replaces an entry, whose reference it does not give back;               *)
(* evict_prefix_page releases the table's reference and, with the last     *)
(* one, the page, which never goes to the warm pool.                       *)
(***************************************************************************)
GetPrefixPage(v, k) ==
    LET h == v.prefix_page_table[k] IN
    IF h = NoHandle THEN v
    ELSE [v EXCEPT !.handle_refcounts[h] = @ + 1]

\* Mutant: the table takes no reference of its own.
RegisterWithoutRetain(v, k, h) == [v EXCEPT !.prefix_page_table[k] = h]

RegisterPrefixPage(v, k, h) ==
    [v EXCEPT !.prefix_page_table[k] = h, !.handle_refcounts[h] = @ + 1]

\* Mutant: the last reference goes, but cuMemRelease is not called.
EvictWithoutRelease(v, k) ==
    LET h == v.prefix_page_table[k]
        w == [v EXCEPT !.prefix_page_table[k] = NoHandle]
    IN  IF Counted(v, h) THEN [w EXCEPT !.handle_refcounts[h] = @ - 1] ELSE w

EvictPrefixPage(v, k) ==
    LET h == v.prefix_page_table[k]
        w == [v EXCEPT !.prefix_page_table[k] = NoHandle]
    IN  IF ~Counted(v, h) THEN w
        ELSE IF v.handle_refcounts[h] > 1
             THEN [w EXCEPT !.handle_refcounts[h] = @ - 1]
             ELSE Release([w EXCEPT !.handle_refcounts[h] = 0], h)

(***************************************************************************)
(* configure_pool: new capacities, then cuMemCreate until the pool has     *)
(* prealloc pages or the driver fails; "new" are the pages it created.     *)
(* A pool that is larger than the new capacity is not trimmed.             *)
(***************************************************************************)
ConfigurePool(v, warm, prealloc, new) ==
    [v EXCEPT !.max_warm_pages = warm,
              !.prealloc_pages = prealloc,
              !.free_pages_pool = @ \o new,
              !.driver = @ \cup {new[i] : i \in DOMAIN new}]

Pooled(v) == {v.free_pages_pool[i] : i \in DOMAIN v.free_pages_pool}

DrainWarmPool(v) ==
    [v EXCEPT !.driver = @ \ Pooled(v), !.free_pages_pool = <<>>]

\* reset: unmap everything, release the pool and every counted handle.
Reset(v) ==
    [EmptyPool(v.max_warm_pages) EXCEPT
        !.prealloc_pages = v.prealloc_pages,
        !.driver = v.driver \ (Pooled(v) \cup
                      {h \in Handles : v.handle_refcounts[h] > 0})]
=============================================================================
