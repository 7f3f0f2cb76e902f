------------------------------ MODULE PagedKV ------------------------------
(***************************************************************************)
(* The paged KV cache of ModelExecutor (runtime/src/executor.cpp:738-920)  *)
(* as operators on its state: every batch slot owns a window of virtual    *)
(* addresses, and the executor maps physical pages of its VMMBlockManager  *)
(* there.  The record kv has the fields                                    *)
(*   vmm          the manager's state                                      *)
(*   paged_slots  slot -> [active, pages], where pages is the bookkeeping  *)
(*                of what was mapped at the slot's first addresses         *)
(*                                                                         *)
(* One page of the model stands for the K and V pages with the same index  *)
(* of all attention layers: the code allocates, maps, shares and releases  *)
(* these together, in loops over the layers.  prefix_hash is modelled as   *)
(* always empty, as the scheduler passes it: nothing registers pages in    *)
(* the prefix table of the executor's own manager.                         *)
(***************************************************************************)
EXTENDS VMMPool, Integers

CONSTANTS
    MaxBatch,  \* paged_max_batch_, the number of slots
    SlotPages  \* slot_bytes / page_size, the pages of a slot's window

Slots == 0..(MaxBatch - 1)

ASSUME PagedAssumption ==
    /\ MaxBatch \in Nat \ {0}
    /\ SlotPages \in Nat \ {0}
    /\ Addrs = Slots \X (0..(SlotPages - 1))

FreeSlotRecord == [active |-> FALSE, pages |-> <<>>]

\* init_paged_kv_cache, and configure_vmm_pool before the first request.
InitialKV(warm) ==
    [vmm |-> EmptyPool(warm), paged_slots |-> [s \in Slots |-> FreeSlotRecord]]

\* The page cuMemCreate makes if it is asked for one: memory runs out when
\* every page is in use, and only then.
NewPage(v) ==
    IF Creatable(v) = {} THEN NoHandle ELSE CHOOSE h \in Creatable(v) : TRUE

\* is_paged_slot_allocated
IsAllocated(kv, s) == kv.paged_slots[s].active

\* paged_kv_alloc_slot: pages that are mapped already stay where they are.
AllocSlot(kv, s) == [kv EXCEPT !.paged_slots[s].active = TRUE]

(***************************************************************************)
(* A for loop: step n, for n = 1, ..., len, makes step(x, n) of the state  *)
(* x that the steps before it left.                                        *)
(***************************************************************************)
Loop(len, step(_, _), start) ==
    LET after[n \in 0..len] == IF n = 0 THEN start ELSE step(after[n - 1], n)
    IN  after[len]

\* Mutant: a page from the warm pool is taken for one that is mapped already.
AddPageUnlessWarm(kv, s) ==
    LET h == AllocatedHandle(kv.vmm, NewPage(kv.vmm))
        v == AllocPhysicalPage(kv.vmm, NewPage(kv.vmm))
    IN  [vmm |-> IF kv.vmm.free_pages_pool # <<>> THEN v
                 ELSE MapPage(v, <<s, Len(kv.paged_slots[s].pages)>>, h),
         paged_slots |-> [kv.paged_slots EXCEPT ![s].pages = Append(@, h)]]

(***************************************************************************)
(* paged_kv_ensure_tokens maps a new page at every address of the window   *)
(* that has none, whatever number of tokens is asked for.  Neither a       *)
(* failed allocation (handle NoHandle) nor a failed mapping is noticed.    *)
(***************************************************************************)
AddPage(kv, s) ==
    LET h == AllocatedHandle(kv.vmm, NewPage(kv.vmm))
        v == AllocPhysicalPage(kv.vmm, NewPage(kv.vmm))
    IN  [vmm |-> MapPage(v, <<s, Len(kv.paged_slots[s].pages)>>, h),
         paged_slots |-> [kv.paged_slots EXCEPT ![s].pages = Append(@, h)]]

EnsureTokens(kv, s) ==
    LET missing == SlotPages - Len(kv.paged_slots[s].pages) IN
    IF missing <= 0 THEN kv ELSE Loop(missing, LAMBDA acc, n : AddPage(acc, s), kv)

(***************************************************************************)
(* paged_kv_map_existing_pages takes over shared pages at the start of the *)
(* window: it retains each, maps it, without looking at the result, and    *)
(* writes it into the bookkeeping, over whatever page was there.           *)
(***************************************************************************)
MapExistingPage(kv, s, n, h) ==
    [vmm |-> MapPage(RetainPhysicalPage(kv.vmm, h), <<s, n - 1>>, h),
     paged_slots |->
        [kv.paged_slots EXCEPT ![s].pages =
            IF n <= Len(@) THEN [@ EXCEPT ![n] = h] ELSE Append(@, h)]]

MapExistingPages(kv, s, handles) ==
    Loop(Len(handles), LAMBDA acc, n : MapExistingPage(acc, s, n, handles[n]), kv)

\* paged_kv_extract_page_handles for the pages with indices first..last - 1;
\* it takes no reference to them.
ExtractPageHandles(kv, s, first, last) ==
    SubSeq(kv.paged_slots[s].pages, first + 1, last)

(***************************************************************************)
(* paged_kv_free_slot unmaps and releases what the bookkeeping lists.      *)
(***************************************************************************)
FreePage(v, s, n, h) == ReleasePhysicalPage(UnmapPage(v, <<s, n - 1>>), h)

\* The first "count" pages of a slot are freed and its list is cleared.
FreePages(kv, s, count) ==
    [vmm |-> Loop(count, LAMBDA v, n : FreePage(v, s, n, kv.paged_slots[s].pages[n]), kv.vmm),
     paged_slots |-> [kv.paged_slots EXCEPT ![s] = FreeSlotRecord]]

\* Mutant: the last page of the list is passed over.
FreeAllButLast(kv, s) ==
    IF kv.paged_slots[s].pages = <<>> THEN kv
    ELSE FreePages(kv, s, Len(kv.paged_slots[s].pages) - 1)

FreeSlot(kv, s) == FreePages(kv, s, Len(kv.paged_slots[s].pages))

\* Free the slots of the set S in ascending order.
FreeSlots(kv, S) ==
    Loop(MaxBatch, LAMBDA acc, n : IF n - 1 \in S THEN FreeSlot(acc, n - 1) ELSE acc, kv)
=============================================================================
