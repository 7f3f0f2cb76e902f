-------------------------- MODULE BatchScheduler --------------------------
(***************************************************************************)
(* ContinuousBatchScheduler (runtime/src/batch_scheduler.cpp) with the     *)
(* parts of the runtime it drives: the paged KV cache of the executor with *)
(* its VMMBlockManager, and the PagedRadixTree of cached prefixes.         *)
(*                                                                         *)
(* The scheduler serves one thread.  A call of step() runs the admission   *)
(* loop (one Admit step per iteration, ReturnFromStep when the loop ends)  *)
(* or, when it admits nobody, one decode step for the whole batch          *)
(* (Decode).  Between calls the thread adds requests, switches prefix      *)
(* caching, resets the KV cache or destroys the scheduler.                 *)
(*                                                                         *)
(* A prompt is its sequence of full pages of tokens; the tokens behind the *)
(* last full page only make the prefill longer.  Which token the model     *)
(* samples matters only in that it may be the end-of-sequence token.       *)
(***************************************************************************)
EXTENDS PagedKV, RadixTree, FiniteSets, SequencesExt

CONSTANTS
    Prompts,         \* prompts, as sequences of full pages of tokens
    MaxNewTokens,    \* the max_new_tokens of requests
    CachingSettings, \* arguments of enable_prefix_caching
    Buckets,         \* batch buckets, used when BucketsEnabled
    BucketsEnabled,  \* is_cuda_graph_buckets_enabled
    WarmPages,       \* max_warm_pages of the page manager
    NoRequest,       \* an empty slot: nullptr
    MaxRequests,     \* bound on the requests submitted, for TLC
    MaxResets        \* bound on the calls of reset_kv_cache, for TLC

ASSUME SchedulerAssumption ==
    /\ \A p \in Prompts : p \in Seq(Chunks) /\ Len(p) <= SlotPages
    /\ DOMAIN Hash = Chunks
    /\ MaxNewTokens \subseteq Nat
    /\ CachingSettings \subseteq BOOLEAN /\ CachingSettings # {}
    /\ Buckets \subseteq Nat \ {0} /\ Buckets # {} /\ IsFiniteSet(Buckets)
    /\ BucketsEnabled \in BOOLEAN
    /\ WarmPages \in Nat
    /\ NoRequest \notin Nat

VARIABLES
    all_requests,           \* request id - 1 -> request, in order of submission
    pending_queue,          \* ids of the requests not yet admitted
    active_slots,           \* slot -> id of the request that runs there
    kv,                     \* the paged KV cache
    tree,                   \* the radix tree
    prefix_caching_enabled,
    admitted_any,           \* inside step(), which has admitted a request
    destroyed,              \* the scheduler was destroyed
    resets                  \* calls of reset_kv_cache so far

vars == <<all_requests, pending_queue, active_slots, kv, tree,
          prefix_caching_enabled, admitted_any, destroyed, resets>>

Init ==
    /\ all_requests = <<>>
    /\ pending_queue = <<>>
    /\ active_slots = [s \in Slots |-> NoRequest]
    /\ kv = InitialKV(WarmPages)
    /\ tree = EmptyTree
    /\ prefix_caching_enabled \in CachingSettings
    /\ admitted_any = FALSE
    /\ destroyed = FALSE
    /\ resets = 0

Active == {s \in Slots : active_slots[s] # NoRequest}

\* has_work
HasWork == pending_queue # <<>> \/ Active # {}

\* The thread that owns the scheduler is not inside one of its operations.
Idle == ~admitted_any /\ ~destroyed

----------------------------------------------------------------------------
\* add_request
AddRequest(prompt, max_new) ==
    /\ Idle /\ Len(all_requests) < MaxRequests
    /\ all_requests' = Append(all_requests,
            [prompt |-> prompt, max_new_tokens |-> max_new, generated |-> 0,
             finish_reason |-> "", matched_radix_nodes |-> <<>>])
    /\ pending_queue' = Append(pending_queue, Len(all_requests) + 1)
    /\ UNCHANGED <<active_slots, kv, tree, prefix_caching_enabled,
                   admitted_any, destroyed, resets>>

EnablePrefixCaching(enable) ==
    /\ Idle /\ enable # prefix_caching_enabled
    /\ prefix_caching_enabled' = enable
    /\ UNCHANGED <<all_requests, pending_queue, active_slots, kv, tree,
                   admitted_any, destroyed, resets>>

\* reset_kv_cache of the executor, which knows nothing of the scheduler.
ResetKVCache ==
    /\ Idle /\ resets < MaxResets
    /\ kv' = FreeSlots(kv, Slots)
    /\ resets' = resets + 1
    /\ UNCHANGED <<all_requests, pending_queue, active_slots, tree,
                   prefix_caching_enabled, admitted_any, destroyed>>

----------------------------------------------------------------------------
\* Mutant: static batching, a new batch starts when the last one is done.
AdmitIntoEmptyBatch == pending_queue # <<>> /\ Active = {}

\* The admission loop continues: a request waits and a slot is free.
CanAdmit == pending_queue # <<>> /\ Active # Slots

\* Mutant: active_count() is taken for the first free slot.
SlotByCount == Cardinality(Active)

\* find_available_slot
AvailableSlot == Min(Slots \ Active)

\* Mutant: the limit is noticed one token late.
WithTokenLate(req, eos) ==
    LET n == req.generated + 1 IN
    [req EXCEPT !.generated = n,
                !.finish_reason = IF eos THEN "stop"
                                  ELSE IF n > req.max_new_tokens THEN "length"
                                  ELSE ""]

\* The request after it generated one more token, "eos" or not.
WithToken(req, eos) ==
    LET n == req.generated + 1 IN
    [req EXCEPT !.generated = n,
                !.finish_reason = IF eos THEN "stop"
                                  ELSE IF n >= req.max_new_tokens THEN "length"
                                  ELSE ""]

\* A finished request releases the radix nodes it had matched.
Finished(req) == req.finish_reason # ""

Released(req) ==
    IF Finished(req) THEN [req EXCEPT !.matched_radix_nodes = <<>>] ELSE req

(***************************************************************************)
(* One iteration of the admission loop: the first waiting request takes    *)
(* the first free slot, maps the pages of its longest cached prefix there, *)
(* gets pages for the rest, is prefilled, has its new full pages inserted  *)
(* into the tree, and samples its first token, which may be its last.      *)
(***************************************************************************)
Admit ==
    /\ CanAdmit /\ ~destroyed
    /\ \E eos \in BOOLEAN :
       LET id      == Head(pending_queue)
           slot    == AvailableSlot
           prompt  == all_requests[id].prompt
           nodes   == IF prefix_caching_enabled THEN MatchedPaths(tree, prompt)
                      ELSE <<>>
           handles == [i \in DOMAIN nodes |-> tree.nodes[nodes[i]].page]
           matched == IF prefix_caching_enabled
                      THEN RetainNodes(MatchPrefix(tree, prompt), nodes)
                      ELSE tree
           mapped  == MapExistingPages(AllocSlot(kv, slot), slot, handles)
           backed  == EnsureTokens(mapped, slot)
           new     == ExtractPageHandles(backed, slot, Len(nodes), Len(prompt))
           indexed == IF prefix_caching_enabled
                      THEN InsertPrefix(matched, prompt, Len(nodes), new)
                      ELSE matched
           sampled == WithToken([all_requests[id] EXCEPT
                                   !.matched_radix_nodes = nodes], eos)
       IN  /\ all_requests' = [all_requests EXCEPT ![id] = Released(sampled)]
           /\ pending_queue' = Tail(pending_queue)
           /\ active_slots' = [active_slots EXCEPT
                ![slot] = IF Finished(sampled) THEN NoRequest ELSE id]
           /\ kv' = IF Finished(sampled) THEN FreeSlot(backed, slot) ELSE backed
           /\ tree' = IF Finished(sampled) THEN ReleaseNodes(indexed, nodes)
                      ELSE indexed
    /\ admitted_any' = TRUE
    /\ UNCHANGED <<prefix_caching_enabled, destroyed, resets>>

ReturnFromStep ==
    /\ admitted_any /\ ~CanAdmit
    /\ admitted_any' = FALSE
    /\ UNCHANGED <<all_requests, pending_queue, active_slots, kv, tree,
                   prefix_caching_enabled, destroyed, resets>>

\* Mutant: a bucket of max_slot slots is taken to include slot max_slot.
BucketOneShort(max_slot) ==
    LET larger == {b \in Buckets : b >= max_slot}
        bucket == IF ~BucketsEnabled THEN max_slot + 1
                  ELSE IF larger # {} THEN Min(larger)
                  ELSE Max(Buckets)
    IN  Min({bucket, MaxBatch})

\* select_batch_bucket and the clamp to max_batch_size_: the number of slots
\* the decode step computes.
SelectBatchBucket(max_slot) ==
    LET larger == {b \in Buckets : b > max_slot}
        bucket == IF ~BucketsEnabled THEN max_slot + 1
                  ELSE IF larger # {} THEN Min(larger)
                  ELSE Max(Buckets)
    IN  Min({bucket, MaxBatch})

BatchBucket == SelectBatchBucket(Max(Active))

DecodeBatch == 0..(BatchBucket - 1)

\* Every slot of the batch gets pages, also the ones no request runs in.
BackSlot(c, s) ==
    EnsureTokens(IF IsAllocated(c, s) THEN c ELSE AllocSlot(c, s), s)

BackBatch(bucket) == Loop(bucket, LAMBDA acc, n : BackSlot(acc, n - 1), kv)

\* Mutant: only requests that ran out of tokens release their nodes.
ReleaseAllButStopped(t, reqs, slots) ==
    Loop(MaxBatch,
         LAMBDA acc, n :
            IF n - 1 \in slots /\ reqs[active_slots[n - 1]].finish_reason # "stop"
            THEN ReleaseNodes(acc, reqs[active_slots[n - 1]].matched_radix_nodes)
            ELSE acc,
         t)

\* The nodes that the requests in some of the slots release, one slot after
\* the other.
ReleaseAll(t, reqs, slots) ==
    Loop(MaxBatch,
         LAMBDA acc, n :
            IF n - 1 \in slots
            THEN ReleaseNodes(acc, reqs[active_slots[n - 1]].matched_radix_nodes)
            ELSE acc,
         t)

(***************************************************************************)
(* step() when nobody was admitted: one token for every request of the     *)
(* batch.  Requests that finish give up their nodes and their slots at     *)
(* once; when no request is left, the slots that were backed only to fill  *)
(* the batch are freed too.                                                *)
(***************************************************************************)
Decode ==
    /\ ~admitted_any /\ ~destroyed /\ ~CanAdmit /\ Active # {}
    /\ LET served == DecodeBatch \cap Active
           backed == BackBatch(BatchBucket)
       IN  \E eos \in SUBSET served :
           LET sampled == [id \in DOMAIN all_requests |->
                   IF \E s \in served : active_slots[s] = id
                   THEN WithToken(all_requests[id], \E s \in eos : active_slots[s] = id)
                   ELSE all_requests[id]]
               done  == {s \in served : Finished(sampled[active_slots[s]])}
               freed == FreeSlots(backed, done)
           IN  /\ all_requests' = [id \in DOMAIN sampled |-> Released(sampled[id])]
               /\ active_slots' = [s \in Slots |->
                    IF s \in done THEN NoRequest ELSE active_slots[s]]
               /\ tree' = ReleaseAll(tree, sampled, done)
               /\ kv' = IF done = Active
                        THEN FreeSlots(freed, {s \in Slots : IsAllocated(freed, s)})
                        ELSE freed
    /\ UNCHANGED <<pending_queue, prefix_caching_enabled, admitted_any,
                   destroyed, resets>>

(***************************************************************************)
(* The destructor releases the nodes and the slots of the running          *)
(* requests; the requests themselves stay as they are.                     *)
(***************************************************************************)
Destroy ==
    /\ Idle
    /\ destroyed' = TRUE
    /\ active_slots' = [s \in Slots |-> NoRequest]
    /\ tree' = ReleaseAll(tree, all_requests, Active)
    /\ all_requests' = [id \in DOMAIN all_requests |->
            IF \E s \in Active : active_slots[s] = id
            THEN [all_requests[id] EXCEPT !.matched_radix_nodes = <<>>]
            ELSE all_requests[id]]
    /\ kv' = FreeSlots(kv, Active)
    /\ UNCHANGED <<pending_queue, prefix_caching_enabled, admitted_any, resets>>

Step == Admit \/ ReturnFromStep \/ Decode

Next ==
    \/ Step
    \/ \E prompt \in Prompts, max_new \in MaxNewTokens : AddRequest(prompt, max_new)
    \/ \E enable \in CachingSettings : EnablePrefixCaching(enable)
    \/ ResetKVCache
    \/ Destroy

Spec == Init /\ [][Next]_vars

(***************************************************************************)
(* A call of step() returns, and ggmlc-run and the tests call it for as    *)
(* long as has_work() holds: weak fairness of Step.  For the whole of Step *)
(* the fairness is that of WF_vars(Step) with the enabling condition of    *)
(* <<Step>>_vars written out, which TLC evaluates much faster: there is a  *)
(* request to admit, a step() to return from, or a decode step that serves *)
(* a request or backs a slot of its batch.                                 *)
(***************************************************************************)
StepCanAct ==
    /\ ~destroyed
    /\ \/ admitted_any \/ CanAdmit
       \/ /\ Active # {}
          /\ \E s \in DecodeBatch :
                s \in Active \/ ~IsAllocated(kv, s)
                \/ Len(kv.paged_slots[s].pages) < SlotPages

FairSpec ==
    /\ Spec
    /\ WF_vars(ReturnFromStep)
    /\ []<>(~StepCanAct) \/ []<><<Step>>_vars

----------------------------------------------------------------------------
Ids == DOMAIN all_requests
Running == {active_slots[s] : s \in Active}

RequestType ==
    [prompt : Prompts, max_new_tokens : MaxNewTokens, generated : Nat,
     finish_reason : {"", "stop", "length"}, matched_radix_nodes : Seq(Seq(Range(Hash)))]

\* Every variable has its declared shape.
TypeOK ==
    /\ all_requests \in Seq(RequestType)
    /\ pending_queue \in Seq(Ids)
    /\ active_slots \in [Slots -> Ids \cup {NoRequest}]
    /\ kv.vmm \in PoolState
    /\ kv.paged_slots \in [Slots -> [active : BOOLEAN, pages : Seq(Handles \cup {NoHandle})]]
    /\ prefix_caching_enabled \in BOOLEAN
    /\ admitted_any \in BOOLEAN
    /\ destroyed \in BOOLEAN
    /\ resets \in Nat

(***************************************************************************)
(* A submitted request is waiting, running or finished, and only one of    *)
(* these; it waits at one place of the queue and runs in one slot.  Only   *)
(* destroying the scheduler abandons running requests.                     *)
(***************************************************************************)
RequestsConserved ==
    /\ \A i, j \in DOMAIN pending_queue : pending_queue[i] = pending_queue[j] => i = j
    /\ \A s, t \in Active : active_slots[s] = active_slots[t] => s = t
    /\ \A id \in Ids :
          LET waits == \E i \in DOMAIN pending_queue : pending_queue[i] = id
              runs  == id \in Running
              ends  == Finished(all_requests[id])
          IN  /\ ~(waits /\ runs) /\ ~(waits /\ ends) /\ ~(runs /\ ends)
              /\ waits \/ runs \/ ends \/ destroyed

(***************************************************************************)
(* A request never gets more tokens than it asked for (but always one),    *)
(* and one that ended for "length" got all of them.                        *)
(***************************************************************************)
TokenBudget ==
    \A id \in Ids :
        LET req    == all_requests[id]
            budget == Max({req.max_new_tokens, 1})
        IN  /\ req.generated <= budget
            /\ req.finish_reason = "length" => req.generated = budget
            /\ id \in Running => req.generated \in 1..(budget - 1)

(***************************************************************************)
(* The ref_count of a radix node is the number of running requests that    *)
(* matched it, on every path by which a request ends (batch_scheduler.cpp  *)
(* lines 20-33, 262-274, 375-391): evict_lru frees neither too much nor,   *)
(* for ever, too little.                                                   *)
(***************************************************************************)
HoldersOf(q) ==
    {id \in Ids : \E i \in DOMAIN all_requests[id].matched_radix_nodes :
                     all_requests[id].matched_radix_nodes[i] = q}

NodeRefsAreRequests ==
    /\ \A q \in Paths(tree) : /\ tree.nodes[q].ref_count = Cardinality(HoldersOf(q))
                              /\ HoldersOf(q) \subseteq Running
    /\ \A id \in Ids : \A i \in DOMAIN all_requests[id].matched_radix_nodes :
          all_requests[id].matched_radix_nodes[i] \in Paths(tree)

(***************************************************************************)
(* When nothing is left to do, nothing is mapped: the tests read           *)
(* get_paged_active_vram_bytes() == 0 (test_continuous_batching.py:94).    *)
(***************************************************************************)
NothingMappedWithoutWork ==
    Idle /\ ~HasWork => /\ kv.vmm.total_mapped = 0
                        /\ \A a \in Addrs : kv.vmm.mapped_pages[a] = NoHandle

\* No page of a prompt is in the tree: prefix caching was never in use, or only
\* for prompts that are shorter than a page.
NothingCached == Paths(tree) = {}

(***************************************************************************)
(* As long as nothing is cached, the bookkeeping of a slot lists exactly   *)
(* what is mapped in its window, so free_slot (executor.cpp:783) releases  *)
(* the page it unmaps.                                                     *)
(***************************************************************************)
BookkeepingIsMapping ==
    NothingCached =>
        \A a \in Addrs :
            LET pages == kv.paged_slots[a[1]].pages IN
            kv.vmm.mapped_pages[a] =
                IF a[2] < Len(pages) THEN pages[a[2] + 1] ELSE NoHandle

(***************************************************************************)
(* As long as nothing is cached, a page belongs to one address of one      *)
(* slot: it is counted once, and every counted page is mapped somewhere.   *)
(***************************************************************************)
PagesExclusive ==
    NothingCached =>
        \A h \in Handles :
            /\ kv.vmm.handle_refcounts[h] =
                  Cardinality({a \in Addrs : kv.vmm.mapped_pages[a] = h})
            /\ kv.vmm.handle_refcounts[h] <= 1

(***************************************************************************)
(* With enough memory, as long as nothing is cached and until              *)
(* reset_kv_cache is called, the whole window of every running request is  *)
(* mapped.                                                                 *)
(***************************************************************************)
RunningRequestsBacked ==
    NothingCached /\ resets = 0 =>
        \A s \in Active : \A i \in 0..(SlotPages - 1) :
            kv.vmm.mapped_pages[<<s, i>>] # NoHandle

\* Every request that is submitted is served to its end, unless the scheduler
\* is destroyed first: again and again all that were submitted have ended. (There
\* are at most MaxRequests of them and an end is final, so this says of each one
\* that it ends, in one formula.)
EveryRequestEnds ==
    []<>(destroyed \/ \A id \in Ids : Finished(all_requests[id]))

\* The scheduler implements first-come, first-served service.
Service == INSTANCE FifoService WITH
    Capacity <- MaxBatch,
    waiting  <- pending_queue,
    running  <- Running,
    ended    <- {id \in Ids : Finished(all_requests[id])},
    open     <- ~destroyed

ImplementsFifoService == Service!Spec

----------------------------------------------------------------------------
(***************************************************************************)
(* Statements of the documentation that the code does not keep.            *)
(***************************************************************************)

(***************************************************************************)
(* Two running requests have a physical page in common only as the same    *)
(* page of a prefix that their prompts share: matched pages are those of   *)
(* "the longest cached prefix" (runtime_architecture.md:184).              *)
(***************************************************************************)
SharePrefix(s, t, n) ==
    LET p == all_requests[active_slots[s]].prompt
        q == all_requests[active_slots[t]].prompt
    IN  n <= Len(p) /\ n <= Len(q) /\ \A i \in 1..n : p[i] = q[i]

PagesSharedOnlyByPrefix ==
    \A s, t \in Active : \A i, j \in 0..(SlotPages - 1) :
        /\ <<s, i>> # <<t, j>>
        /\ kv.vmm.mapped_pages[<<s, i>>] # NoHandle
        /\ kv.vmm.mapped_pages[<<s, i>>] = kv.vmm.mapped_pages[<<t, j>>]
        => i = j /\ SharePrefix(s, t, i + 1)

(***************************************************************************)
(* A page is counted only while it is mapped or indexed by the tree: "zero *)
(* memory leaks" (runtime_architecture.md:180).                            *)
(***************************************************************************)
NoPageLeaked ==
    \A h \in Handles :
        kv.vmm.handle_refcounts[h] > 0 =>
            \/ Mapped(kv.vmm, h)
            \/ \E q \in Paths(tree) : tree.nodes[q].page = h

=============================================================================
