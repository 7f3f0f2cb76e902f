----------------------------- MODULE RadixTree -----------------------------
(***************************************************************************)
(* The operations of PagedRadixTree (runtime/src/radix_tree.cpp) as        *)
(* operators on its state.  The tree indexes cached KV pages by the prompt *)
(* tokens they were computed for, one node per full page of tokens.  A     *)
(* prompt is the sequence of its full pages of tokens ("chunks"); the rest *)
(* of it, shorter than a page, plays no part in the tree.                  *)
(*                                                                         *)
(* A node is found by the hashes on its path from the root, so the nodes   *)
(* are a function from paths (non-empty sequences of hashes) to records    *)
(*   token_chunk    the tokens of the node's own page                      *)
(*   page           what the node's k_handles and v_handles name           *)
(*   ref_count      the requests that use the node                         *)
(*   last_accessed  the tick of the last access                            *)
(***************************************************************************)
EXTENDS Naturals, Sequences, FiniteSetsExt

CONSTANTS
    Chunks,  \* the possible contents of one page of tokens
    Hash     \* Hash[c]: hash_token_chunk of the tokens c

\* The path of the first n pages of a prompt.
PathOf(prompt, n) == [i \in 1..n |-> Hash[prompt[i]]]

Parent(path) == SubSeq(path, 1, Len(path) - 1)

EmptyTree == [nodes |-> <<>>, current_tick |-> 0]

Paths(t) == DOMAIN t.nodes

\* The record t with the nodes of "paths" replaced or added.
WithNodes(t, paths, node(_)) ==
    [t EXCEPT !.nodes =
        [q \in DOMAIN @ \cup paths |-> IF q \in paths THEN node(q) ELSE @[q]]]

(***************************************************************************)
(* match_prefix: follow the prompt's pages for as long as a node with      *)
(* their hash and exactly their tokens exists, touching each node.         *)
(***************************************************************************)
\*
\* Mutant: the tokens are not compared.
MatchesHash(t, prompt, n) == PathOf(prompt, n) \in Paths(t)

MatchesPage(t, prompt, n) ==
    /\ PathOf(prompt, n) \in Paths(t)
    /\ t.nodes[PathOf(prompt, n)].token_chunk = prompt[n]

\* Mutant: the last page of a prompt is always left to be computed.
MatchedBeforeLast(t, prompt) ==
    Max({0} \cup {n \in 1..(Len(prompt) - 1) :
                     \A i \in 1..n : MatchesPage(t, prompt, i)})

MatchedPages(t, prompt) ==
    Max({n \in 0..Len(prompt) : \A i \in 1..n : MatchesPage(t, prompt, i)})

MatchedPaths(t, prompt) ==
    [i \in 1..MatchedPages(t, prompt) |-> PathOf(prompt, i)]

\* Touch the nodes of "paths" one after the other, adding "refs" references
\* to each.
\*
\* Mutant: one tick for all of them.
TouchAtOneTick(t, paths, refs) ==
    LET touched == {paths[i] : i \in DOMAIN paths} IN
    [WithNodes(t, touched,
        LAMBDA q : [t.nodes[q] EXCEPT !.last_accessed = t.current_tick + 1,
                                      !.ref_count = @ + refs])
     EXCEPT !.current_tick = @ + 1]

Touch(t, paths, refs) ==
    LET touched == {paths[i] : i \in DOMAIN paths} IN
    [WithNodes(t, touched,
        LAMBDA q : [t.nodes[q] EXCEPT !.last_accessed = t.current_tick + Len(q),
                                      !.ref_count = @ + refs])
     EXCEPT !.current_tick = @ + Len(paths)]

MatchPrefix(t, prompt) == Touch(t, MatchedPaths(t, prompt), 0)

\* retain_node on every matched node, in the order of the match.
RetainNodes(t, paths) == Touch(t, paths, 1)

\* Mutant: releasing a node releases its ancestors once more.
ReleaseWithAncestors(t, paths) ==
    LET released == {paths[i] : i \in DOMAIN paths} \cap Paths(t) IN
    WithNodes(t, released,
        LAMBDA q : [t.nodes[q] EXCEPT !.ref_count = @ - (Len(paths) - Len(q) + 1)])

\* release_node on nodes that are still in the tree.
ReleaseNodes(t, paths) ==
    LET released == {paths[i] : i \in DOMAIN paths} \cap Paths(t) IN
    WithNodes(t, released,
        LAMBDA q : [t.nodes[q] EXCEPT !.ref_count = IF @ > 0 THEN @ - 1 ELSE 0])

\* The node made for page n of a prompt; pages[1] is page start_page + 1.
NewNode(prompt, start_page, pages, n, tick) ==
    [token_chunk |-> prompt[n], page |-> pages[n - start_page],
     ref_count |-> 0, last_accessed |-> tick]

(***************************************************************************)
(* insert_prefix: walk down the first start_page pages by their hashes,    *)
(* giving up if a node is missing, and then walk on, touching the nodes    *)
(* that exist and adding the missing ones with the pages of the caller.    *)
(* Neither walk compares tokens.                                           *)
(***************************************************************************)
InsertPrefix(t, prompt, start_page, pages) ==
    LET last  == Min({start_page + Len(pages), Len(prompt)})
        added == [j \in 1..(last - start_page) |-> PathOf(prompt, start_page + j)]
        node(q) ==
            LET tick == t.current_tick + Len(q) - start_page IN
            IF q \in Paths(t)
            THEN [t.nodes[q] EXCEPT !.last_accessed = tick]
            ELSE NewNode(prompt, start_page, pages, Len(q), tick)
    IN  IF \/ last <= start_page
           \/ start_page > 0 /\ PathOf(prompt, start_page) \notin Paths(t)
        THEN t
        ELSE [WithNodes(t, {added[j] : j \in DOMAIN added}, node)
              EXCEPT !.current_tick = @ + Len(added)]

(***************************************************************************)
(* evict_lru(1): unlink the leaf that no request uses and that was         *)
(* accessed longest ago.                                                   *)
(***************************************************************************)
\*
\* Mutant: inner nodes are candidates.
UnusedNodes(t) == {q \in Paths(t) : t.nodes[q].ref_count = 0}

EvictionCandidates(t) ==
    {q \in Paths(t) : /\ t.nodes[q].ref_count = 0
                      /\ \A r \in Paths(t) : Len(r) > 0 => Parent(r) # q}

OldestCandidate(t) ==
    CHOOSE q \in EvictionCandidates(t) :
        \A r \in EvictionCandidates(t) :
            t.nodes[q].last_accessed <= t.nodes[r].last_accessed

EvictOne(t) ==
    IF EvictionCandidates(t) = {} THEN t
    ELSE [t EXCEPT !.nodes = [q \in DOMAIN @ \ {OldestCandidate(t)} |-> @[q]]]

\* evict_lru(max): a loop of evictions that stops when no candidate is left.
EvictLru(t, max) ==
    LET after[n \in 0..max] == IF n = 0 THEN t ELSE EvictOne(after[n - 1])
    IN  after[max]
=============================================================================
