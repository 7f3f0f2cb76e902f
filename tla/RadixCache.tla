----------------------------- MODULE RadixCache -----------------------------
(***************************************************************************)
(* A PagedRadixTree in use.  A request enters as in                        *)
(* ContinuousBatchScheduler::step (batch_scheduler.cpp:150-237): it        *)
(* matches its prompt, retains the matched nodes, computes the pages of    *)
(* the rest of the prompt and inserts them behind the matched prefix.      *)
(* When it is done it releases the nodes it retained.  In between the tree *)
(* may be asked to evict pages.  A page is represented by what was         *)
(* computed into it: the tokens of its own and of all earlier pages of the *)
(* prompt, on which the keys and values in it depend.                      *)
(***************************************************************************)
EXTENDS RadixTree, FiniteSets

CONSTANTS
    Requests,  \* requests that may be active at the same time
    Prompts,   \* prompts, as sequences of full pages of tokens
    MaxEvict,  \* largest argument of evict_lru
    MaxTick    \* bound on current_tick, for TLC

ASSUME PromptsAssumption ==
    /\ Prompts \subseteq Seq(Chunks) \ {<<>>}
    /\ DOMAIN Hash = Chunks

ASSUME SizesAssumption == IsFiniteSet(Requests) /\ MaxEvict \in Nat

VARIABLES
    tree,     \* the tree
    prompts,  \* prompts[r]: prompt_tokens of r while it runs, else <<>>
    retained  \* retained[r]: matched_radix_nodes of r, by their paths

vars == <<tree, prompts, retained>>

Init ==
    /\ tree = EmptyTree
    /\ prompts = [r \in Requests |-> <<>>]
    /\ retained = [r \in Requests |-> <<>>]

\* The pages computed for the prompt behind its first "start" pages.
ComputedPages(prompt, start) ==
    [j \in 1..(Len(prompt) - start) |-> SubSeq(prompt, 1, start + j)]

Enter(r, prompt) ==
    LET paths   == MatchedPaths(tree, prompt)
        matched == RetainNodes(MatchPrefix(tree, prompt), paths)
    IN  /\ prompts[r] = <<>>
        /\ prompts' = [prompts EXCEPT ![r] = prompt]
        /\ tree' = InsertPrefix(matched, prompt, Len(paths),
                                ComputedPages(prompt, Len(paths)))
        /\ tree'.current_tick <= MaxTick
        /\ retained' = [retained EXCEPT ![r] = paths]

Leave(r) ==
    /\ prompts[r] # <<>>
    /\ prompts' = [prompts EXCEPT ![r] = <<>>]
    /\ tree' = ReleaseNodes(tree, retained[r])
    /\ retained' = [retained EXCEPT ![r] = <<>>]

Evict(max) ==
    /\ tree' = EvictLru(tree, max)
    /\ UNCHANGED <<prompts, retained>>

\* reset(): nodes that requests still hold are no longer part of the tree,
\* and releasing them has no effect on it.
ResetTree ==
    /\ tree' = EmptyTree
    /\ retained' = [r \in Requests |-> <<>>]
    /\ UNCHANGED prompts

Next ==
    \/ \E r \in Requests : Leave(r) \/ \E prompt \in Prompts : Enter(r, prompt)
    \/ \E max \in 1..MaxEvict : Evict(max)
    \/ ResetTree

Spec == Init /\ [][Next]_vars

----------------------------------------------------------------------------
NodeType ==
    [token_chunk   : Chunks,
     page          : Seq(Chunks),
     ref_count     : Nat,
     last_accessed : Nat]

\* The tree maps paths to nodes; every request holds paths.
TypeOK ==
    /\ tree.current_tick \in Nat
    /\ \A q \in Paths(tree) : tree.nodes[q] \in NodeType
    /\ prompts \in [Requests -> Prompts \cup {<<>>}]
    /\ \A r \in Requests : \A i \in DOMAIN retained[r] : Len(retained[r][i]) = i

Holders(q) == {r \in Requests : \E i \in DOMAIN retained[r] : retained[r][i] = q}

(***************************************************************************)
(* A node's ref_count is the number of requests that hold it, so evict_lru *)
(* (radix_tree.cpp:144) spares exactly the nodes in use; and a node in use *)
(* is in the tree.                                                         *)
(***************************************************************************)
RefCountIsHolders ==
    /\ \A q \in Paths(tree) : tree.nodes[q].ref_count = Cardinality(Holders(q))
    /\ \A r \in Requests : \A i \in DOMAIN retained[r] : retained[r][i] \in Paths(tree)

\* Every node can be reached: its parent is in the tree (evict_lru unlinks
\* leaves only, insert_prefix adds no node below a missing one).
PrefixClosed ==
    \A q \in Paths(tree) : Len(q) > 1 => Parent(q) \in Paths(tree)

(***************************************************************************)
(* No two nodes were last accessed at the same tick, so "least recently    *)
(* used" names one node and the sort of evict_lru (radix_tree.cpp:163) has *)
(* one outcome.                                                            *)
(***************************************************************************)
TicksDistinct ==
    \A p, q \in Paths(tree) :
        /\ tree.nodes[p].last_accessed = tree.nodes[q].last_accessed => p = q
        /\ tree.nodes[p].last_accessed <= tree.current_tick

\* Every sequence of pages of tokens that is as long as a prompt.
Lookups == UNION {[1..Len(p) -> Chunks] : p \in Prompts}

(***************************************************************************)
(* Whatever is looked up, a prompt that was never served and whose tokens  *)
(* have the hashes of others included, every page that match_prefix        *)
(* returns was computed for exactly the tokens that are looked up, to the  *)
(* page's end: the comparison of tokens guards "against any hash           *)
(* collision" (radix_tree.cpp:50).  It does so only as long as no two      *)
(* prompts that are inserted collide: insert_prefix walks down by the      *)
(* hashes alone (radix_tree.cpp:105) and may hang the pages of one prompt  *)
(* below a page of another.                                                *)
(***************************************************************************)
MatchedPagesAreForPrompt ==
    \A prompt \in Lookups : \A i \in 1..MatchedPages(tree, prompt) :
        tree.nodes[PathOf(prompt, i)].page = SubSeq(prompt, 1, i)

(***************************************************************************)
(* The tree implements the abstract prefix cache: a request gets the       *)
(* longest cached prefix, and keeps it until it is done.                   *)
(***************************************************************************)
TokensOf(q) == [i \in 1..Len(q) |-> tree.nodes[SubSeq(q, 1, i)].token_chunk]

Abstract == INSTANCE PrefixCache WITH
    asked  <- prompts,
    cached <- {TokensOf(q) : q \in Paths(tree)},
    using  <- [r \in Requests |->
                 IF retained[r] = <<>> THEN <<>>
                 ELSE TokensOf(retained[r][Len(retained[r])])]

ImplementsPrefixCache == Abstract!Spec
=============================================================================
