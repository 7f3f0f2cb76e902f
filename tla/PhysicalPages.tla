--------------------------- MODULE PhysicalPages ---------------------------
(***************************************************************************)
(* What an allocator of shared, mapped physical pages promises its         *)
(* clients, without saying how pages are pooled: a page is handed out only *)
(* when nobody refers to it and no address shows it; it is backed by       *)
(* device memory for as long as someone refers to it; and an address shows *)
(* only pages that someone refers to.  VMMBlockManager is shown to         *)
(* implement this specification.                                           *)
(***************************************************************************)
EXTENDS Naturals

CONSTANTS
    Pages,   \* the physical pages
    Nothing, \* what an unmapped address shows
    Places   \* the addresses

VARIABLES
    refs,    \* refs[p]: the number of references to page p
    backed,  \* the pages that take up device memory
    shows    \* shows[a]: the page mapped at address a, or Nothing

pageVars == <<refs, backed, shows>>

Init ==
    /\ refs = [p \in Pages |-> 0]
    /\ backed \in SUBSET Pages
    /\ shows = [a \in Places |-> Nothing]

\* A page nobody refers to or sees goes to one client, alone.
Acquire(p) ==
    /\ refs[p] = 0
    /\ \A a \in Places : shows[a] # p
    /\ refs' = [refs EXCEPT ![p] = 1]
    /\ backed' = backed \cup {p}
    /\ UNCHANGED shows

\* A page somebody refers to gets one more reference.
Share(p) ==
    /\ refs[p] > 0
    /\ refs' = [refs EXCEPT ![p] = @ + 1]
    /\ UNCHANGED <<backed, shows>>

\* A reference is given back.  With the last one the memory may be freed,
\* and by then no address shows the page.
Drop(p) ==
    /\ refs[p] > 0
    /\ refs' = [refs EXCEPT ![p] = @ - 1]
    /\ \/ backed' = backed
       \/ refs[p] = 1 /\ backed' = backed \ {p}
    /\ refs[p] = 1 => \A a \in Places : shows[a] # p
    /\ UNCHANGED shows

Show(a, p) ==
    /\ refs[p] > 0
    /\ shows[a] = Nothing
    /\ shows' = [shows EXCEPT ![a] = p]
    /\ UNCHANGED <<refs, backed>>

Hide(a) ==
    /\ shows' = [shows EXCEPT ![a] = Nothing]
    /\ UNCHANGED <<refs, backed>>

\* Memory is taken from and given back to the device only for pages that
\* nobody refers to.
Resize ==
    /\ backed' \in SUBSET Pages
    /\ \A p \in Pages : refs[p] > 0 => (p \in backed' <=> p \in backed)
    /\ UNCHANGED <<refs, shows>>

\* Everything is torn down at once.
Clear ==
    /\ refs' = [p \in Pages |-> 0]
    /\ backed' = {}
    /\ shows' = [a \in Places |-> Nothing]

Next ==
    \/ \E p \in Pages : Acquire(p) \/ Share(p) \/ Drop(p)
    \/ \E a \in Places : Hide(a) \/ \E p \in Pages : Show(a, p)
    \/ Resize
    \/ Clear

Spec == Init /\ [][Next]_pageVars
=============================================================================
