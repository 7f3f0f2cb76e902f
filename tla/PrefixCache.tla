---------------------------- MODULE PrefixCache ----------------------------
(***************************************************************************)
(* What a prefix cache for prompts promises: it remembers token prefixes,  *)
(* every prefix together with all shorter ones; a request is given the     *)
(* longest remembered prefix of its prompt and keeps it, with everything   *)
(* shorter, in the cache until it is done; only longest prefixes in nobody's *)
(* use are forgotten.  RadixCache is shown to implement this.              *)
(***************************************************************************)
EXTENDS Naturals, Sequences

CONSTANTS
    Requests, \* the users of the cache
    Prompts   \* their prompts, as sequences of full pages of tokens

VARIABLES
    cached, \* the remembered non-empty prefixes
    asked,  \* asked[r]: the prompt of request r until it is done, else <<>>
    using   \* using[r]: the prefix request r was given; <<>> if none

cacheVars == <<cached, asked, using>>

Begins(p, s) == Len(p) <= Len(s) /\ \A i \in 1..Len(p) : p[i] = s[i]

Init ==
    /\ cached = {}
    /\ asked = [r \in Requests |-> <<>>]
    /\ using = [r \in Requests |-> <<>>]

\* A request gets the longest remembered prefix of its prompt, and all
\* prefixes of the prompt are remembered from then on.
Start(r, prompt) ==
    LET begun(n) == SubSeq(prompt, 1, n) IN
    /\ asked[r] = <<>>
    /\ asked' = [asked EXCEPT ![r] = prompt]
    /\ \E n \in 0..Len(prompt) :
          /\ \A i \in 1..n : begun(i) \in cached
          /\ n < Len(prompt) => begun(n + 1) \notin cached
          /\ using' = [using EXCEPT ![r] = begun(n)]
          /\ cached' = cached \cup {begun(i) : i \in 1..Len(prompt)}

Stop(r) ==
    /\ asked[r] # <<>>
    /\ asked' = [asked EXCEPT ![r] = <<>>]
    /\ using' = [using EXCEPT ![r] = <<>>]
    /\ UNCHANGED cached

\* Some prefixes are forgotten: none that a request uses, and none of which
\* a longer one is still remembered.
Forget ==
    /\ cached' \in SUBSET cached
    /\ \A p \in cached \ cached' :
          /\ \A r \in Requests : ~Begins(p, using[r])
          /\ \A s \in cached' : ~Begins(p, s)
    /\ UNCHANGED <<asked, using>>

\* The whole cache is dropped; requests no longer have a part in it.
Drop ==
    /\ cached' = {}
    /\ using' = [r \in Requests |-> <<>>]
    /\ UNCHANGED asked

Next ==
    \/ \E r \in Requests : Stop(r) \/ \E prompt \in Prompts : Start(r, prompt)
    \/ Forget
    \/ Drop

Spec == Init /\ [][Next]_cacheVars
=============================================================================
