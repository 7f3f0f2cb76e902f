---------------------------- MODULE MCRadixCache ----------------------------
(***************************************************************************)
(* RadixCache with prompts of up to two pages.  Of the three pages of      *)
(* tokens, x and z have the same hash.                                     *)
(***************************************************************************)
EXTENDS RadixCache

CONSTANTS x, y, z

MCHash == [c \in Chunks |-> IF c = z THEN x ELSE c]

\* No two of these prompts collide; what is looked up may collide with them.
MCPrompts == {<<x>>, <<y>>, <<x, y>>, <<x, x>>, <<y, y>>}

\* The first pages of the last two prompts have the same hash.
MCCollidingPrompts == {<<x>>, <<x, x>>, <<z, x>>}
=============================================================================
