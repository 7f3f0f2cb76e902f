------------------------- MODULE MCBatchScheduler -------------------------
(***************************************************************************)
(* BatchScheduler with two slots of two pages each, and up to three        *)
(* requests: the third one is admitted while another one runs, into a slot *)
(* that was used before.                                                   *)
(***************************************************************************)
EXTENDS BatchScheduler

CONSTANTS x, y

MCHash == [c \in Chunks |-> c]
MCAddrs == (0..(MaxBatch - 1)) \X (0..(SlotPages - 1))

\* One page, two pages with the same first one, less than a page.
MCPrompts == {<<x>>, <<x, y>>}
MCTwoPrefixes == {<<x>>, <<y>>}
MCShortPrompts == {<<>>}
=============================================================================
