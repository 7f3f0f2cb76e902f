------------------------- MODULE MCVMMBlockManager -------------------------
(***************************************************************************)
(* VMMBlockManager with three pages, two addresses and one or two prefix   *)
(* keys: enough for a page to be pooled, shared, mapped twice and          *)
(* registered while another one is handed out.                             *)
(***************************************************************************)
EXTENDS VMMBlockManager, TLC

PageSymmetry == Permutations(Handles)
=============================================================================
