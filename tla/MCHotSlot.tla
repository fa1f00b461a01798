----------------------------- MODULE MCHotSlot -----------------------------
(* Two calls on one container: the second finds what the first has left     *)
(* behind, its writer included.                                             *)
EXTENDS HotSlot, TLC

Sym == Permutations(Calls)
=============================================================================
