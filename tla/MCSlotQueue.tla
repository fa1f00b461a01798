----------------------------- MODULE MCSlotQueue -----------------------------
(* SlotQueue with two containers, two calls and up to two tokens: a        *)
(* container offers a second slot after a first call, and both calls peek   *)
(* at the same token.                                                       *)
EXTENDS SlotQueue
=============================================================================
