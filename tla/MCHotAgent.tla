----------------------------- MODULE MCHotAgent -----------------------------
(* A machine with room for one container.  Calls of two queues evict each   *)
(* other's containers under a blocking tracker, where only an eviction can  *)
(* help; two calls of one queue share a container under a non-blocking one: *)
(* the second finds it idle, busy or leaving, and is refused another.       *)
EXTENDS HotAgent, TLC

CONSTANTS c1, c2, qa, qb

Two  == (c1 :> qa) @@ (c2 :> qb)
Same == (c1 :> qa) @@ (c2 :> qa)
TheConfs == {[blocking |-> TRUE, keyOf |-> Two], [blocking |-> FALSE, keyOf |-> Same]}
=============================================================================
