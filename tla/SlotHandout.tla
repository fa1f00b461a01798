----------------------------- MODULE SlotHandout -----------------------------
(***************************************************************************)
(* What a slot queue promises, without its queue, its dequeuers and its    *)
(* compare-and-swap: a hot container that is ready offers itself, a call   *)
(* takes the offer or the container withdraws it, never both, and the      *)
(* container takes part again only after that call is over.                *)
(***************************************************************************)
CONSTANTS Ctrs, Callers

VARIABLE serving   \* [Ctrs -> {"ready", "free", "over", "gone"} \cup Callers]

Init == serving = [k \in Ctrs |-> "ready"]

Offer(k)    == serving[k] = "ready" /\ serving' = [serving EXCEPT ![k] = "free"]
Take(k, c)  == /\ serving[k] = "free"
               /\ \A j \in Ctrs : serving[j] # c
               /\ serving' = [serving EXCEPT ![k] = c]
Withdraw(k) == serving[k] = "free" /\ serving' = [serving EXCEPT ![k] = "gone"]
Finish(k)   == serving[k] \in Callers /\ serving' = [serving EXCEPT ![k] = "over"]
Rejoin(k)   == serving[k] = "over" /\ serving' = [serving EXCEPT ![k] = "ready"]
Stop(k)     == serving[k] = "over" /\ serving' = [serving EXCEPT ![k] = "gone"]

Next == \E k \in Ctrs :
  Offer(k) \/ Withdraw(k) \/ Finish(k) \/ Rejoin(k) \/ Stop(k)
  \/ \E c \in Callers : Take(k, c)

Spec == Init /\ [][Next]_serving
=============================================================================
