------------------------------ MODULE MCEvictor ------------------------------
(* Containers ka and kb of queue qa, kz of queue qb that has no resource     *)
(* limits (its token is never registered), and starved launchers of queues  *)
(* qb and qa.  The needs are for one container, for both, and one that      *)
(* only a container of the launcher's own queue could meet.                 *)
EXTENDS Evictor, TLC

CONSTANTS ka, kb, kz, qa, qb

MCSlotOf == (ka :> qa) @@ (kb :> qa) @@ (kz :> qb)
MCMem    == (ka :> 1) @@ (kb :> 2) @@ (kz :> 0)
MCCpu    == (ka :> 1) @@ (kb :> 0) @@ (kz :> 0)
MCNeeds  == {[slot |-> qb, mem |-> 2, cpu |-> 0],
             [slot |-> qb, mem |-> 3, cpu |-> 1],
             [slot |-> qa, mem |-> 1, cpu |-> 1]}
=============================================================================
