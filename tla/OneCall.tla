------------------------------- MODULE OneCall -------------------------------
(* What placing a call on runners promises the caller, as TryExec's comments *)
(* put it: a call is committed to a runner or refused.  The function is      *)
(* started at most once, never once every runner refused the call, and an    *)
(* answer without an error is the answer of a run.                           *)
EXTENDS Naturals

CONSTANTS Answers   \* "ok", the errors, and "refused"

VARIABLES runs,     \* how often the function was started
          answer    \* what the caller was told

Init == runs = 0 /\ answer = "none"

\* The function may still start when the caller gave up, not once refused.
Run == /\ runs = 0 /\ answer \notin {"ok", "refused"}
       /\ runs' = runs + 1 /\ UNCHANGED answer

Answer == /\ answer = "none" /\ answer' \in Answers
          /\ answer' = "ok" => runs = 1
          /\ answer' = "refused" => runs = 0
          /\ UNCHANGED runs

Spec == Init /\ [][Run \/ Answer]_<<runs, answer>>
=============================================================================
