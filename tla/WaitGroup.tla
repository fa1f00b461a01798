------------------------------ MODULE WaitGroup ------------------------------
(***************************************************************************)
(* common.WaitGroup (api/common/wait_utils.go): the session counter behind *)
(* every graceful shutdown of the system (agent, LB agent, gRPC runner     *)
(* client).  Workers open a session with AddSession(1) and end it with     *)
(* DoneSession; closers call CloseGroup, or CloseGroupNB, which runs       *)
(* CloseGroup in a goroutine of its own.                                   *)
(*                                                                         *)
(* Each section under cond.L is one action.  cond.Wait() gives up the lock *)
(* and parks the closer in condWait; Broadcast empties condWait, and every *)
(* closer it woke takes the lock again and re-tests the loop condition.    *)
(***************************************************************************)
EXTENDS Naturals, FiniteSets

CONSTANTS
  Workers,      \* the goroutines that open and end sessions
  Closers,      \* the goroutines that close the group
  MaxUint64     \* largest value of the session counter

ASSUME WaitGroupAssumption ==
  /\ IsFiniteSet(Workers)
  /\ MaxUint64 \in Nat \ {0}

VARIABLES
  isClosed,     \* WaitGroup.isClosed; the closer channel is closed with it
  sessions,     \* WaitGroup.sessions
  condWait,     \* closers parked in cond.Wait()
  panicked,     \* DoneSession found no session to end
  worker,       \* [Workers -> {"out", "in"}]
  closer        \* [Closers -> {"idle", "nb", "closing", "returned"}]

vars == <<isClosed, sessions, condWait, panicked, worker, closer>>

WorkerState == {"out", "in"}
CloserState == {"idle", "nb", "closing", "returned"}

\* Sessions whose AddSession returned true and whose DoneSession is still due.
Open == {w \in Workers : worker[w] = "in"}

Init ==
  /\ isClosed = FALSE
  /\ sessions = 0
  /\ condWait = {}
  /\ panicked = FALSE
  /\ worker = [w \in Workers |-> "out"]
  /\ closer = [c \in Closers |-> "idle"]

-----------------------------------------------------------------------------
(* AddSession(1): refused when the group is closed or the counter is full.  *)

CanAdd == ~isClosed /\ sessions # MaxUint64 - 1

AddSession(w) ==
  /\ worker[w] = "out"
  /\ IF CanAdd
     THEN sessions' = sessions + 1 /\ worker' = [worker EXCEPT ![w] = "in"]
     ELSE UNCHANGED <<sessions, worker>>
  /\ UNCHANGED <<isClosed, condWait, panicked, closer>>

DoneSession(w) ==
  /\ worker[w] = "in"
  /\ worker' = [worker EXCEPT ![w] = "out"]
  /\ IF sessions = 0
     THEN panicked' = TRUE /\ UNCHANGED <<sessions, condWait>>
     ELSE /\ sessions' = sessions - 1
          /\ condWait' = IF sessions = 1 THEN {} ELSE condWait
          /\ UNCHANGED panicked
  /\ UNCHANGED <<isClosed, closer>>

(* The loop of CloseGroup, entered with the lock held: return on a zero     *)
(* counter, park otherwise.                                                 *)
AwaitDrain(c) ==
  IF sessions # 0
  THEN /\ condWait' = condWait \cup {c}
       /\ closer' = [closer EXCEPT ![c] = "closing"]
  ELSE /\ closer' = [closer EXCEPT ![c] = "returned"]
       /\ UNCHANGED condWait

CloseGroup(c) ==
  /\ closer[c] \in {"idle", "nb"}
  /\ isClosed' = TRUE
  /\ AwaitDrain(c)
  /\ UNCHANGED <<sessions, panicked, worker>>

CloseGroupWoken(c) ==
  /\ closer[c] = "closing"
  /\ c \notin condWait
  /\ AwaitDrain(c)
  /\ UNCHANGED <<isClosed, sessions, panicked, worker>>

(* CloseGroupNB marks the group closed and leaves CloseGroup to a goroutine. *)
CloseGroupNB(c) ==
  /\ closer[c] = "idle"
  /\ isClosed' = TRUE
  /\ closer' = [closer EXCEPT ![c] = "nb"]
  /\ UNCHANGED <<sessions, condWait, panicked, worker>>

Next ==
  \/ \E w \in Workers : AddSession(w) \/ DoneSession(w)
  \/ \E c \in Closers : CloseGroup(c) \/ CloseGroupWoken(c) \/ CloseGroupNB(c)

Spec == Init /\ [][Next]_vars

-----------------------------------------------------------------------------
(* Type invariant. *)
TypeOK ==
  /\ isClosed \in BOOLEAN
  /\ sessions \in Nat
  /\ condWait \in SUBSET Closers
  /\ panicked \in BOOLEAN
  /\ worker \in [Workers -> WorkerState]
  /\ closer \in [Closers -> CloserState]

(* The counter is exactly the number of sessions granted and not yet ended, *)
(* and it stays below the largest value: the refusals of AddSession, not    *)
(* luck, keep DoneSession away from its panic (wait_utils.go:97).           *)
SessionsCounted ==
  /\ sessions = Cardinality(Open)
  /\ sessions < MaxUint64
  /\ ~panicked

(* Once some CloseGroup has returned no session is open, and none can be    *)
(* opened again: what a.driver.Close() after shutWg.CloseGroup() relies on  *)
(* (agent.go:225-230).                                                      *)
DrainedOnReturn ==
  (\E c \in Closers : closer[c] = "returned") => isClosed /\ Open = {}

(* No closer sleeps in cond.Wait() with nobody left to wake it: the last    *)
(* DoneSession broadcasts, and no later step can strand a waiter.           *)
NoLostWakeup == condWait # {} => Open # {}
=============================================================================
