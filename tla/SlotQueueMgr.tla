---------------------------- MODULE SlotQueueMgr ----------------------------
(***************************************************************************)
(* slotQueueMgr and the statistics of its slot queues (api/agent/slots.go),*)
(* the trackers that keep them (api/agent/state_trackers.go), and          *)
(* hotLauncher (api/agent/agent.go), which reads them to launch containers *)
(* and to destroy the queue.  One key of the map; every slotQueue object   *)
(* made for it has its own number.                                         *)
(*                                                                         *)
(* UpdateState advances the tracker under the tracker's lock, then enters  *)
(* the new state and exits the old one under the queue's statsLock, one    *)
(* lock section each.  Requests and containers are trackers alike; the     *)
(* steps of one tracker are sequential.                                    *)
(***************************************************************************)
EXTENDS Integers, FiniteSets

CONSTANTS
  Requests,     \* calls for the key
  Containers,   \* containers that may be launched for it
  MaxQueues     \* bound on the slotQueue objects ever made

ASSUME MgrAssumption ==
  /\ IsFiniteSet(Requests) /\ IsFiniteSet(Containers)
  /\ Requests \cap Containers = {}
  /\ MaxQueues \in Nat

Trackers == Requests \cup Containers
Queues   == 1..MaxQueues
NoQueue  == 0

ReqStates == {"rWait", "rExec"}
CtrStates == {"cWait", "cStart", "cIdle", "cPaused", "cBusy"}
Counted   == ReqStates \cup CtrStates    \* None and Done are not counted
States    == Counted \cup {"None", "Done"}

VARIABLES
  hot,          \* slotQueueMgr.hot[key], or NoQueue
  made,         \* slotQueue objects made so far
  stats,        \* [Queues -> [Counted -> uint64]]
  queue,        \* [Trackers -> the queue of its call, or NoQueue]
  st, old,      \* state of each tracker, and the one it has to exit
  step,         \* "rest", or the half of UpdateState that is due
  fresh,        \* requests that made their queue and have to spawn a launcher
  launcher,     \* program counter of each queue's hotLauncher
  launching,    \* [Queues -> the container checkLaunch is about]
  signalled     \* queues with a caller in their signaller channel

tvars == <<stats, queue, st, old, step>>
lvars == <<launcher, launching, signalled>>
mgrVars  == <<hot, made, fresh, tvars, lvars>>

NoCtr == 0
LauncherPC == {"none", "check", "update", "token", "select", "gone"}

MgrInit ==
  /\ hot = NoQueue /\ made = 0
  /\ stats = [q \in Queues |-> [s \in Counted |-> 0]]
  /\ queue = [t \in Trackers |-> NoQueue]
  /\ st = [t \in Trackers |-> "None"] /\ old = [t \in Trackers |-> "None"]
  /\ step = [t \in Trackers |-> "rest"]
  /\ fresh = {}
  /\ launcher = [q \in Queues |-> "none"]
  /\ launching = [q \in Queues |-> NoCtr]
  /\ signalled = {}

-----------------------------------------------------------------------------
(* The statistics. *)

isIdle(s) == \A c \in Counted : s[c] = 0

isNewContainerNeeded(s) ==
  LET idleWorkers == s["cIdle"] + s["cPaused"]
      effectiveWaiters == IF idleWorkers < s["rWait"] THEN s["rWait"] - idleWorkers ELSE 0
      effectiveStarters == s["cStart"] + s["cWait"]
  IN  /\ effectiveWaiters # 0
      /\ ~(effectiveStarters > 0 /\ effectiveStarters >= effectiveWaiters)

\* enterRequestState, exitRequestState and their container twins
Add(q, s, n) ==
  stats' = IF s \in Counted THEN [stats EXCEPT ![q][s] = @ + n] ELSE stats

-----------------------------------------------------------------------------
(* UpdateState. *)

Rank == [s \in States |->
  CASE s = "None" -> 0 [] s \in {"rWait", "cWait"} -> 1
    [] s \in {"rExec", "cStart"} -> 2 [] s = "cIdle" -> 3
    [] s = "cPaused" -> 4 [] s = "cBusy" -> 5 [] s = "Done" -> 6]

MayMove(a, b) ==
  \/ Rank[a] < Rank[b]
  \/ a = "cPaused" /\ b = "cIdle"
  \/ a = "cBusy" /\ b \in {"cIdle", "cPaused"}

\* A move that is not allowed returns at once and changes nothing.
UpdateState(t, s) ==
  /\ step[t] = "rest"
  /\ MayMove(st[t], s)
  /\ st' = [st EXCEPT ![t] = s] /\ old' = [old EXCEPT ![t] = st[t]]
  /\ step' = [step EXCEPT ![t] = "enter"]

\* mutant: the old state is left before the new one is entered
ExitThenEnter(t) ==
  /\ \/ /\ step[t] = "enter"
        /\ Add(queue[t], old[t], -1)
        /\ step' = [step EXCEPT ![t] = "exit"]
     \/ /\ step[t] = "exit"
        /\ Add(queue[t], st[t], 1)
        /\ step' = [step EXCEPT ![t] = "rest"]
  /\ UNCHANGED <<hot, made, fresh, queue, st, old, lvars>>

EnterOnly(t) ==             \* mutant: the old state is not left
  /\ step[t] # "rest"
  /\ Add(queue[t], st[t], 1)
  /\ step' = [step EXCEPT ![t] = "rest"]
  /\ UNCHANGED <<hot, made, fresh, queue, st, old, lvars>>

\* The two halves of UpdateState: the new state is entered, then the old left.
EnterThenExit(t) ==
  /\ \/ /\ step[t] = "enter"
        /\ Add(queue[t], st[t], 1)
        /\ step' = [step EXCEPT ![t] = "exit"]
     \/ /\ step[t] = "exit"
        /\ Add(queue[t], old[t], -1)
        /\ step' = [step EXCEPT ![t] = "rest"]
  /\ UNCHANGED <<hot, made, fresh, queue, st, old, lvars>>

-----------------------------------------------------------------------------
(* A request: submit and getSlot. *)

GetUnmapped(r) ==           \* mutant: the new queue is not stored
  /\ queue[r] = NoQueue /\ made < MaxQueues
  /\ made' = made + 1
  /\ queue' = [queue EXCEPT ![r] = made + 1]
  /\ fresh' = fresh \cup {r}
  /\ UNCHANGED <<hot, stats, st, old, step, lvars>>

getSlotQueue(r) ==
  /\ queue[r] = NoQueue
  /\ IF hot # NoQueue
     THEN /\ queue' = [queue EXCEPT ![r] = hot]
          /\ UNCHANGED <<hot, made, fresh>>
     ELSE /\ made < MaxQueues
          /\ made' = made + 1 /\ hot' = made + 1
          /\ queue' = [queue EXCEPT ![r] = made + 1]
          /\ fresh' = fresh \cup {r}
  /\ UNCHANGED <<stats, st, old, step, lvars>>

WaitForSlot(r) ==
  /\ queue[r] # NoQueue /\ st[r] = "None" /\ UpdateState(r, "rWait")
  /\ UNCHANGED <<hot, made, fresh, stats, queue, lvars>>

SpawnLauncher(r) ==
  /\ r \in fresh /\ st[r] = "rWait" /\ step[r] = "rest"
  /\ fresh' = fresh \ {r}
  /\ launcher' = [launcher EXCEPT ![queue[r]] = "check"]
  /\ UNCHANGED <<hot, made, tvars, launching, signalled>>

\* waitHot sends itself on the signaller, a channel of capacity one.
Ping(r) ==
  /\ r \notin fresh /\ st[r] = "rWait" /\ step[r] = "rest"
  /\ signalled' = signalled \cup {queue[r]}
  /\ UNCHANGED <<hot, made, fresh, tvars, launcher, launching>>

\* A slot was acquired: hotSlot.exec.
Exec(r) ==
  /\ r \notin fresh /\ st[r] = "rWait" /\ UpdateState(r, "rExec")
  /\ UNCHANGED <<hot, made, fresh, stats, queue, lvars>>

\* The call ends, with or without a slot: endStateTrackers.
EndRequest(r) ==
  /\ r \notin fresh /\ st[r] \in ReqStates /\ UpdateState(r, "Done")
  /\ UNCHANGED <<hot, made, fresh, stats, queue, lvars>>

-----------------------------------------------------------------------------
(* hotLauncher and checkLaunch. *)

\* checkLaunch takes a copy of the statistics.
CheckLaunch(q) ==
  /\ launcher[q] = "check"
  /\ \/ /\ ~isNewContainerNeeded(stats[q])
        /\ launcher' = [launcher EXCEPT ![q] = "select"]
        /\ UNCHANGED launching
     \/ /\ isNewContainerNeeded(stats[q])
        /\ \E k \in Containers :
             /\ queue[k] = NoQueue
             /\ \A p \in Queues : launching[p] # k
             /\ launching' = [launching EXCEPT ![q] = k]
        /\ launcher' = [launcher EXCEPT ![q] = "update"]
  /\ UNCHANGED <<hot, made, fresh, tvars, signalled>>

NewContainer(q) ==
  LET k == launching[q] IN
  /\ launcher[q] = "update" /\ UpdateState(k, "cWait")
  /\ queue' = [queue EXCEPT ![k] = q]
  /\ launcher' = [launcher EXCEPT ![q] = "token"]
  /\ UNCHANGED <<hot, made, fresh, stats, launching, signalled>>

\* With resources runHot gets a goroutine, without any the container is over
\* before it started, and checkLaunch returns.
Resources(q) ==
  LET k == launching[q] IN
  /\ launcher[q] = "token" /\ step[k] = "rest"
  /\ \/ st[k] = "cWait" /\ UpdateState(k, "Done") /\ UNCHANGED lvars
     \/ /\ st[k] \in {"cWait", "Done"}
        /\ launcher' = [launcher EXCEPT ![q] = "select"]
        /\ launching' = [launching EXCEPT ![q] = NoCtr]
        /\ UNCHANGED <<st, old, step, signalled>>
  /\ UNCHANGED <<hot, made, fresh, stats, queue>>

\* The select of hotLauncher receives a caller ...
Signalled(q) ==
  /\ launcher[q] = "select" /\ q \in signalled
  /\ signalled' = signalled \ {q}
  /\ launcher' = [launcher EXCEPT ![q] = "check"]
  /\ UNCHANGED <<hot, made, fresh, tvars, launching>>

\* ... or times out, after inactivity or at shutdown: deleteSlotQueue, under the manager's lock.
TimedOut(q) ==
  /\ launcher[q] = "select"
  /\ IF isIdle(stats[q])
     THEN hot' = NoQueue /\ launcher' = [launcher EXCEPT ![q] = "gone"]
     ELSE UNCHANGED hot /\ launcher' = [launcher EXCEPT ![q] = "check"]
  /\ UNCHANGED <<made, fresh, tvars, launching, signalled>>

-----------------------------------------------------------------------------
(* A container: runHot and runHotReq.  Its end may follow any state.  In    *)
(* cWait it is the launcher's until checkLaunch has handed it over.         *)
MoveCtr(k) ==
  /\ queue[k] # NoQueue
  /\ \A q \in Queues : launching[q] # k
  /\ \/ st[k] = "cWait" /\ UpdateState(k, "cStart")
     \/ st[k] \in {"cStart", "cBusy"} /\ UpdateState(k, "cIdle")
     \/ st[k] = "cIdle" /\ UpdateState(k, "cBusy")
     \/ st[k] \in {"cStart", "cIdle", "cBusy"} /\ UpdateState(k, "Done")
  /\ UNCHANGED <<hot, made, fresh, stats, queue, lvars>>

MgrNext ==
  \/ \E t \in Trackers : EnterThenExit(t)
  \/ \E r \in Requests : getSlotQueue(r) \/ WaitForSlot(r) \/ SpawnLauncher(r)
                         \/ Ping(r) \/ Exec(r) \/ EndRequest(r)
  \/ \E q \in Queues : CheckLaunch(q) \/ NewContainer(q) \/ Resources(q)
                       \/ Signalled(q) \/ TimedOut(q)
  \/ \E k \in Containers : MoveCtr(k)

MgrSpec == MgrInit /\ [][MgrNext]_mgrVars

(* Goroutines run, and the launcher's inactivity timer fires.  Nobody has   *)
(* to make calls, and neither calls nor containers have to end.             *)
MgrFairness ==
  /\ \A t \in Trackers : WF_mgrVars(EnterThenExit(t))
  /\ \A r \in Requests : WF_mgrVars(SpawnLauncher(r))
  /\ \A q \in Queues : /\ WF_mgrVars(CheckLaunch(q) \/ NewContainer(q) \/ Resources(q))
                       /\ WF_mgrVars(Signalled(q) \/ TimedOut(q))

MgrFairSpec == MgrSpec /\ MgrFairness

-----------------------------------------------------------------------------
(* Type invariant. *)
MgrTypeOK ==
  /\ hot \in Queues \cup {NoQueue} /\ made \in 0..MaxQueues
  /\ stats \in [Queues -> [Counted -> Nat]]
  /\ queue \in [Trackers -> Queues \cup {NoQueue}]
  /\ st \in [Trackers -> States] /\ old \in [Trackers -> States]
  /\ step \in [Trackers -> {"rest", "enter", "exit"}]
  /\ fresh \in SUBSET Requests
  /\ launcher \in [Queues -> LauncherPC]
  /\ launching \in [Queues -> Containers \cup {NoCtr}]
  /\ signalled \in SUBSET Queues

(* isIdle never overlooks a request or a container that has been counted    *)
(* and is not over: entering before exiting leaves no instant at which it   *)
(* is in no state at all (state_trackers.go:112-115).                       *)
IdleIsSound ==
  \A q \in Queues : isIdle(stats[q]) =>
    \A t \in Trackers : queue[t] = q =>
      \/ st[t] = "None" \/ (old[t] = "None" /\ step[t] = "enter")
      \/ st[t] = "Done" /\ step[t] = "rest"

(* A queue has one launcher, and a launcher that runs looks after the queue *)
(* that getSlotQueue gives out: deleteSlotQueue removes the entry by key,   *)
(* and never that of a later queue.                                         *)
LauncherOfMapped ==
  /\ \A q \in Queues : launcher[q] \notin {"none", "gone"} => hot = q
  /\ \A r \in fresh : launcher[queue[r]] = "none" /\ hot = queue[r]

Quiet(q) == /\ launcher[q] \notin {"none", "gone"}
            /\ \A t \in Trackers : queue[t] = q => st[t] = "Done"

(* A queue on which all is over is destroyed, unless a new call comes.      *)
QuietQueueReaped ==
  \A q \in Queues : Quiet(q) ~> ~Quiet(q)
=============================================================================
