--------------------------- MODULE ResourceTracker ---------------------------
(***************************************************************************)
(* resourceTracker (api/agent/resource.go): the memory and CPU budget of   *)
(* one agent.  A goroutine that wants to start a container asks for a      *)
(* token, either blocking (GetResourceToken, bounded by its context) or    *)
(* not (GetResourceTokenNB), and closes the token when the container ends. *)
(*                                                                         *)
(* Every section under cond.L is one action.  cond.Wait() parks the        *)
(* goroutine in condWait; Broadcast empties condWait.  A token's release   *)
(* broadcasts AFTER it has dropped the lock, so the window in between is a *)
(* state of its own ("closing").  Memory is asked for in MB and accounted  *)
(* in bytes; the product stays far below 2^64 because models.Fn bounds     *)
(* Memory, so the integers are unbounded here.                             *)
(***************************************************************************)
EXTENDS Integers, FiniteSets

CONSTANTS
  Procs,      \* goroutines that ask for tokens (one hotLauncher each)
  RamTotal,   \* resourceTracker.ramTotal, bytes
  CpuTotal,   \* resourceTracker.cpuTotal, milli CPUs
  Mem1MB,     \* bytes in a MB
  MemReq,     \* requested memory sizes, MB
  CpuReq      \* requested CPU quotas, milli CPUs

ASSUME ResourceAssumption ==
  /\ IsFiniteSet(Procs)
  /\ RamTotal \in Nat /\ CpuTotal \in Nat
  /\ Mem1MB \in Nat \ {0}
  /\ MemReq \subseteq Nat /\ CpuReq \subseteq Nat

VARIABLES
  ramUsed, cpuUsed,   \* resourceTracker.ramUsed (bytes), cpuUsed
  pc,                 \* where each goroutine is
  req,                \* its current request [mem (bytes), cpu]
  condWait,           \* goroutines parked in cond.Wait()
  ctxDone,            \* the context of its GetResourceToken is done
  armed,              \* the helper goroutine that watches that context still
                      \* has to run
  need                \* NeededCapacity() of its CapacityFull token

trackerVars == <<ramUsed, cpuUsed, pc, req, condWait, ctxDone, armed, need>>

PC == {"idle", "enter", "wait", "held", "closing", "full"}

Request == [mem : Nat, cpu : Nat]
Need    == [mem : Nat, cpu : Nat]
NoReq   == [mem |-> 0, cpu |-> 0]
NoNeed  == [mem |-> 0, cpu |-> 0]

TrackerInit ==
  /\ ramUsed = 0 /\ cpuUsed = 0
  /\ pc = [p \in Procs |-> "idle"]
  /\ req = [p \in Procs |-> NoReq]
  /\ condWait = {}
  /\ ctxDone = [p \in Procs |-> FALSE]
  /\ armed = [p \in Procs |-> FALSE]
  /\ need = [p \in Procs |-> NoNeed]

-----------------------------------------------------------------------------
AvailMem == RamTotal - ramUsed
AvailCPU == CpuTotal - cpuUsed

IsResourcePossible(r) == r.mem <= RamTotal /\ r.cpu <= CpuTotal

isResourceAvailableLocked(r) == AvailMem >= r.mem /\ AvailCPU >= r.cpu

allocResourcesLocked(p, r) ==
  /\ ramUsed' = ramUsed + r.mem
  /\ cpuUsed' = cpuUsed + r.cpu
  /\ pc' = [pc EXCEPT ![p] = "held"]

(* What a starved caller is told to evict: whole MBs, rounded down.         *)
NeededCapacity(r) ==
  [mem |-> IF AvailMem < r.mem THEN (r.mem - AvailMem) \div Mem1MB ELSE 0,
   cpu |-> IF AvailCPU < r.cpu THEN r.cpu - AvailCPU ELSE 0]

(* The locals of a call (req, need, ctxDone, armed) are reset as it ends.   *)
(* A request that exceeds the machine gets a CapacityFull token without the *)
(* lock, and asks for all of itself.                                        *)
GetResourceTokenNB(p, m, c) ==
  LET r == [mem |-> m * Mem1MB, cpu |-> c] IN
  /\ pc[p] = "idle"
  /\ req' = [req EXCEPT ![p] = r]
  /\ \/ /\ IsResourcePossible(r)
        /\ isResourceAvailableLocked(r)
        /\ allocResourcesLocked(p, r)
        /\ UNCHANGED need
     \/ /\ IsResourcePossible(r)
        /\ ~isResourceAvailableLocked(r)
        /\ need' = [need EXCEPT ![p] = NeededCapacity(r)]
        /\ pc' = [pc EXCEPT ![p] = "full"]
        /\ UNCHANGED <<ramUsed, cpuUsed>>
     \/ /\ ~IsResourcePossible(r)
        /\ need' = [need EXCEPT ![p] = [mem |-> m, cpu |-> c]]
        /\ pc' = [pc EXCEPT ![p] = "full"]
        /\ UNCHANGED <<ramUsed, cpuUsed>>
  /\ UNCHANGED <<condWait, ctxDone, armed>>

(* Close of an error token: there is nothing to give back.                  *)
CloseFull(p) ==
  /\ pc[p] = "full"
  /\ pc' = [pc EXCEPT ![p] = "idle"]
  /\ req' = [req EXCEPT ![p] = NoReq]
  /\ need' = [need EXCEPT ![p] = NoNeed]
  /\ UNCHANGED <<ramUsed, cpuUsed, condWait, ctxDone, armed>>

-----------------------------------------------------------------------------
(* GetResourceToken returns nil at once, changing nothing, when the request *)
(* is impossible or its context is already done; otherwise it starts the    *)
(* helper goroutine and goes for the lock.                                  *)
GetResourceToken(p, m, c) ==
  LET r == [mem |-> m * Mem1MB, cpu |-> c] IN
  /\ pc[p] = "idle"
  /\ IsResourcePossible(r)
  /\ req' = [req EXCEPT ![p] = r]
  /\ pc' = [pc EXCEPT ![p] = "enter"]
  /\ armed' = [armed EXCEPT ![p] = TRUE]
  /\ UNCHANGED <<ramUsed, cpuUsed, condWait, ctxDone, need>>

(* The loop under the lock, first or after a wake-up: park, give up, or     *)
(* take the resources.  On return the deferred cancel() lets the helper     *)
(* run; it finds isWaiting false and does nothing, so it is simply disarmed.*)
AwaitResource(p) ==
  /\ pc[p] = "enter" \/ (pc[p] = "wait" /\ p \notin condWait)
  /\ \/ /\ ~isResourceAvailableLocked(req[p]) /\ ~ctxDone[p]
        /\ condWait' = condWait \cup {p}
        /\ pc' = [pc EXCEPT ![p] = "wait"]
        /\ UNCHANGED <<ramUsed, cpuUsed, req, ctxDone, armed>>
     \/ /\ ctxDone[p]
        /\ pc' = [pc EXCEPT ![p] = "idle"]
        /\ req' = [req EXCEPT ![p] = NoReq]
        /\ ctxDone' = [ctxDone EXCEPT ![p] = FALSE]
        /\ armed' = [armed EXCEPT ![p] = FALSE]
        /\ UNCHANGED <<ramUsed, cpuUsed, condWait>>
     \/ /\ isResourceAvailableLocked(req[p]) /\ ~ctxDone[p]
        /\ allocResourcesLocked(p, req[p])
        /\ armed' = [armed EXCEPT ![p] = FALSE]
        /\ UNCHANGED <<condWait, req, ctxDone>>
  /\ UNCHANGED need

(* The HotPoll timeout, or the launcher's own context, ends the wait.       *)
CtxDone(p) ==
  /\ pc[p] \in {"enter", "wait"}
  /\ ~ctxDone[p]
  /\ ctxDone' = [ctxDone EXCEPT ![p] = TRUE]
  /\ UNCHANGED <<ramUsed, cpuUsed, pc, req, condWait, armed, need>>

\* The goroutine GetResourceToken spawned: Broadcast once the context is done.
CtxWatcher(p) ==
  /\ armed[p] /\ ctxDone[p]
  /\ armed' = [armed EXCEPT ![p] = FALSE]
  /\ condWait' = IF pc[p] = "wait" THEN {} ELSE condWait
  /\ UNCHANGED <<ramUsed, cpuUsed, pc, req, ctxDone, need>>

-----------------------------------------------------------------------------
CloseMemoryOnly(p) ==               \* mutant: the CPU is not given back
  /\ pc[p] = "held"
  /\ ramUsed' = ramUsed - req[p].mem
  /\ pc' = [pc EXCEPT ![p] = "closing"]
  /\ req' = [req EXCEPT ![p] = NoReq]
  /\ UNCHANGED <<cpuUsed, condWait, ctxDone, armed, need>>

(* resourceToken.Close, once per token: give back under the lock ...        *)
CloseRelease(p) ==
  /\ pc[p] = "held"
  /\ ramUsed' = ramUsed - req[p].mem
  /\ cpuUsed' = cpuUsed - req[p].cpu
  /\ pc' = [pc EXCEPT ![p] = "closing"]
  /\ req' = [req EXCEPT ![p] = NoReq]
  /\ UNCHANGED <<condWait, ctxDone, armed, need>>

(* ... and broadcast after the lock has been dropped.                       *)
CloseSilent(p) ==                   \* mutant: Close without the Broadcast
  /\ pc[p] = "closing"
  /\ pc' = [pc EXCEPT ![p] = "idle"]
  /\ UNCHANGED <<ramUsed, cpuUsed, req, condWait, ctxDone, armed, need>>

CloseBroadcast(p) ==
  /\ pc[p] = "closing"
  /\ pc' = [pc EXCEPT ![p] = "idle"]
  /\ condWait' = {}
  /\ UNCHANGED <<ramUsed, cpuUsed, req, ctxDone, armed, need>>

-----------------------------------------------------------------------------
TrackerNext ==
  \E p \in Procs :
    \/ \E m \in MemReq, c \in CpuReq :
         GetResourceTokenNB(p, m, c) \/ GetResourceToken(p, m, c)
    \/ CloseFull(p) \/ AwaitResource(p) \/ CtxDone(p) \/ CtxWatcher(p)
    \/ CloseRelease(p) \/ CloseBroadcast(p)

TrackerSpec == TrackerInit /\ [][TrackerNext]_trackerVars

-----------------------------------------------------------------------------
Held == {p \in Procs : pc[p] = "held"}

\* One element for each of the f[p] units that p holds, p \in H.
Units(H, f, total) ==
  {u \in Procs \X (1..total) : u[1] \in H /\ u[2] <= f[u[1]]}
RamUnits == Units(Held, [p \in Procs |-> req[p].mem], RamTotal)
CpuUnits == Units(Held, [p \in Procs |-> req[p].cpu], CpuTotal)

(* Type invariant. *)
TrackerTypes ==
  /\ ramUsed \in Int /\ cpuUsed \in Int
  /\ pc \in [Procs -> PC]
  /\ req \in [Procs -> Request]
  /\ condWait \in SUBSET Procs
  /\ ctxDone \in [Procs -> BOOLEAN]
  /\ armed \in [Procs -> BOOLEAN]
  /\ need \in [Procs -> Need]

(* The counters are exactly the sum of the tokens that are held: nothing is *)
(* leaked by a cancelled wait and nothing is given back twice, so the       *)
(* unsigned subtraction of a release (resource.go:158) cannot wrap.         *)
Conserved ==
  /\ ramUsed = Cardinality(RamUnits)
  /\ cpuUsed = Cardinality(CpuUnits)

(* Running containers never reserve more than the machine has, although     *)
(* woken waiters and non-blocking callers race for what a release frees.    *)
NoOvercommit == ramUsed <= RamTotal /\ cpuUsed <= CpuTotal

(* The tokens that are held fit the machine: the tracker never counts more  *)
(* than there is, and it counts them exactly, whatever was cancelled,       *)
(* refused or closed in between.                                            *)
TokensFit == Conserved /\ NoOvercommit

(* A goroutine asleep in cond.Wait() whose request could be met, or whose   *)
(* context is done, has a Broadcast on its way (resource.go:165, 228-233).  *)
NoLostWakeup ==
  \A p \in condWait :
    /\ isResourceAvailableLocked(req[p]) => \E q \in Procs : pc[q] = "closing"
    /\ ctxDone[p] => armed[p]
=============================================================================
