------------------------------ MODULE SlotQueue ------------------------------
(***************************************************************************)
(* slotQueue (api/agent/slots.go) between the containers that offer slots  *)
(* (runHotReq, api/agent/agent.go) and the calls that wait for one         *)
(* (waitHot).  A container pushes a slotToken on the LIFO list and         *)
(* selects on its trigger and on the reasons to leave (idle timeout,       *)
(* eviction, shutdown).  Each waiting call has a dequeuer goroutine that   *)
(* peeks at the newest token and hands it over an unbuffered channel.      *)
(* Whoever wins the compare-and-swap on the token's isBusy owns the slot,  *)
(* takes the token off the list and closes the trigger, in three steps.    *)
(*                                                                         *)
(* Sections under cond.L are one action; Broadcast after the unlock in     *)
(* queueSlot is a step of its own.                                         *)
(***************************************************************************)
EXTENDS Naturals, Sequences, FiniteSets, SequencesExt

CONSTANTS
  Ctrs,         \* hot containers of this queue
  Callers,      \* calls that go through getSlot
  MaxTokens,    \* bound: slotQueue.nextId stays below it
  NoOne

ASSUME SlotQueueAssumption ==
  /\ Ctrs \cap Callers = {}
  /\ NoOne \notin Ctrs \cup Callers
  /\ Callers \cap {"ready", "free", "over", "gone"} = {}   \* Serving tells them apart
  /\ MaxTokens \in Nat

VARIABLES
  slots,        \* slotQueue.slots: ids of the queued tokens, oldest first
  nextId,       \* slotQueue.nextId
  winner,       \* [ids -> who swapped isBusy from 0 to 1, or NoOne]
  triggered,    \* ids whose trigger channel is closed
  finished,     \* ids whose slot.done has a value: "ok" or "err" per id
  ctr, ctrTok,  \* program counter and current token of each container
  caller, item, \* program counter of each call and the token it received
  dq, dqItem,   \* program counter of each dequeuer and the token it peeked
  condWait,     \* dequeuers parked in cond.Wait()
  ctxDone,      \* dequeuers whose context is done
  armed         \* calls whose ctx-watching goroutine has not run yet

qvars == <<slots, nextId, winner, triggered, finished>>
kvars == <<ctr, ctrTok>>
cvars == <<caller, item>>
dvars == <<dq, dqItem, condWait, ctxDone, armed>>
vars  == <<qvars, kvars, cvars, dvars>>

Ids == 0..(MaxTokens - 1)
None == MaxTokens            \* no token

CtrPC    == {"ready", "bcast", "select", "acquire", "remove", "trigger",
             "busy", "gone"}
CallerPC == {"idle", "wait", "acquire", "remove", "trigger", "exec", "done"}
DqPC     == {"off", "lock", "parked", "send"}

Init ==
  /\ slots = <<>> /\ nextId = 0
  /\ winner = [i \in Ids |-> NoOne]
  /\ triggered = {}
  /\ finished = [i \in Ids |-> "no"]
  /\ ctr = [k \in Ctrs |-> "ready"] /\ ctrTok = [k \in Ctrs |-> None]
  /\ caller = [c \in Callers |-> "idle"] /\ item = [c \in Callers |-> None]
  /\ dq = [c \in Callers |-> "off"] /\ dqItem = [c \in Callers |-> None]
  /\ condWait = {} /\ ctxDone = {} /\ armed = {}

-----------------------------------------------------------------------------
(* acquireSlot: compare-and-swap, removal under the lock, close(trigger).   *)

SwapBlindly(who, i) == TRUE          \* mutant: isBusy set without comparing
Swap(who, i) == winner[i] = NoOne

\* The loop runs from the newest token down and stops at the first match.
LastAt(i, p) == slots[p] = i /\ \A o \in (p + 1)..Len(slots) : slots[o] # i

RemoveToken(i) ==
  slots' = IF \E p \in 1..Len(slots) : LastAt(i, p)
           THEN RemoveAt(slots, CHOOSE p \in 1..Len(slots) : LastAt(i, p))
           ELSE slots

-----------------------------------------------------------------------------
(* runHotReq, a container's turn. *)

\* queueSlot: push under the lock ...
queueSlot(k) ==
  /\ ctr[k] = "ready" /\ nextId < MaxTokens
  /\ slots' = Append(slots, nextId)
  /\ nextId' = nextId + 1
  /\ ctrTok' = [ctrTok EXCEPT ![k] = nextId]
  /\ ctr' = [ctr EXCEPT ![k] = "bcast"]
  /\ UNCHANGED <<winner, triggered, finished, cvars, dvars>>

\* ... then Broadcast without it.
queueSlotSilent(k) ==                \* mutant: no Broadcast
  /\ ctr[k] = "bcast"
  /\ ctr' = [ctr EXCEPT ![k] = "select"]
  /\ UNCHANGED <<qvars, ctrTok, cvars, dvars>>

queueSlotBroadcast(k) ==
  /\ ctr[k] = "bcast"
  /\ condWait' = {}
  /\ ctr' = [ctr EXCEPT ![k] = "select"]
  /\ UNCHANGED <<qvars, ctrTok, cvars, dq, dqItem, ctxDone, armed>>

\* The select ends on the trigger ...
runHotReqTriggered(k) ==
  /\ ctr[k] = "select" /\ ctrTok[k] \in triggered
  /\ ctr' = [ctr EXCEPT ![k] = "acquire"]
  /\ UNCHANGED <<qvars, ctrTok, cvars, dvars>>

\* ... or on idle timeout, eviction, container or agent shutdown.
runHotReqLeave(k) ==
  /\ ctr[k] = "select"
  /\ ctr' = [ctr EXCEPT ![k] = "acquire"]
  /\ UNCHANGED <<qvars, ctrTok, cvars, dvars>>

\* Losing the slot means that a call has it: serve it.
ctrAcquire(k) ==
  /\ ctr[k] = "acquire"
  /\ IF Swap(k, ctrTok[k])
     THEN /\ winner' = [winner EXCEPT ![ctrTok[k]] = k]
          /\ ctr' = [ctr EXCEPT ![k] = "remove"]
     ELSE /\ ctr' = [ctr EXCEPT ![k] = "busy"]
          /\ UNCHANGED winner
  /\ UNCHANGED <<slots, nextId, triggered, finished, ctrTok, cvars, dvars>>

ctrRemove(k) ==
  /\ ctr[k] = "remove"
  /\ RemoveToken(ctrTok[k])
  /\ ctr' = [ctr EXCEPT ![k] = "trigger"]
  /\ UNCHANGED <<nextId, winner, triggered, finished, ctrTok, cvars, dvars>>

ctrTrigger(k) ==
  /\ ctr[k] = "trigger"
  /\ triggered' = triggered \cup {ctrTok[k]}
  /\ ctr' = [ctr EXCEPT ![k] = "gone"]
  /\ UNCHANGED <<slots, nextId, winner, finished, ctrTok, cvars, dvars>>

\* The main goroutine of runHot waits on slot.done and on nothing else.
slotDone(k) ==
  /\ ctr[k] = "busy" /\ finished[ctrTok[k]] # "no"
  /\ ctr' = [ctr EXCEPT ![k] =
               IF finished[ctrTok[k]] = "ok" THEN "ready" ELSE "gone"]
  /\ ctrTok' = [ctrTok EXCEPT ![k] = None]
  /\ UNCHANGED <<qvars, cvars, dvars>>

-----------------------------------------------------------------------------
(* waitHot, a call's turn. *)

\* startDequeuer: two goroutines, the dequeuer and the context watcher.
startDequeuer(c) ==
  /\ caller[c] = "idle"
  /\ caller' = [caller EXCEPT ![c] = "wait"]
  /\ dq' = [dq EXCEPT ![c] = "lock"]
  /\ armed' = armed \cup {c}
  /\ UNCHANGED <<qvars, kvars, item, dqItem, condWait, ctxDone>>

\* Rendezvous on the unbuffered output channel.
waitHotReceive(c) ==
  /\ caller[c] = "wait" /\ dq[c] = "send"
  /\ item' = [item EXCEPT ![c] = dqItem[c]]
  /\ caller' = [caller EXCEPT ![c] = "acquire"]
  /\ dq' = [dq EXCEPT ![c] = "lock"] /\ dqItem' = [dqItem EXCEPT ![c] = None]
  /\ UNCHANGED <<qvars, kvars, condWait, ctxDone, armed>>

waitHotAcquire(c) ==
  /\ caller[c] = "acquire"
  /\ IF Swap(c, item[c])
     THEN /\ winner' = [winner EXCEPT ![item[c]] = c]
          /\ caller' = [caller EXCEPT ![c] = "remove"]
          /\ UNCHANGED item
     ELSE /\ caller' = [caller EXCEPT ![c] = "wait"]
          /\ item' = [item EXCEPT ![c] = None]
          /\ UNCHANGED winner
  /\ UNCHANGED <<slots, nextId, triggered, finished, kvars, dvars>>

waitHotRemove(c) ==
  /\ caller[c] = "remove"
  /\ RemoveToken(item[c])
  /\ caller' = [caller EXCEPT ![c] = "trigger"]
  /\ UNCHANGED <<nextId, winner, triggered, finished, item, kvars, dvars>>

\* acquireSlot returns true, and the deferred cancel() ends the dequeuer.
waitHotTrigger(c) ==
  /\ caller[c] = "trigger"
  /\ triggered' = triggered \cup {item[c]}
  /\ caller' = [caller EXCEPT ![c] = "exec"]
  /\ ctxDone' = ctxDone \cup {c}
  /\ UNCHANGED <<slots, nextId, winner, finished, item, kvars,
                 dq, dqItem, condWait, armed>>

\* Client gone, timeout, server shutdown or an error from the launcher.
waitHotLeave(c) ==
  /\ caller[c] = "wait"
  /\ caller' = [caller EXCEPT ![c] = "done"]
  /\ ctxDone' = ctxDone \cup {c}
  /\ UNCHANGED <<qvars, kvars, item, dq, dqItem, condWait, armed>>

\* slot.exec, then slot.Close: the first value in slot.done decides.
execDone(c) ==
  /\ caller[c] = "exec"
  /\ \E res \in {"ok", "err"} : finished' = [finished EXCEPT ![item[c]] = res]
  /\ caller' = [caller EXCEPT ![c] = "done"]
  /\ UNCHANGED <<slots, nextId, winner, triggered, item, kvars, dvars>>

-----------------------------------------------------------------------------
(* The dequeuer goroutine: with the lock, leave, park or peek at the newest *)
(* token.                                                                   *)
dequeue(c) ==
  /\ dq[c] = "lock" \/ (dq[c] = "parked" /\ c \notin condWait)
  /\ \/ /\ c \in ctxDone
        /\ dq' = [dq EXCEPT ![c] = "off"]
        /\ UNCHANGED <<dqItem, condWait>>
     \/ /\ c \notin ctxDone /\ slots = <<>>
        /\ dq' = [dq EXCEPT ![c] = "parked"]
        /\ condWait' = condWait \cup {c}
        /\ UNCHANGED dqItem
     \/ /\ c \notin ctxDone /\ slots # <<>>
        /\ dq' = [dq EXCEPT ![c] = "send"]
        /\ dqItem' = [dqItem EXCEPT ![c] = Last(slots)]
        /\ UNCHANGED condWait
  /\ UNCHANGED <<qvars, kvars, cvars, ctxDone, armed>>

\* The peeked token was taken by somebody else, or the call has left.
dequeueAgain(c) ==
  /\ dq[c] = "send"
  /\ dqItem[c] \in triggered \/ c \in ctxDone
  /\ dq' = [dq EXCEPT ![c] = "lock"] /\ dqItem' = [dqItem EXCEPT ![c] = None]
  /\ UNCHANGED <<qvars, kvars, cvars, condWait, ctxDone, armed>>

\* The context watcher broadcasts when the dequeuer is waiting.
dequeueWatcher(c) ==
  /\ c \in armed /\ c \in ctxDone
  /\ armed' = armed \ {c}
  /\ condWait' = IF dq[c] = "parked" THEN {} ELSE condWait
  /\ UNCHANGED <<qvars, kvars, cvars, dq, dqItem, ctxDone>>

-----------------------------------------------------------------------------
CtrStep(k) ==
  \/ queueSlot(k) \/ queueSlotBroadcast(k)
  \/ runHotReqTriggered(k) \/ runHotReqLeave(k)
  \/ ctrAcquire(k) \/ ctrRemove(k) \/ ctrTrigger(k) \/ slotDone(k)

CallerStep(c) ==
  \/ startDequeuer(c) \/ waitHotReceive(c) \/ waitHotAcquire(c)
  \/ waitHotRemove(c) \/ waitHotTrigger(c) \/ waitHotLeave(c) \/ execDone(c)

DequeuerStep(c) == dequeue(c) \/ dequeueAgain(c) \/ dequeueWatcher(c)

Next == (\E k \in Ctrs : CtrStep(k))
        \/ (\E c \in Callers : CallerStep(c) \/ DequeuerStep(c))

Spec == Init /\ [][Next]_vars

(* Runnable goroutines run and calls end (exec is bounded by the call's     *)
(* timeout).  Containers are not obliged to leave, nor calls to give up.    *)
Fairness ==
  /\ \A k \in Ctrs : /\ WF_vars(queueSlotBroadcast(k))
                     /\ WF_vars(runHotReqTriggered(k))
                     /\ WF_vars(ctrAcquire(k) \/ ctrRemove(k) \/ ctrTrigger(k))
                     /\ WF_vars(slotDone(k))
  /\ \A c \in Callers :
       /\ WF_vars(waitHotReceive(c))
       /\ WF_vars(waitHotAcquire(c) \/ waitHotRemove(c) \/ waitHotTrigger(c))
       /\ WF_vars(execDone(c))
       /\ WF_vars(dequeue(c) \/ dequeueAgain(c)) /\ WF_vars(dequeueWatcher(c))

FairSpec == Spec /\ Fairness

-----------------------------------------------------------------------------
(* Type invariant. *)
TypeOK ==
  /\ nextId \in 0..MaxTokens /\ slots \in Seq(0..(nextId - 1))
  /\ winner \in [Ids -> Ctrs \cup Callers \cup {NoOne}]
  /\ triggered \subseteq Ids /\ finished \in [Ids -> {"no", "ok", "err"}]
  /\ ctr \in [Ctrs -> CtrPC] /\ ctrTok \in [Ctrs -> Ids \cup {None}]
  /\ caller \in [Callers -> CallerPC] /\ item \in [Callers -> Ids \cup {None}]
  /\ dq \in [Callers -> DqPC] /\ dqItem \in [Callers -> Ids \cup {None}]
  /\ condWait \subseteq Callers /\ ctxDone \subseteq Callers /\ armed \subseteq Callers

(* While a call waits and a slot is listed, one of the two changes.         *)
SlotReachesCall ==
  \A c \in Callers :
    (caller[c] = "wait" /\ slots # <<>>) ~> (caller[c] # "wait" \/ slots = <<>>)

-----------------------------------------------------------------------------
(* Refinement mapping: the swap is the moment of the hand-over, and a call  *)
(* is over when slot.done has its value.                                    *)
Serving(k) ==
  LET i == ctrTok[k] IN
  IF ctr[k] = "ready" THEN "ready"
  ELSE IF ctr[k] = "gone" \/ winner[i] = k THEN "gone"
  ELSE IF winner[i] = NoOne THEN "free"
  ELSE IF finished[i] # "no" THEN "over"
  ELSE winner[i]

Handout == INSTANCE SlotHandout WITH serving <- [k \in Ctrs |-> Serving(k)]

(* The queue implements the hand-out it promises.                           *)
ImplementsHandout == Handout!Spec
=============================================================================
