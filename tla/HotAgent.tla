------------------------------- MODULE HotAgent -------------------------------
(***************************************************************************)
(* The agent (api/agent/agent.go) as the composition of its parts: calls   *)
(* (submit, getSlot, waitHot, exec), one hotLauncher per slot queue        *)
(* (checkLaunch), hot containers (runHot and its child goroutine,          *)
(* runHotReq) and Close.  The parts have modules of their own and are used *)
(* here through what those modules show: a slot is handed out atomically   *)
(* (SlotQueue implements SlotHandout), reservations are atomic and exact   *)
(* (ResourceTracker), an eviction ends when its DoneChan is closed         *)
(* (Evictor), CloseGroup returns when no session is open (WaitGroup), and  *)
(* the statistics of a queue are exact (SlotQueueMgr).                     *)
(*                                                                         *)
(* Every container takes one unit of the machine's capacity, so that one   *)
(* eviction meets the need of a starved launcher.  A queue is destroyed at *)
(* shutdown only; its inactivity timeout is in SlotQueueMgr.               *)
(***************************************************************************)
EXTENDS Naturals, FiniteSets

CONSTANTS
  Calls, Ctrs, Keys,   \* Keys: slot queues
  Capacity,            \* containers the machine can hold
  Confs,               \* what runs: the tracker's mode and each call's queue
  None

ASSUME AgentAssumption ==
  /\ IsFiniteSet(Calls) /\ IsFiniteSet(Ctrs)
  /\ Confs \subseteq [blocking : BOOLEAN, keyOf : [Calls -> Keys]]
  /\ Capacity \in Nat
  /\ None \notin Calls \cup Ctrs \cup Keys

VARIABLES
  conf,         \* fixed at start: ~cfg.EnableNBResourceTracker, and the queues
  closer,       \* agent.Close: "open", "closing" (shutWg closed), "closed"
  used,         \* units reserved in the resource tracker
  call,         \* program counter of each call
  slot,         \* [Calls -> container whose slot it has acquired]
  notify,       \* [Calls -> what its caller.notify channel holds]
  main, child,  \* runHot's goroutine and its child, per container
  key, cfor,    \* queue of each container, and the caller its start is for
  fin,          \* what slot.done of the current slot holds: "no", "ok", "err"
  evictedFor,   \* queue whose launcher evicted the container, or None; kept
                \* until the container's resources are back
  launcher,     \* program counter of each hotLauncher
  lcaller,      \* the caller it was last signalled by
  lctr,         \* the container its checkLaunch is about
  await,        \* containers whose DoneChan it waits for
  signal        \* [Keys -> the caller in the signaller channel, or None]

avars == <<conf, closer, used>>
cvars == <<call, slot, notify>>
kvars == <<main, child, key, cfor, fin, evictedFor>>
lvars == <<launcher, lcaller, lctr, await, signal>>
vars  == <<avars, cvars, kvars, lvars>>

KeyOf == conf.keyOf

InCall   == {"in", "wait", "exec", "ending"}            \* inside submit
Up       == {"start", "run", "stop", "release", "final"} \* inside runHot
Holding  == {"granted", "start", "run", "stop", "release"} \* has its unit

Init ==
  /\ conf \in Confs
  /\ closer = "open" /\ used = 0
  /\ call = [c \in Calls |-> "new"] /\ slot = [c \in Calls |-> None]
  /\ notify = [c \in Calls |-> "none"]
  /\ main = [k \in Ctrs |-> "none"] /\ child = [k \in Ctrs |-> "over"]
  /\ key = [k \in Ctrs |-> None] /\ cfor = [k \in Ctrs |-> None]
  /\ fin = [k \in Ctrs |-> "no"] /\ evictedFor = [k \in Ctrs |-> None]
  /\ launcher = [q \in Keys |-> "none"] /\ lcaller = [q \in Keys |-> None]
  /\ lctr = [q \in Keys |-> None] /\ await = [q \in Keys |-> {}]
  /\ signal = [q \in Keys |-> None]

Sessions == {c \in Calls : call[c] \in InCall} \cup {k \in Ctrs : main[k] \in Up}

\* tryNotify: the channel holds one error, a second one is dropped, and
\* nobody reads that of a call which no longer waits.
tryNotify(c) ==
  notify' = [notify EXCEPT ![c] = IF @ = "none" /\ call[c] = "wait" THEN "err" ELSE @]

\* waitHot returns an error: a 503, or the failure of the container.
Refuse(c) ==
  /\ call' = [call EXCEPT ![c] = "done"]
  /\ notify' = [notify EXCEPT ![c] = "none"]

-----------------------------------------------------------------------------
(* Calls. *)

submit(c) ==
  /\ call[c] = "new"
  /\ call' = [call EXCEPT ![c] = IF closer = "open" THEN "in" ELSE "done"]
  /\ UNCHANGED <<avars, slot, notify, kvars, lvars>>

\* The first call of a queue spawns the launcher.
getSlot(c) ==
  LET q == KeyOf[c] IN
  /\ call[c] = "in"
  /\ call' = [call EXCEPT ![c] = "wait"]
  /\ IF launcher[q] \in {"none", "gone"}
     THEN /\ launcher' = [launcher EXCEPT ![q] = "check"]
          /\ lcaller' = [lcaller EXCEPT ![q] = c]
          /\ signal' = [signal EXCEPT ![q] = None]
     ELSE UNCHANGED <<launcher, lcaller, signal>>
  /\ UNCHANGED <<avars, slot, notify, kvars, lctr, await>>

\* waitHot's timer: send on the signaller unless it is full.
waitHotPing(c) ==
  /\ call[c] = "wait" /\ signal[KeyOf[c]] = None
  /\ signal' = [signal EXCEPT ![KeyOf[c]] = c]
  /\ UNCHANGED <<avars, cvars, kvars, launcher, lcaller, lctr, await>>

waitHotNotified(c) ==
  /\ call[c] = "wait" /\ notify[c] # "none"
  /\ Refuse(c)
  /\ UNCHANGED <<avars, slot, kvars, lvars>>

waitHotShutdown(c) ==
  /\ call[c] = "wait" /\ closer # "open"
  /\ Refuse(c)
  /\ UNCHANGED <<avars, slot, kvars, lvars>>

\* The client has left or its deadline has passed.
waitHotCtxDone(c) ==
  /\ call[c] = "wait"
  /\ Refuse(c)
  /\ UNCHANGED <<avars, slot, kvars, lvars>>

waitHotSlot(c, k) ==
  /\ call[c] = "wait" /\ child[k] = "idle" /\ key[k] = KeyOf[c]
  /\ call' = [call EXCEPT ![c] = "exec"]
  /\ slot' = [slot EXCEPT ![c] = k]
  /\ child' = [child EXCEPT ![k] = "taken"]
  /\ notify' = [notify EXCEPT ![c] = "none"]
  /\ UNCHANGED <<avars, main, key, cfor, fin, evictedFor, lvars>>

\* The first value sent on slot.done; later ones are dropped, or left in a
\* channel that nobody reads any more, as every round has a new one.
SendDone(c, f) ==
  /\ call[c] = "exec"
  /\ fin' = [fin EXCEPT ![slot[c]] = f]
  /\ call' = [call EXCEPT ![c] = "ending"]
  /\ slot' = [slot EXCEPT ![c] = None]
  /\ UNCHANGED <<avars, notify, main, child, key, cfor, evictedFor, lvars>>

\* BeforeCall, the exchange or AfterCall fails: the container may not go on.
\* It is told so at once, while exec is still running.
SetError(c) == SendDone(c, "err")

\* handleCallEnd's slot.Close, with no error before it: the call did not start,
\* or the function answered (a 502, too, leaves the container in service).
slotClose(c) == SendDone(c, "ok")

\* The rest of exec and of handleCallEnd, the trackers and DoneSession.
submitEnd(c) ==
  /\ call[c] = "ending"
  /\ call' = [call EXCEPT ![c] = "done"]
  /\ UNCHANGED <<avars, slot, notify, kvars, lvars>>

-----------------------------------------------------------------------------
(* Launchers. *)

Waiting(q)  == {c \in Calls : call[c] = "wait" /\ KeyOf[c] = q}
Starting(q) == {k \in Ctrs : main[k] \in {"wait", "granted", "start"} /\ key[k] = q}
Idle(q)     == {k \in Ctrs : child[k] \in {"idle", "taken"} /\ key[k] = q}
isNewContainerNeeded(q) ==
  Cardinality(Waiting(q)) > Cardinality(Idle(q)) + Cardinality(Starting(q))

isIdle(q) ==
  /\ \A c \in Calls : KeyOf[c] = q => call[c] \notin {"wait", "exec", "ending"}
  /\ \A k \in Ctrs : key[k] = q => main[k] = "none"

checkLaunch(q) ==
  /\ launcher[q] = "check"
  /\ \/ /\ ~isNewContainerNeeded(q)
        /\ launcher' = [launcher EXCEPT ![q] = "select"]
        /\ UNCHANGED <<main, key, cfor, lctr>>
     \/ /\ isNewContainerNeeded(q)
        /\ \E k \in Ctrs :
             /\ main[k] = "none"
             /\ main' = [main EXCEPT ![k] = "wait"]
             /\ key' = [key EXCEPT ![k] = q]
             /\ cfor' = [cfor EXCEPT ![k] = lcaller[q]]
             /\ lctr' = [lctr EXCEPT ![q] = k]
        /\ launcher' = [launcher EXCEPT ![q] = "token"]
  /\ UNCHANGED <<avars, cvars, child, fin, evictedFor, lcaller, await, signal>>

\* checkLaunch returns, and its tracker with it.
DropCtr(q) ==
  /\ main' = [main EXCEPT ![lctr[q]] = "none"]
  /\ key' = [key EXCEPT ![lctr[q]] = None]
  /\ cfor' = [cfor EXCEPT ![lctr[q]] = None]
  /\ lctr' = [lctr EXCEPT ![q] = None]
  /\ launcher' = [launcher EXCEPT ![q] = "select"]

\* mutant: runHot is started although the group is closed
MaySessionAlways == TRUE
MaySession == closer = "open"

HasRoom == used < Capacity

\* GetResourceToken or GetResourceTokenNB grants a token.
tokenGranted(q) ==
  /\ launcher[q] = "token" /\ HasRoom
  /\ used' = used + 1
  /\ main' = [main EXCEPT ![lctr[q]] = "granted"]
  /\ launcher' = [launcher EXCEPT ![q] = "granted"]
  /\ UNCHANGED <<conf, closer, cvars, child, key, cfor, fin, evictedFor,
                 lcaller, lctr, await, signal>>

\* AddSession, and runHot takes the container and its token over.
launchHot(q) ==
  /\ launcher[q] = "granted" /\ MaySession
  /\ main' = [main EXCEPT ![lctr[q]] = "start"]
  /\ lctr' = [lctr EXCEPT ![q] = None]
  /\ launcher' = [launcher EXCEPT ![q] = "select"]
  /\ UNCHANGED <<avars, cvars, child, key, cfor, fin, evictedFor, lcaller, await, signal>>

\* AddSession refuses ...
addSessionFails(q) ==
  /\ launcher[q] = "granted" /\ ~MaySession
  /\ launcher' = [launcher EXCEPT ![q] = "giveBack"]
  /\ UNCHANGED <<avars, cvars, kvars, lcaller, lctr, await, signal>>

\* ... and the launcher closes the token itself.
giveBack(q) ==
  /\ launcher[q] = "giveBack"
  /\ used' = used - 1
  /\ DropCtr(q)
  /\ UNCHANGED <<conf, closer, cvars, child, fin, evictedFor, lcaller, await, signal>>

Evictable(q) ==
  {k \in Ctrs : child[k] \in {"idle", "taken"} /\ key[k] # q /\ evictedFor[k] = None}

\* CapacityFull: evict, or, in non-blocking mode, refuse the caller.
launchFull(q) ==
  /\ launcher[q] = "token" /\ ~HasRoom
  /\ \/ \E k \in Evictable(q) :
          /\ evictedFor' = [evictedFor EXCEPT ![k] = q]
          /\ await' = [await EXCEPT ![q] = {k}]
          /\ launcher' = [launcher EXCEPT ![q] = "await"]
          /\ UNCHANGED <<notify, main, key, cfor, lctr>>
     \/ /\ Evictable(q) = {}
        /\ IF conf.blocking THEN UNCHANGED notify ELSE tryNotify(lcaller[q])
        /\ DropCtr(q)
        /\ UNCHANGED <<evictedFor, await>>
  /\ UNCHANGED <<avars, call, slot, child, fin, lcaller, signal>>

evictionAwaited(q) ==
  /\ launcher[q] = "await" /\ (await[q] = {} \/ closer # "open")
  /\ await' = [await EXCEPT ![q] = {}]
  /\ DropCtr(q)
  /\ UNCHANGED <<avars, cvars, child, fin, evictedFor, lcaller, signal>>

hotLauncherSignalled(q) ==
  /\ launcher[q] = "select" /\ signal[q] # None
  /\ lcaller' = [lcaller EXCEPT ![q] = signal[q]]
  /\ signal' = [signal EXCEPT ![q] = None]
  /\ launcher' = [launcher EXCEPT ![q] = "check"]
  /\ UNCHANGED <<avars, cvars, kvars, lctr, await>>

\* Shutdown: leave if the queue is idle, otherwise look again.
hotLauncherDone(q) ==
  /\ launcher[q] = "select" /\ closer # "open"
  /\ launcher' = [launcher EXCEPT ![q] = IF isIdle(q) THEN "gone" ELSE "check"]
  /\ UNCHANGED <<avars, cvars, kvars, lcaller, lctr, await, signal>>

-----------------------------------------------------------------------------
(* Containers. *)

\* closing its DoneChan releases whoever waits for k
ReleaseAwait(k) == await' = [q \in Keys |-> await[q] \ {k}]

initialized(k) ==
  /\ main[k] = "start" /\ child[k] = "over"
  /\ main' = [main EXCEPT ![k] = "run"]
  /\ child' = [child EXCEPT ![k] = "idle"]
  /\ cfor' = [cfor EXCEPT ![k] = None]
  /\ UNCHANGED <<avars, cvars, key, fin, evictedFor, lvars>>

\* Image, create, start or init fails, or the agent shuts down.
runHotFailure(k) ==
  /\ main[k] = "start"
  /\ tryNotify(cfor[k])
  /\ main' = [main EXCEPT ![k] = "stop"]
  /\ cfor' = [cfor EXCEPT ![k] = None]
  /\ UNCHANGED <<avars, call, slot, child, key, fin, evictedFor, lvars>>

\* The slot was acquired by a call.  An eviction that came first is taken
\* back: its token is deleted, which closes DoneChan, and replaced.
DisableSilently(k) ==       \* mutant: the old token's DoneChan stays open
  /\ child[k] = "taken"
  /\ child' = [child EXCEPT ![k] = "busy"]
  /\ evictedFor' = [evictedFor EXCEPT ![k] = None]
  /\ UNCHANGED <<avars, cvars, main, key, cfor, fin, lvars>>

DisableEviction(k) ==
  /\ child[k] = "taken"
  /\ child' = [child EXCEPT ![k] = "busy"]
  /\ evictedFor' = [evictedFor EXCEPT ![k] = None]
  /\ ReleaseAwait(k)
  /\ UNCHANGED <<avars, cvars, main, key, cfor, fin, launcher, lcaller, lctr, signal>>

\* slot.done has a value: next round, or the end of the loop.  A container
\* that has died may offer its slot once more before its context is cancelled.
slotDone(k) ==
  /\ child[k] = "busy" /\ fin[k] # "no"
  /\ \/ fin[k] = "ok" /\ child' = [child EXCEPT ![k] = "idle"]
     \/ /\ fin[k] = "err" \/ main[k] = "stop"
        /\ child' = [child EXCEPT ![k] = "over"]
  /\ fin' = [fin EXCEPT ![k] = "no"]
  /\ UNCHANGED <<avars, cvars, main, key, cfor, evictedFor, lvars>>

\* Evicted, shut down, or the container is dead: the slot is withdrawn.
LeaveUnlessClosing(k) ==    \* mutant: the select does not watch shutWg
  /\ child[k] = "idle"
  /\ evictedFor[k] # None \/ main[k] = "stop"
  /\ child' = [child EXCEPT ![k] = "over"]
  /\ UNCHANGED <<avars, cvars, main, key, cfor, fin, evictedFor, lvars>>

runHotReqLeave(k) ==
  /\ child[k] = "idle"
  /\ evictedFor[k] # None \/ closer # "open" \/ main[k] = "stop"
  /\ child' = [child EXCEPT ![k] = "over"]
  /\ UNCHANGED <<avars, cvars, main, key, cfor, fin, evictedFor, lvars>>

idleTimeout(k) ==
  /\ child[k] = "idle"
  /\ child' = [child EXCEPT ![k] = "over"]
  /\ UNCHANGED <<avars, cvars, main, key, cfor, fin, evictedFor, lvars>>

\* The child is over and has cancelled the context: waiter.Wait returns ...
childOver(k) ==
  /\ main[k] = "run" /\ child[k] = "over"
  /\ main' = [main EXCEPT ![k] = "stop"]
  /\ UNCHANGED <<avars, cvars, child, key, cfor, fin, evictedFor, lvars>>

\* ... as it does when the container dies by itself.
ctrDies(k) ==
  /\ main[k] = "run"
  /\ main' = [main EXCEPT ![k] = "stop"]
  /\ UNCHANGED <<avars, cvars, child, key, cfor, fin, evictedFor, lvars>>

\* The deferred unwind: cookie.Close, then container.Close ...
CloseEarly(k) ==            \* mutant: childDone is not waited for
  /\ main[k] = "stop"
  /\ main' = [main EXCEPT ![k] = "release"]
  /\ ReleaseAwait(k)
  /\ UNCHANGED <<avars, cvars, child, key, cfor, fin, evictedFor,
                 launcher, lcaller, lctr, signal>>

ctrClose(k) ==
  /\ main[k] = "stop" /\ child[k] = "over"
  /\ main' = [main EXCEPT ![k] = "release"]
  /\ ReleaseAwait(k)
  /\ UNCHANGED <<avars, cvars, child, key, cfor, fin, evictedFor,
                 launcher, lcaller, lctr, signal>>

\* ... then the resources, ...
tokClose(k) ==
  /\ main[k] = "release"
  /\ main' = [main EXCEPT ![k] = "final"]
  /\ used' = used - 1
  /\ evictedFor' = [evictedFor EXCEPT ![k] = None]
  /\ UNCHANGED <<conf, closer, cvars, child, key, cfor, fin, lvars>>

\* ... then the tracker, and DoneSession.
doneSession(k) ==
  /\ main[k] = "final"
  /\ main' = [main EXCEPT ![k] = "none"]
  /\ key' = [key EXCEPT ![k] = None]
  /\ UNCHANGED <<avars, cvars, child, cfor, fin, evictedFor, lvars>>

-----------------------------------------------------------------------------
(* agent.Close: CloseGroup, then driver.Close. *)
Close ==
  /\ closer = "open" /\ closer' = "closing"
  /\ UNCHANGED <<conf, used, cvars, kvars, lvars>>

driverClose ==
  /\ closer = "closing" /\ Sessions = {}
  /\ closer' = "closed"
  /\ UNCHANGED <<conf, used, cvars, kvars, lvars>>

-----------------------------------------------------------------------------
CallStep(c) ==
  \/ submit(c) \/ getSlot(c) \/ waitHotPing(c) \/ waitHotNotified(c)
  \/ waitHotShutdown(c) \/ waitHotCtxDone(c)
  \/ SetError(c) \/ slotClose(c) \/ submitEnd(c)
  \/ \E k \in Ctrs : waitHotSlot(c, k)

LauncherStep(q) ==
  \/ checkLaunch(q) \/ tokenGranted(q) \/ launchHot(q) \/ addSessionFails(q)
  \/ giveBack(q) \/ launchFull(q) \/ evictionAwaited(q)
  \/ hotLauncherSignalled(q) \/ hotLauncherDone(q)

CtrStep(k) ==
  \/ initialized(k) \/ runHotFailure(k) \/ DisableEviction(k) \/ slotDone(k)
  \/ runHotReqLeave(k) \/ idleTimeout(k) \/ childOver(k) \/ ctrDies(k)
  \/ ctrClose(k) \/ tokClose(k) \/ doneSession(k)

Next == \/ \E c \in Calls : CallStep(c)
        \/ \E q \in Keys : LauncherStep(q)
        \/ \E k \in Ctrs : CtrStep(k)
        \/ Close \/ driverClose

Spec == Init /\ [][Next]_vars

(* Goroutines that can run do, timers fire (the ping of waitHot, the        *)
(* timeouts of exec and of the start of a container) and a waiting call     *)
(* that could receive a slot time and again receives one.  Nobody is        *)
(* obliged to call, to leave, to time out when idle, to die or to close.    *)
Fairness ==
  /\ \A c \in Calls :
       /\ WF_vars(getSlot(c) \/ slotClose(c) \/ submitEnd(c))
       /\ WF_vars(waitHotNotified(c) \/ waitHotShutdown(c))
       /\ WF_vars(waitHotPing(c))
       /\ SF_vars(\E k \in Ctrs : waitHotSlot(c, k))
  /\ \A q \in Keys : WF_vars(LauncherStep(q))
  /\ \A k \in Ctrs :
       /\ WF_vars(initialized(k) \/ runHotFailure(k) \/ childOver(k)
                  \/ ctrClose(k) \/ tokClose(k) \/ doneSession(k))
       /\ WF_vars(DisableEviction(k) \/ slotDone(k) \/ runHotReqLeave(k))
  /\ WF_vars(driverClose)

FairSpec == Spec /\ Fairness

-----------------------------------------------------------------------------
(* Type invariant. *)
TypeOK ==
  /\ conf \in Confs
  /\ closer \in {"open", "closing", "closed"} /\ used \in 0..Capacity
  /\ call \in [Calls -> {"new", "done"} \cup InCall]
  /\ slot \in [Calls -> Ctrs \cup {None}]
  /\ notify \in [Calls -> {"none", "err"}]
  /\ main \in [Ctrs -> {"none", "wait", "granted"} \cup Up]
  /\ child \in [Ctrs -> {"idle", "taken", "busy", "over"}]
  /\ key \in [Ctrs -> Keys \cup {None}] /\ cfor \in [Ctrs -> Calls \cup {None}]
  /\ fin \in [Ctrs -> {"no", "ok", "err"}]
  /\ evictedFor \in [Ctrs -> Keys \cup {None}]
  /\ launcher \in [Keys -> {"none", "check", "token", "granted", "giveBack", "await",
                           "select", "gone"}]
  /\ lcaller \in [Keys -> Calls \cup {None}] /\ lctr \in [Keys -> Ctrs \cup {None}]
  /\ await \in [Keys -> SUBSET Ctrs] /\ signal \in [Keys -> Calls \cup {None}]

(* The containers whose token is still in a launcher's hands: granted, but   *)
(* AddSession has not been called, or has refused.                          *)
InLauncher ==
  {k \in Ctrs : \E q \in Keys : lctr[q] = k /\ launcher[q] \in {"granted", "giveBack"}}

(* The driver is closed last: from then on no call is inside submit and no  *)
(* container is up or comes up, although launchers, which Close does not    *)
(* wait for, still run, ask for tokens and are granted some; the only units *)
(* taken are the ones they are about to give back (agent.go:495-505).       *)
NothingAfterClose ==
  closer = "closed" => Sessions = {} /\ used = Cardinality(InLauncher)

(* A call that executes has a container of its own queue, alone, and that   *)
(* container's resources are not given back before the call has reported on *)
(* slot.done, even if the container dies or is evicted meanwhile            *)
(* (agent.go:814-823, 960-965).  A call that has reported an error may      *)
(* still be inside exec while its container is taken down (agent.go:608,    *)
(* 618, 675, 700, 726): it is "ending", and the property leaves it out.     *)
ExecHoldsContainer ==
  \A c \in Calls : call[c] = "exec" =>
    /\ slot[c] \in Ctrs /\ key[slot[c]] = KeyOf[c]
    /\ main[slot[c]] \in {"run", "stop"} /\ child[slot[c]] \in {"taken", "busy"}
    /\ \A d \in Calls \ {c} : call[d] = "exec" => slot[d] # slot[c]

(* Every call that is accepted is answered.  In blocking mode and with      *)
(* room for one container this takes the launcher, the eviction of idle     *)
(* containers of other queues, and the hand-over; no timeout helps.         *)
CallsAnswered == \A c \in Calls : call[c] \in InCall ~> call[c] = "done"

(* Close returns, and the launchers, which nobody waits for, leave too.     *)
CloseCompletes ==
  closer = "closing" ~>
    closer = "closed" /\ \A q \in Keys : launcher[q] \in {"none", "gone"}
=============================================================================
