------------------------------- MODULE LBAgent -------------------------------
(***************************************************************************)
(* The load balancer's agent (api/agent/lb_agent.go) with the placers and  *)
(* the static runner pool (api/runnerpool, api/agent/static_pool.go) and   *)
(* the session gate of every runner client (gRPCRunner.shutWg).            *)
(*                                                                         *)
(* The front gate a.shutWg is WaitGroup itself: a call is a worker of it,  *)
(* Close the one closer.  A runner's gate is used only through AddSession, *)
(* DoneSession and CloseGroup, and is kept as the set of calls inside it:  *)
(* the contract WaitGroup's properties establish.                          *)
(*                                                                         *)
(* A call goes through Submit: body (the goroutine of setRequestBody fills *)
(* a pooled buffer), loop, trying, ret, end.  What a runner does with a    *)
(* call is a choice of outcomes; RunnerProtocol models the conversation.   *)
(***************************************************************************)
EXTENDS WaitGroup, Sequences

CONSTANTS
  Detached,     \* the calls of type detached, a subset of Workers
  Bodyless,     \* the calls that may need no buffer for a body, a subset of Workers
  RunnerSeq,    \* staticRunnerPool.runners
  Bufs          \* the buffers bufPool can hand out

Calls == Workers
Closer == CHOOSE c \in Closers : TRUE
Runners == {RunnerSeq[i] : i \in DOMAIN RunnerSeq}

ASSUME LBAssumption ==
  /\ Detached \subseteq Workers /\ Bodyless \subseteq Workers
  /\ RunnerSeq \in Seq(Runners) /\ Len(RunnerSeq) > 0
  /\ Closers = {Closer}
  /\ IsFiniteSet(Bufs)
  /\ Calls \cap {"none", "unallocated"} = {}     \* the markers of content name no call
  /\ "none" \notin Bufs

VARIABLES
  call,      \* [Calls -> the Submit goroutine, its contexts and placement]
  reader,    \* [Calls -> the goroutine that reads the client's body]
  content,   \* [Bufs -> whose body the buffer holds]
  pool,      \* the buffers lying in bufPool
  inside,    \* [Runners -> the calls in TryExec's session]
  conn,      \* [Runners -> {"open", "closing", "closed"}]
  queued, running,   \* the enqueue and run gauges
  closePC    \* Close: 0 idle, 1.. the runner being shut down, then waiting

lbVars == <<call, reader, content, pool, inside, conn, queued, running, closePC>>
wgVars == <<isClosed, sessions, condWait, panicked, worker, closer>>
allVars == <<wgVars, lbVars>>

None == "none"
CtxState == {"live", "canceled", "deadline"}

\* What Runners() may return: the static pool's list, or that of a pool that
\* failed to find more runners, by its own or by the user's fault.
PoolAnswers == {<<RunnerSeq, None>>, <<<<>>, "other">>, <<<<>>, "user502">>}

NewCall == [pc |-> "new", ctx |-> "live", placerOver |-> FALSE, buf |-> None,
            list |-> <<>>, perr |-> None, i |-> 0, j |-> 0,
            committed |-> FALSE, started |-> FALSE, ended |-> 0, ret |-> None]

LBInit ==
  /\ Init
  /\ call = [c \in Calls |-> NewCall]
  /\ reader = [c \in Calls |-> "idle"]
  /\ content = [b \in Bufs |-> "unallocated"]
  /\ pool = {}
  /\ inside = [r \in Runners |-> {}]
  /\ conn = [r \in Runners |-> "open"]
  /\ queued = 0 /\ running = 0
  /\ closePC = 0

-----------------------------------------------------------------------------
(* Submit and setRequestBody.  A call refused at the gate is answered busy. *)

\* sync.Pool.Get: something put back before, or a new buffer.
Fresh == {b \in Bufs : content[b] = "unallocated"}
PoolGet == pool \cup (IF Fresh = {} THEN {} ELSE {CHOOSE b \in Fresh : TRUE})

\* A buffer and the goroutine that reads the body into it; nothing at all for
\* a request without a body, or one whose body was read before (GetBody).
getsBuffer(c) ==
  /\ \E b \in PoolGet :
       /\ call' = [call EXCEPT ![c].pc = "body", ![c].buf = b]
       /\ pool' = pool \ {b}
       /\ content' = [content EXCEPT ![b] = None]
  /\ reader' = [reader EXCEPT ![c] = "reading"]

needsNoBuffer(c) ==
  /\ c \in Bodyless
  /\ call' = [call EXCEPT ![c].pc = "body"]
  /\ reader' = [reader EXCEPT ![c] = "done"]
  /\ UNCHANGED <<pool, content>>

Submit(c) ==
  /\ call[c].pc = "new"
  /\ AddSession(c)
  /\ IF CanAdd
     THEN (getsBuffer(c) \/ needsNoBuffer(c)) /\ queued' = queued + 1
     ELSE /\ call' = [call EXCEPT ![c].pc = "end", ![c].ret = "busy"]
          /\ UNCHANGED <<pool, content, reader, queued>>
  /\ UNCHANGED <<inside, conn, running, closePC>>

(* The reading goroutine fills the buffer or fails.  Submit may have left   *)
(* by then: nothing stops the goroutine, which still owns the buffer.       *)
readBodyPuts(c) ==          \* mutant: the buffer is put back once it is read
  /\ reader[c] = "reading"
  /\ content' = [content EXCEPT ![call[c].buf] = c]
  /\ reader' = [reader EXCEPT ![c] = "done"]
  /\ pool' = pool \cup {call[c].buf}
  /\ UNCHANGED <<wgVars, call, inside, conn, queued, running, closePC>>

readBody(c) ==
  /\ reader[c] \in {"reading", "late"}
  /\ content' = [content EXCEPT ![call[c].buf] = c]
  /\ reader' = [reader EXCEPT ![c] = IF @ = "late" THEN "gone" ELSE "done"]
  /\ UNCHANGED <<wgVars, call, pool, inside, conn, queued, running, closePC>>

readBodyFails(c) ==
  /\ reader[c] \in {"reading", "late"}
  /\ reader' = [reader EXCEPT ![c] = IF @ = "late" THEN "gone" ELSE "failed"]
  /\ UNCHANGED <<wgVars, call, content, pool, inside, conn, queued, running, closePC>>

\* The client goes away, its deadline fires, or the reservation of a detached call.
CtxEnds(c) ==
  /\ call[c].ctx = "live" /\ call[c].pc \notin {"new", "ret", "end"}
  /\ \E e \in CtxState \ {"live"} :
       /\ (call[c].started /\ c \in Detached) => e = "deadline"
       /\ call' = [call EXCEPT ![c].ctx = e]
  /\ UNCHANGED <<wgVars, reader, content, pool, inside, conn, queued, running, closePC>>

(* What handleCallEnd makes of an error, before and after call.Start.       *)
answerSame(err, isForwarded) == IF err = "deadline" THEN "busy" ELSE err   \* mutant
answer(err, isForwarded) ==
  CASE err = "deadline" -> IF isForwarded THEN "reservation" ELSE "busy"
    [] OTHER -> err

statsStopRun(isForwarded) == IF isForwarded THEN running - 1 ELSE running

(* The record keeps what the properties look back on.                       *)
handleCallEnd(c, err, isForwarded, committed) ==
  /\ call' = [call EXCEPT ![c] = [NewCall EXCEPT
         !.pc = "ret", !.buf = call[c].buf, !.started = call[c].started,
         !.committed = committed, !.ret = answer(err, isForwarded),
         !.ended = IF isForwarded THEN 1 ELSE 0]]
  /\ running' = statsStopRun(isForwarded)
  /\ queued' = IF isForwarded THEN queued ELSE queued - 1

setRequestBodyFails(c) ==
  /\ call[c].pc = "body"
  /\ \/ call[c].ctx # "live" /\ handleCallEnd(c, call[c].ctx, FALSE, FALSE)
     \/ reader[c] = "failed" /\ handleCallEnd(c, "error", FALSE, FALSE)
  /\ UNCHANGED <<wgVars, reader, content, pool, inside, conn, closePC>>

(* The head of PlaceCall's loop.  The first runner is the function's hash   *)
(* (ch) or taken from the clock (naive).                                    *)
beginPass(c) ==
  \E a \in PoolAnswers, i \in 1 .. Len(RunnerSeq) :
    /\ a[1] = <<>> => i = 1
    /\ call' = [call EXCEPT ![c].pc = "loop", ![c].started = TRUE, ![c].list = a[1],
                            ![c].perr = a[2], ![c].i = i, ![c].j = 0]

(* call.Start: the context is looked at once more, then the BeforeCall      *)
(* listeners run.  A detached call continues on a context of its own.       *)
Start(c) ==
  /\ call[c].pc = "body" /\ reader[c] = "done"
  /\ \/ /\ call[c].ctx # "live"
        /\ handleCallEnd(c, call[c].ctx, FALSE, FALSE)
     \/ /\ call[c].ctx = "live"
        /\ handleCallEnd(c, "error", FALSE, FALSE)      \* a listener refused
     \/ /\ call[c].ctx = "live"
        /\ beginPass(c)
        /\ queued' = queued - 1 /\ running' = running + 1
  /\ UNCHANGED <<wgVars, reader, content, pool, inside, conn, closePC>>

-----------------------------------------------------------------------------
(* PlaceCall: the list of runners, one pass over it, a pause, again.        *)

IsDoneClient(c) == call[c].ctx # "live"     \* mutant: the placer's own timeout ignored
IsDone(c) == call[c].ctx # "live" \/ call[c].placerOver
PassOver(c) == call[c].j >= Len(call[c].list) \/ IsDone(c)

following(i, n) == (i % n) + 1

advanced(rec) == [rec EXCEPT !.pc = "loop", !.j = @ + 1,
                             !.i = following(@, Len(rec.list))]

(* TryExec on a closed runner returns ErrorRunnerClosed: on to the next.    *)
TryRunner(c) ==
  LET r == call[c].list[call[c].i] IN
  /\ call[c].pc = "loop" /\ ~PassOver(c)
  /\ IF conn[r] = "open"
     THEN /\ inside' = [inside EXCEPT ![r] = @ \cup {c}]
          /\ call' = [call EXCEPT ![c].pc = "trying"]
     ELSE /\ call' = [call EXCEPT ![c] = advanced(@)]
          /\ UNCHANGED inside
  /\ UNCHANGED <<wgVars, reader, content, pool, conn, queued, running, closePC>>

leave(c) == inside' = [r \in Runners |-> inside[r] \ {c}]

(* No stream, an unavailable runner, or a NACK: not placed.                 *)
NotPlaced(c) ==
  /\ call[c].pc = "trying"
  /\ leave(c)
  /\ call' = [call EXCEPT ![c] = advanced(@)]
  /\ UNCHANGED <<wgVars, reader, content, pool, conn, queued, running, closePC>>

(* Committed: the call ran, failed on the runner, or its context ended.     *)
Placed(c) ==
  /\ call[c].pc = "trying"
  /\ leave(c)
  /\ \/ handleCallEnd(c, "ok", TRUE, TRUE)
     \/ handleCallEnd(c, "error", TRUE, TRUE)
     \/ call[c].ctx # "live" /\ handleCallEnd(c, call[c].ctx, TRUE, TRUE)
  /\ UNCHANGED <<wgVars, reader, content, pool, conn, closePC>>

(* RetryAllBackoff, where a pass that is over waits, and what PlaceCall     *)
(* returns after it.                                                        *)
failFast(c) == call[c].list = <<>> /\ call[c].perr = "user502"

RetryAll(c) ==
  /\ call[c].pc = "loop" /\ PassOver(c) /\ ~failFast(c)
  /\ beginPass(c)
  /\ UNCHANGED <<wgVars, reader, content, pool, inside, conn, queued, running, closePC>>

GiveUp(c) ==
  /\ call[c].pc = "loop" /\ PassOver(c)
  /\ failFast(c) \/ IsDone(c)
  /\ handleCallEnd(c, IF call[c].perr # None THEN "error" ELSE "busy", TRUE, FALSE)
  /\ UNCHANGED <<wgVars, reader, content, pool, inside, conn, closePC>>

PlacerTimeout(c) ==
  /\ call[c].pc \in {"loop", "trying"} /\ ~call[c].placerOver
  /\ call' = [call EXCEPT ![c].placerOver = TRUE]
  /\ UNCHANGED <<wgVars, reader, content, pool, inside, conn, queued, running, closePC>>

(* Submit's deferred calls: a buffer goes back to the pool, read or not,    *)
(* and the session ends.                                                    *)
Return(c) ==
  /\ call[c].pc = "ret"
  /\ DoneSession(c)
  /\ pool' = pool \cup ({call[c].buf} \ {None})
  /\ reader' = [reader EXCEPT ![c] = IF @ = "reading" THEN "late" ELSE @]
  /\ call' = [call EXCEPT ![c].pc = "end",
                          ![c].buf = IF reader[c] = "reading" THEN @ ELSE None]
  /\ UNCHANGED <<content, inside, conn, queued, running, closePC>>

-----------------------------------------------------------------------------
(* Close: the front gate without blocking, every runner in turn, the gate.  *)

Close ==
  /\ closePC = 0
  /\ CloseGroupNB(Closer)
  /\ closePC' = 1
  /\ UNCHANGED <<call, reader, content, pool, inside, conn, queued, running>>

CloseDrains ==
  /\ (closer[Closer] = "nb" /\ CloseGroup(Closer)) \/ CloseGroupWoken(Closer)
  /\ UNCHANGED lbVars

RunnerCloseBegins ==
  /\ closePC \in 1 .. Len(RunnerSeq) /\ conn[RunnerSeq[closePC]] = "open"
  /\ conn' = [conn EXCEPT ![RunnerSeq[closePC]] = "closing"]
  /\ UNCHANGED <<wgVars, call, reader, content, pool, inside, queued, running, closePC>>

runnerDrainedNot(r) == TRUE             \* mutant: conn.Close before CloseGroup returns
runnerDrained(r) == inside[r] = {}

RunnerClosed ==
  /\ closePC \in 1 .. Len(RunnerSeq) /\ conn[RunnerSeq[closePC]] = "closing"
  /\ runnerDrained(RunnerSeq[closePC])
  /\ conn' = [conn EXCEPT ![RunnerSeq[closePC]] = "closed"]
  /\ closePC' = closePC + 1
  /\ UNCHANGED <<wgVars, call, reader, content, pool, inside, queued, running>>

CloseReturnsNow ==
  /\ closePC = Len(RunnerSeq) + 1 /\ closer[Closer] = "returned"
  /\ closePC' = closePC + 1
  /\ UNCHANGED <<wgVars, call, reader, content, pool, inside, conn, queued, running>>

-----------------------------------------------------------------------------
callStep(c) ==
  \/ Submit(c) \/ readBody(c) \/ readBodyFails(c) \/ CtxEnds(c)
  \/ setRequestBodyFails(c) \/ Start(c) \/ TryRunner(c)
  \/ NotPlaced(c) \/ Placed(c) \/ RetryAll(c) \/ GiveUp(c)
  \/ PlacerTimeout(c) \/ Return(c)

LBNext ==
  \/ \E c \in Calls : callStep(c)
  \/ Close \/ CloseDrains \/ RunnerCloseBegins \/ RunnerClosed \/ CloseReturnsNow

LBSpec == LBInit /\ [][LBNext]_allVars

(* A goroutine that can run runs; the placer's timer fires; a client's body *)
(* arrives or its connection breaks; a runner answers or its stream breaks. *)
(* The select of RetryAllBackoff does not pick the retry timer for ever     *)
(* over a context that is done: strong fairness of GiveUp.                  *)
LBFairness ==
  /\ \A c \in Calls :
       /\ WF_allVars(readBody(c) \/ readBodyFails(c))
       /\ WF_allVars(setRequestBodyFails(c) \/ Start(c))
       /\ WF_allVars(TryRunner(c) \/ RetryAll(c))
       /\ WF_allVars(Placed(c) \/ NotPlaced(c))
       /\ WF_allVars(PlacerTimeout(c))
       /\ SF_allVars(GiveUp(c))
       /\ WF_allVars(Return(c))
  /\ WF_allVars(CloseDrains \/ RunnerCloseBegins \/ RunnerClosed \/ CloseReturnsNow)

LBFairSpec == LBSpec /\ LBFairness

-----------------------------------------------------------------------------
(* The type invariant. *)
LBTypeOK ==
  /\ TypeOK
  /\ reader \in [Calls -> {"idle", "reading", "done", "failed", "late", "gone"}]
  /\ content \in [Bufs -> Calls \cup {None, "unallocated"}]
  /\ pool \subseteq Bufs
  /\ inside \in [Runners -> SUBSET Calls]
  /\ conn \in [Runners -> {"open", "closing", "closed"}]
  /\ queued \in Nat /\ running \in Nat
  /\ closePC \in 0 .. Len(RunnerSeq) + 2

(* When Close has returned (lb_agent.go:176-190) no Submit is left inside   *)
(* the gate, the enqueue and run gauges are back at zero, AfterCall fired   *)
(* once for every call that was forwarded and for no other, and every       *)
(* runner's connection is closed; and no connection is closed while a       *)
(* TryExec uses it (runner_client.go:50-53), though new calls keep arriving *)
(* while runners are shut down one after another.                           *)
ClosedMeansIdle ==
  /\ closePC = Len(RunnerSeq) + 2 =>
       /\ \A c \in Calls :
            \/ call[c].pc = "new"
            \/ call[c].pc = "end" /\ call[c].ended = IF call[c].started THEN 1 ELSE 0
       /\ queued = 0 /\ running = 0
       /\ \A r \in Runners : conn[r] = "closed"
  /\ \A r \in Runners : conn[r] = "closed" => inside[r] = {}

(* A client told "server busy" may send its call again: no runner committed *)
(* to it.  Everything that can come back from a committed call (its own     *)
(* errors, a context that ended on the way) has another answer.             *)
BusyWasNotRun == \A c \in Calls : call[c].ret = "busy" => ~call[c].committed

(* The body a runner is sent from a pooled buffer is the one the call's     *)
(* client sent, as long as no upload was cut off by a deadline: then the    *)
(* goroutine still reading it shares its buffer with whoever takes that     *)
(* buffer from the pool next (lb_agent.go:222, 285-312).                    *)
BodyIntact ==
  \A c \in Calls :
    /\ call[c].pc \in {"loop", "trying"} /\ call[c].buf # None
    /\ \A d \in Calls : reader[d] \notin {"late", "gone"}
    => content[call[c].buf] = c

(* Close returns, however many calls are being retried over runners that    *)
(* refuse them.                                                             *)
CloseEnds == closePC > 0 ~> closePC = Len(RunnerSeq) + 2
=============================================================================
