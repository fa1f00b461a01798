------------------------------- MODULE HotSlot -------------------------------
(***************************************************************************)
(* A hot container and the calls that it serves one after the other        *)
(* (api/agent/agent.go): submit after it has a slot, hotSlot.exec,         *)
(* dispatch with its writeResp goroutine, handleCallEnd, and the end of a  *)
(* round in runHot, which reads slot.done and goes on or stops.            *)
(*                                                                         *)
(* slot.done holds one value.  SetError drops what does not fit, so the    *)
(* first value decides, and slot.Close is SetError(nil).  The call's       *)
(* context, its writeResp goroutine and the function run concurrently with *)
(* it.  A response is reduced to its status and to how copying it ends,    *)
(* and the client's writer is a ResponseWriter (it is, outside tests).      *)
(***************************************************************************)
EXTENDS FiniteSets

CONSTANTS Calls, None

ASSUME HotSlotAssumption == None \notin Calls

VARIABLES
  ctr,      \* the container: "offer", "busy" or "over"
  cur,      \* the call that has its slot
  stderr,   \* the call its stderr goes to; None: the container's own log
  pc, ctx,  \* the call and its context: "live", "deadline", "canceled"
  old,      \* what swap found, for swapBack
  err,      \* the error exec is going to return; "nil"
  done,     \* slot.done: "empty", "nil" or "err"
  status,   \* status the function answered with
  writer,   \* writeResp: "off", "status", "set", "copy", "end"
  io,       \* its result, on ioErrChan
  answer,   \* what Submit returns
  breach    \* [Calls -> which clauses of the container contract it broke]

call == <<pc, old, err, answer>>
resp == <<status, writer, io>>
vars == <<ctr, cur, stderr, call, ctx, done, resp, breach>>

Statuses == {"200", "502", "504", "other"}
Errors   == {"start", "before", "response", "canceled", "failed", "invalid",
             "toobig", "short", "after"}
Clauses  == {"before", "uds", "late", "status", "after"}

Init ==
  /\ ctr = "offer" /\ cur = None /\ stderr = None
  /\ pc = [c \in Calls |-> "new"] /\ ctx = [c \in Calls |-> "live"]
  /\ old = [c \in Calls |-> None] /\ err = [c \in Calls |-> "nil"]
  /\ done = [c \in Calls |-> "empty"] /\ status = [c \in Calls |-> "none"]
  /\ writer = [c \in Calls |-> "off"] /\ io = [c \in Calls |-> "none"]
  /\ answer = [c \in Calls |-> "none"] /\ breach = [c \in Calls |-> {}]

Goto(c, l)   == pc' = [pc EXCEPT ![c] = l]
Fail(c, e)   == err' = [err EXCEPT ![c] = e]
Breach(c, b) == breach' = [breach EXCEPT ![c] = @ \cup {b}]

SetErrorLast(c, v) == done' = [done EXCEPT ![c] = v]   \* mutant: last one wins
SetError(c, v) == done' = [done EXCEPT ![c] = IF @ = "empty" THEN v ELSE @]

-----------------------------------------------------------------------------
(* The call. *)

acquire(c) ==
  /\ pc[c] = "new" /\ ctr = "offer"
  /\ ctr' = "busy" /\ cur' = c
  /\ Goto(c, "start")
  /\ UNCHANGED <<stderr, old, err, answer, ctx, done, resp, breach>>

\* The client leaves, or the deadline of the call passes.
ctxEnds(c) ==
  /\ ctx[c] = "live" /\ pc[c] \notin {"new", "end"}
  /\ \E e \in {"deadline", "canceled"} : ctx' = [ctx EXCEPT ![c] = e]
  /\ UNCHANGED <<ctr, cur, stderr, call, done, resp, breach>>

\* call.Start fails if the context has ended or a listener refuses; then the
\* slot goes back unused.
start(c) ==
  /\ pc[c] = "start"
  /\ \/ ctx[c] = "live" /\ Goto(c, "before") /\ UNCHANGED err
     \/ /\ Goto(c, "refused")
        /\ \E e \in {"start"} \cup ({ctx[c]} \ {"live"}) : Fail(c, e)
  /\ UNCHANGED <<ctr, cur, stderr, old, answer, ctx, done, resp, breach>>

\* BeforeCall, and the swap at the head of dispatch.
beforeCall(c) ==
  /\ pc[c] = "before"
  /\ \/ /\ Goto(c, "do")
        /\ old' = [old EXCEPT ![c] = stderr] /\ stderr' = c
        /\ UNCHANGED <<err, done, breach>>
     \/ /\ Goto(c, "close") /\ Fail(c, "before")
        /\ SetError(c, "err") /\ Breach(c, "before")
        /\ UNCHANGED <<old, stderr>>
  /\ UNCHANGED <<ctr, cur, answer, ctx, resp>>

\* udsClient.Do returns a response: writeResp gets a goroutine.
respond(c) ==
  /\ pc[c] = "do" /\ ctx[c] = "live"
  /\ \E s \in Statuses : status' = [status EXCEPT ![c] = s]
  /\ writer' = [writer EXCEPT ![c] = "status"]
  /\ Goto(c, "select")
  /\ UNCHANGED <<ctr, cur, stderr, old, err, answer, ctx, done, io, breach>>

swapBack(c) == stderr' = old[c]

\* Do fails: the container is gone, or the context has ended.
doFails(c) ==
  /\ pc[c] = "do"
  /\ SetError(c, "err") /\ Breach(c, "uds")
  /\ Fail(c, IF ctx[c] = "deadline" THEN "deadline" ELSE "response")
  /\ swapBack(c)
  /\ Goto(c, "after")
  /\ UNCHANGED <<ctr, cur, old, answer, ctx, resp>>

selectIO(c) ==
  /\ pc[c] = "select" /\ writer[c] = "end"
  /\ Fail(c, io[c])
  /\ swapBack(c)
  /\ Goto(c, "after")
  /\ UNCHANGED <<ctr, cur, old, answer, ctx, done, resp, breach>>

selectCtx(c) ==
  /\ pc[c] = "select" /\ ctx[c] # "live"
  /\ IF ctx[c] = "deadline" THEN SetError(c, "err") /\ Breach(c, "late")
     ELSE UNCHANGED <<done, breach>>
  /\ Fail(c, ctx[c])
  /\ swapBack(c)
  /\ Goto(c, "after")
  /\ UNCHANGED <<ctr, cur, old, answer, ctx, resp>>

\* AfterCall, whose error counts if there is no other.
afterCall(c) ==
  /\ pc[c] = "after"
  /\ \/ UNCHANGED <<err, done, breach>>
     \/ /\ Fail(c, IF err[c] = "nil" THEN "after" ELSE err[c])
        /\ SetError(c, "err") /\ Breach(c, "after")
  /\ Goto(c, "close")
  /\ UNCHANGED <<ctr, cur, stderr, old, answer, ctx, resp>>

\* handleCallEnd: slot.Close, call.End, and the error the client is told.
CloseIfStarted(c) ==                     \* mutant: no Close unless it started
  IF pc[c] = "refused" THEN UNCHANGED done ELSE SetError(c, "nil")
SlotClose(c) == SetError(c, "nil")

AnswerTo(c) ==
  CASE err[c] # "deadline" -> err[c]
    [] err[c] = "deadline" /\ pc[c] = "close" -> "timeout"
    [] err[c] = "deadline" /\ pc[c] = "refused" -> "busy"

handleCallEnd(c) ==
  /\ pc[c] \in {"close", "refused"}
  /\ SlotClose(c)
  /\ answer' = [answer EXCEPT ![c] = AnswerTo(c)]
  /\ Goto(c, "end")
  /\ UNCHANGED <<ctr, cur, stderr, old, err, ctx, resp, breach>>

-----------------------------------------------------------------------------
(* writeResp, in its goroutine. *)

\* The result goes on a channel with room for it: nobody need listen.
Ends(c, e) == /\ io' = [io EXCEPT ![c] = e]
              /\ writer' = [writer EXCEPT ![c] = "end"]

FailedIsNil(s) ==                        \* mutant: a 502 returns no error
  CASE s = "502" -> "nil" [] s = "504" -> "deadline"
IOErrorOf(s) ==
  CASE s = "502" -> "failed" [] s = "504" -> "deadline"

writeResp(c) ==
  /\ writer[c] = "status"
  /\ \/ status[c] \in {"502", "504"} /\ Ends(c, IOErrorOf(status[c]))
     \/ /\ status[c] = "200" /\ UNCHANGED io
        /\ writer' = [writer EXCEPT ![c] = "copy"]
     \/ /\ status[c] = "other" /\ UNCHANGED io
        /\ writer' = [writer EXCEPT ![c] = "set"]
  /\ UNCHANGED <<ctr, cur, stderr, call, ctx, done, status, breach>>

\* An invalid status: SetError, then the error.
writeRespInvalid(c) ==
  /\ writer[c] = "set"
  /\ SetError(c, "err") /\ Breach(c, "status")
  /\ Ends(c, "invalid")
  /\ UNCHANGED <<ctr, cur, stderr, call, ctx, status>>

\* io.Copy: all of the body, more than the limit or less than announced, or
\* cut short because the context has ended or dispatch has closed the body.
copyAll(c) ==
  /\ writer[c] = "copy"
  /\ \E e \in {"nil", "toobig", "short"} : Ends(c, e)
  /\ UNCHANGED <<ctr, cur, stderr, call, ctx, done, status, breach>>

copyCut(c) ==
  /\ writer[c] = "copy" /\ (ctx[c] # "live" \/ pc[c] # "select")
  /\ Ends(c, IF ctx[c] = "live" THEN "short" ELSE ctx[c])
  /\ UNCHANGED <<ctr, cur, stderr, call, ctx, done, status, breach>>

-----------------------------------------------------------------------------
(* runHot's child: one value from slot.done, and the next round or the end. *)
slotDone ==
  /\ ctr = "busy" /\ done[cur] # "empty"
  /\ done' = [done EXCEPT ![cur] = "empty"]
  /\ ctr' = IF done[cur] = "nil" THEN "offer" ELSE "over"
  /\ cur' = None
  /\ UNCHANGED <<stderr, call, ctx, resp, breach>>

-----------------------------------------------------------------------------
dispatch(c) == respond(c) \/ doFails(c) \/ selectIO(c) \/ selectCtx(c)
writing(c)  == writeResp(c) \/ writeRespInvalid(c) \/ copyAll(c) \/ copyCut(c)

Next ==
  \/ \E c \in Calls :
       \/ acquire(c) \/ ctxEnds(c) \/ start(c) \/ beforeCall(c) \/ dispatch(c)
       \/ afterCall(c) \/ handleCallEnd(c) \/ writing(c)
  \/ slotDone

Spec == Init /\ [][Next]_vars

(* Goroutines run and the timeout of exec (agent.go:304) fires; a function  *)
(* need not answer, nor end its body, but a transport whose context has     *)
(* ended returns.                                                           *)
Fairness ==
  /\ \A c \in Calls :
       /\ WF_vars(start(c) \/ beforeCall(c) \/ afterCall(c) \/ handleCallEnd(c))
       /\ WF_vars(ctxEnds(c))
       /\ WF_vars(ctx[c] # "live" /\ doFails(c))
       /\ WF_vars(selectIO(c) \/ selectCtx(c))
       /\ WF_vars(writeResp(c) \/ writeRespInvalid(c) \/ copyCut(c))
  /\ WF_vars(slotDone)

FairSpec == Spec /\ Fairness

-----------------------------------------------------------------------------
(* Type invariant. *)
TypeOK ==
  /\ ctr \in {"offer", "busy", "over"} /\ cur \in Calls \cup {None}
  /\ stderr \in Calls \cup {None} /\ old \in [Calls -> Calls \cup {None}]
  /\ pc \in [Calls -> {"new", "start", "before", "do", "select", "after",
                   "close", "refused", "end"}]
  /\ ctx \in [Calls -> {"live", "deadline", "canceled"}]
  /\ err \in [Calls -> {"nil", "deadline"} \cup Errors]
  /\ done \in [Calls -> {"empty", "nil", "err"}]
  /\ status \in [Calls -> Statuses \cup {"none"}]
  /\ writer \in [Calls -> {"off", "status", "set", "copy", "end"}]
  /\ io \in [Calls -> {"none", "nil", "deadline"} \cup Errors]
  /\ answer \in [Calls -> {"none", "nil", "timeout", "busy"} \cup Errors]
  /\ breach \in [Calls -> SUBSET Clauses]

\* The container does not go on after a call that broke clause b.
Stops(b) == \A c \in Calls : b \in breach[c] /\ cur # c => ctr = "over"

(* After a BeforeCall or AfterCall that failed, an exchange that failed and *)
(* a timeout that dispatch saw, the container serves nobody else, whatever  *)
(* the call, its writer and Close put on slot.done before or after.  An     *)
(* invalid FDK status is not among them: the SetError of writeResp comes    *)
(* too late when the client has left first (agent.go:726).                  *)
FailureStopsContainer ==
  Stops("before") /\ Stops("uds") /\ Stops("late") /\ Stops("after")

(* The container's stderr is that of the call in dispatch, and its own log  *)
(* between calls; no call's lines go to the one before or after it.         *)
StderrOfCall ==
  /\ \A c \in Calls : pc[c] \in {"do", "select"} => stderr = c
  /\ stderr # None => pc[stderr] \in {"do", "select"}

(* A call is reported successful only if the function answered 200 and all  *)
(* of its body was copied to the client before the call ended.              *)
SuccessIsComplete ==
  \A c \in Calls : answer[c] = "nil" => status[c] = "200" /\ io[c] = "nil"

(* A slot that was handed out comes back: the container starts its next     *)
(* round or ends, however the call fails.                                   *)
SlotComesBack == ctr = "busy" ~> ctr # "busy"
=============================================================================
