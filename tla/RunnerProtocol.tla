--------------------------- MODULE RunnerProtocol ---------------------------
(***************************************************************************)
(* The protocol between a load balancer and its pure runners: TryExec and  *)
(* its two goroutines (api/agent/runner_client.go) against Engage and the  *)
(* goroutines of a callHandle (api/agent/pure_runner.go).  One call is     *)
(* tried on one runner after another; an attempt is one gRPC stream.  The  *)
(* runner's side of an attempt is a record, and the methods of callHandle  *)
(* are operators on it.  The agent behind Submit and the function are      *)
(* modelled by what they may do to the call handle.                        *)
(***************************************************************************)
EXTENDS Naturals, Sequences, FiniteSets

CONSTANTS NAttempts,  \* how often the call is tried on a runner
          Frames,     \* data frames of the request; the last carries Eof
          Chunks      \* data frames of a full response

ASSUME AttemptsAssumption == NAttempts \in Nat \ {0}
ASSUME FramesAssumption == Frames \in Nat \ {0} /\ Chunks \in Nat

VARIABLES
  detached,   \* call.Type = TypeDetached
  try,        \* per attempt: where TryExec is, and what it returned
  sent,       \* per attempt: frames sendToRunner has sent
  recv,       \* per attempt: where receiveFromRunner is
  recvDone,   \* per attempt: the channel recvDone, of capacity 1
  w,          \* what was written to the caller's ResponseWriter
  link,       \* per attempt: "none", "up" or "down"
  toRunner,   \* per attempt: messages from the client to the runner
  toLB,       \* per attempt: messages from the runner to the client
  r,          \* per attempt: the call handle and its goroutines
  wrote,      \* per attempt: the chunks the function's response has so far
  executed,   \* the attempts whose function was started
  runs        \* how often one was started

clientVars == <<try, sent, recv, recvDone, w>>
runnerVars == <<r, wrote, executed, runs>>
vars == <<detached, clientVars, link, toRunner, toLB, runnerVars>>

Attempts == 1..NAttempts
Try == 0
Eof == Frames
Errors == {"busy", "err"}
Msgs == [type : {"start"}] \cup [type : {"data"}, n : 1..Chunks]
          \cup [type : {"finished", "status"}, v : Errors \cup {"ok"}]

NoHandle == [eng |-> "none", sx |-> "run", px |-> "none",
             sub |-> "none", out |-> "ok", wr |-> "none", feed |-> 0,
             rctx |-> FALSE, sctx |-> FALSE, shut |-> FALSE, err |-> "none",
             callErr |-> "none", eofSeen |-> FALSE, pipe |-> "open",
             reader |-> "open", header |-> FALSE]

Handles ==
  [eng : {"none", "try", "reject", "data", "feed", "wait", "returned"},
   sx : {"run", "done"}, px : {"none", "idle", "copy", "done"},
   sub : {"none", "queued", "run", "answer", "final", "done"},
   out : Errors \cup {"ok"}, wr : {"none", "head", "body", "ok", "err"},
   feed : 0..Frames, rctx : BOOLEAN, sctx : BOOLEAN, shut : BOOLEAN,
   err : Errors \cup {"none"}, callErr : {"none", "write", "premature"},
   eofSeen : BOOLEAN, pipe : {"open", "closed"}, reader : {"open", "closed"},
   header : BOOLEAN]

TypeOK ==
  /\ detached \in BOOLEAN
  /\ try \in [Attempts -> {"idle", "wait", "notplaced", "ok", "err", "ctx"}]
  /\ sent \in [Attempts -> 0..Frames]
  /\ recv \in [Attempts -> {"off", "data", "skip", "eof", "done"}]
  /\ recvDone \in [Attempts -> Seq(Errors)]
  /\ \A a \in Attempts : Len(recvDone[a]) <= 1
  /\ w \in Seq(Attempts \X (1..Chunks))
  /\ link \in [Attempts -> {"none", "up", "down"}]
  /\ toRunner \in [Attempts -> Seq(0..Frames)]
  /\ toLB \in [Attempts -> Seq(Msgs)]
  /\ r \in [Attempts -> Handles]
  /\ wrote \in [Attempts -> 0..Chunks]
  /\ executed \subseteq Attempts /\ runs \in Nat

Init ==
  /\ detached \in BOOLEAN
  /\ try = [a \in Attempts |-> "idle"]
  /\ sent = [a \in Attempts |-> 0]
  /\ recv = [a \in Attempts |-> "off"]
  /\ recvDone = [a \in Attempts |-> <<>>]
  /\ w = <<>>
  /\ link = [a \in Attempts |-> "none"]
  /\ toRunner = [a \in Attempts |-> <<>>]
  /\ toLB = [a \in Attempts |-> <<>>]
  /\ r = [a \in Attempts |-> NoHandle]
  /\ wrote = [a \in Attempts |-> 0]
  /\ executed = {} /\ runs = 0

-----------------------------------------------------------------------------
(* The load balancer.                                                      *)

\* The placer tries a runner when the one before it did not take the call.
MayTry(a) == /\ try[a] = "idle"
             /\ \A b \in 1..(a - 1) : try[b] = "notplaced"

(* TryExec up to the Send of TryCall.  A closed runner, a failed Engage and *)
(* a Send that fails with codes.Unavailable leave the call unplaced; any    *)
(* other failure gives the call up.                                         *)
TryFails(a) ==
  /\ MayTry(a)
  /\ \E res \in {"notplaced", "err"} : try' = [try EXCEPT ![a] = res]
  /\ UNCHANGED <<detached, sent, recv, recvDone, w, link, toRunner,
                 toLB, runnerVars>>

(* The Send failed, but not with Unavailable: the stream is gone, yet the   *)
(* runner may have TryCall.                                                 *)
TryLost(a) ==
  /\ MayTry(a)
  /\ try' = [try EXCEPT ![a] = "err"]
  /\ link' = [link EXCEPT ![a] = "down"]
  /\ toRunner' = [toRunner EXCEPT ![a] = <<Try>>]
  /\ r' = [r EXCEPT ![a].eng = "try"]
  /\ UNCHANGED <<detached, sent, recv, recvDone, w, toLB, wrote,
                 executed, runs>>

\* TryCall is on its way and the two goroutines are started.
TrySent(a) ==
  /\ MayTry(a)
  /\ try' = [try EXCEPT ![a] = "wait"]
  /\ recv' = [recv EXCEPT ![a] = "data"]
  /\ link' = [link EXCEPT ![a] = "up"]
  /\ toRunner' = [toRunner EXCEPT ![a] = <<Try>>]
  /\ r' = [r EXCEPT ![a].eng = "try"]
  /\ UNCHANGED <<detached, sent, recvDone, w, toLB, wrote, executed, runs>>

(* sendToRunner: the next frame, or the Eof frame early when reading the   *)
(* body of the caller failed; a failed Send ends the goroutine.            *)
sendToRunner(a) ==
  /\ recv[a] # "off" /\ sent[a] < Frames
  /\ link[a] = "up" /\ r[a].eng # "returned"
  /\ \E f \in {sent[a] + 1, Eof} :
       /\ sent' = [sent EXCEPT ![a] = f]
       /\ toRunner' = [toRunner EXCEPT ![a] = Append(@, f)]
  /\ UNCHANGED <<detached, try, recv, recvDone, w, link, toLB,
                 runnerVars>>

\* tryQueueError: dropped when an error is queued; read by TryExec only.
tryQueueError(a, e) ==
  IF recvDone[a] = <<>> /\ try[a] = "wait" THEN <<e>> ELSE recvDone[a]

(* receiveFromRunner before Finished: a Data message is written to the     *)
(* caller, until a write fails; Finished may carry an error; the end of    *)
(* the stream is an error here.                                            *)
receiveMsg(a) ==
  LET m == Head(toLB[a]) IN
  /\ recv[a] \in {"data", "skip"} /\ toLB[a] # <<>>
  /\ toLB' = [toLB EXCEPT ![a] = Tail(@)]
  /\ \/ /\ m.type = "start"
        /\ UNCHANGED <<recv, recvDone, w>>
     \/ /\ m.type = "data" /\ recv[a] = "data"
        /\ w' = Append(w, <<a, m.n>>)
        /\ UNCHANGED <<recv, recvDone>>
     \/ /\ m.type = "data" /\ recv[a] = "data"
        /\ recv' = [recv EXCEPT ![a] = "skip"]
        /\ recvDone' = [recvDone EXCEPT ![a] = tryQueueError(a, "err")]
        /\ UNCHANGED w
     \/ /\ m.type = "data" /\ recv[a] = "skip"
        /\ UNCHANGED <<recv, recvDone, w>>
     \/ /\ m.type = "finished"
        /\ recv' = [recv EXCEPT ![a] = "eof"]
        /\ recvDone' = [recvDone EXCEPT ![a] =
                          IF m.v = "ok" THEN @ ELSE tryQueueError(a, m.v)]
        /\ UNCHANGED w
     \/ /\ m.type = "status"
        /\ recv' = [recv EXCEPT ![a] = "done"]
        /\ recvDone' = [recvDone EXCEPT ![a] = tryQueueError(a,
                          IF m.v = "ok" THEN "err" ELSE m.v)]
        /\ UNCHANGED w
  /\ UNCHANGED <<detached, try, sent, link, toRunner, runnerVars>>

(* receiveFromRunner after Finished: only the end of the stream should     *)
(* follow.                                                                 *)
receiveEof(a) ==
  LET m == Head(toLB[a]) IN
  /\ recv[a] = "eof" /\ toLB[a] # <<>>
  /\ toLB' = [toLB EXCEPT ![a] = Tail(@)]
  /\ IF m.type = "status"
       THEN /\ recv' = [recv EXCEPT ![a] = "done"]
            /\ recvDone' = [recvDone EXCEPT ![a] =
                              IF m.v = "ok" THEN @ ELSE tryQueueError(a, m.v)]
       ELSE /\ recvDone' = [recvDone EXCEPT ![a] = tryQueueError(a, "err")]
            /\ UNCHANGED recv
  /\ UNCHANGED <<detached, try, sent, w, link, toRunner, runnerVars>>

\* Mutant: a lost stream reads like the end of one.
recvErrorLost(a) == recvDone[a]

\* Recv fails: the stream was cancelled or lost.
recvError(a) == tryQueueError(a, "err")

receiveFails(a) ==
  /\ recv[a] \in {"data", "skip", "eof"} /\ link[a] = "down"
  /\ recv' = [recv EXCEPT ![a] = "done"]
  /\ recvDone' = [recvDone EXCEPT ![a] = recvError(a)]
  /\ toLB' = [toLB EXCEPT ![a] = <<>>]
  /\ UNCHANGED <<detached, try, sent, w, link, toRunner, runnerVars>>

\* Mutant: every failed attempt is retried.
isTooBusyAlways(e) == TRUE

isTooBusy(e) == e = "busy"

(* The stream is gone: each side may still have some of what was sent.     *)
Cancel(a) ==
  /\ link' = [link EXCEPT ![a] = "down"]
  /\ \E k \in 0..Len(toRunner[a]) :
       toRunner' = [toRunner EXCEPT ![a] = SubSeq(@, 1, k)]
  /\ \E k \in {0, 1} \cap 0..Len(toLB[a]) :
       toLB' = [toLB EXCEPT ![a] = SubSeq(@, 1, k)]

(* The select that ends TryExec: the context of the caller, which may end   *)
(* at any time, an error of recvDone, or its close, which reads as no       *)
(* error.  TryRunner then cancels the context of the attempt.               *)
TryReturns(a) ==
  /\ try[a] = "wait"
  /\ \/ try' = [try EXCEPT ![a] = "ctx"]
     \/ /\ recvDone[a] # <<>>
        /\ try' = [try EXCEPT ![a] =
             IF isTooBusy(Head(recvDone[a])) THEN "notplaced" ELSE "err"]
     \/ /\ recvDone[a] = <<>> /\ recv[a] = "done"
        /\ try' = [try EXCEPT ![a] = "ok"]
  /\ recvDone' = [recvDone EXCEPT ![a] = <<>>]
  /\ sent' = [sent EXCEPT ![a] = Frames]
  /\ Cancel(a)
  /\ UNCHANGED <<detached, recv, w, runnerVars>>

-----------------------------------------------------------------------------
(* The call handle: methods of callHandle as operators on its record.      *)

\* Mutant: only the context is watched.
sessionOverCtx(h) == h.rctx

\* What every select of the handle watches: doneQueue and the context.
sessionOver(h) == h.shut \/ h.rctx

\* shutdown closes the pipe and, once, queues the error and closes doneQueue.
shutdown(h, e) ==
  IF h.shut THEN [h EXCEPT !.pipe = "closed"]
  ELSE [h EXCEPT !.pipe = "closed", !.shut = TRUE,
                 !.err = IF @ = "none" THEN e ELSE @]

\* enqueueCallErrorResponse: the first error wins, the submit is cancelled.
enqueueCallErrorResponse(h, e) ==
  [h EXCEPT !.callErr = IF @ = "none" THEN e ELSE @, !.sctx = TRUE]

(* enqueueMsg and the sender: what may become of a message.  The sender    *)
(* takes it and sends it, or shuts down when Send fails; the enqueue fails *)
(* when the context or doneQueue is seen first, by it or by the sender.    *)
enqueueMsg(h, m, up) ==
  (CASE h.sx = "run" /\ up /\ ~h.rctx ->
          {[h |-> h, msgs |-> <<m>>, ok |-> TRUE]}
     [] h.sx = "run" /\ ~(up /\ ~h.rctx) ->
          {[h |-> [shutdown(h, "err") EXCEPT !.sx = "done"],
            msgs |-> <<>>, ok |-> TRUE]}
     [] OTHER -> {})
  \cup (IF sessionOver(h)
          THEN {[h |-> h, msgs |-> <<>>, ok |-> FALSE]} ELSE {})

\* enqueueMsgStrict: a message that cannot be queued shuts the session down.
enqueueMsgStrict(h, m, up) ==
  {IF e.ok THEN e ELSE [e EXCEPT !.h = shutdown(e.h, "err")]
     : e \in enqueueMsg(h, m, up)}

\* The nil sentinel of finalize: the sender shuts down without an error.
enqueueNil(h) ==
  (IF h.sx = "run"
     THEN {[shutdown(h, "none") EXCEPT !.sx = "done"]} ELSE {})
  \cup (IF sessionOver(h) THEN {shutdown(h, "err")} ELSE {})

-----------------------------------------------------------------------------
(* The goroutines of the runner.                                           *)

\* A handle whose goroutines have all ended is garbage.
Gone == [NoHandle EXCEPT !.eng = "returned"]

Over(h) == /\ h.eng = "returned" /\ h.shut
           /\ h.sub \in {"none", "done"} /\ h.px \in {"none", "done"}
           /\ h.wr \in {"none", "ok", "err"}

\* The actions of a runner change its handle and what it sends.
SetHandle(a, h) == r' = [r EXCEPT ![a] = IF Over(h) THEN Gone ELSE h]

Handle(a, h) ==
  /\ SetHandle(a, h)
  /\ UNCHANGED <<detached, clientVars, link, toRunner, toLB, wrote, executed, runs>>

Enqueued(a, e, h) ==
  /\ SetHandle(a, h)
  /\ toLB' = [toLB EXCEPT ![a] = IF recv[a] \in {"off", "done"} THEN <<>>
                                   ELSE @ \o e.msgs]

(* handleTryCall starts the submit and the goroutine that feeds the pipe,  *)
(* or answers a call it cannot take: one that does not parse, the status   *)
(* image, a detached call where those are not enabled.                     *)
handleTryCall(h) ==
  {[h EXCEPT !.eng = "data", !.px = "idle", !.sub = "queued"],
   [h EXCEPT !.eng = "reject", !.out = "err", !.sub = "answer"]}

\* Engage waits for TryCall and handles it.
getTryMsg(a) ==
  /\ r[a].eng = "try"
  /\ \/ /\ toRunner[a] # <<>>
        /\ toRunner' = [toRunner EXCEPT ![a] = Tail(@)]
        /\ \E h \in handleTryCall(r[a]) : r' = [r EXCEPT ![a] = h]
     \/ /\ r[a].rctx
        /\ r' = [r EXCEPT ![a] = [shutdown(@, "busy") EXCEPT !.eng = "wait"]]
        /\ UNCHANGED toRunner
     \/ /\ r[a].shut
        /\ r' = [r EXCEPT ![a] = [shutdown(@, "err") EXCEPT !.eng = "wait"]]
        /\ UNCHANGED toRunner
  /\ UNCHANGED <<detached, clientVars, link, toLB, wrote, executed, runs>>

\* The data loop of Engage: the next frame, or a shutdown when there is none.
getDataMsg(a) ==
  /\ r[a].eng = "data"
  /\ \/ /\ toRunner[a] # <<>>
        /\ toRunner' = [toRunner EXCEPT ![a] = Tail(@)]
        /\ r' = [r EXCEPT ![a] = [@ EXCEPT !.eng = "feed",
                                           !.feed = Head(toRunner[a])]]
     \/ /\ sessionOver(r[a])
        /\ r' = [r EXCEPT ![a] = [shutdown(@, "err") EXCEPT !.eng = "wait"]]
        /\ UNCHANGED toRunner
  /\ UNCHANGED <<detached, clientVars, link, toLB, wrote, executed, runs>>

\* The frame is handed to the goroutine of spawnPipeToFn.
feedData(a) ==
  LET h == r[a] IN
  /\ h.eng = "feed"
  /\ \/ /\ h.px = "idle"
        /\ Handle(a, [h EXCEPT !.px = "copy",
                        !.eng = IF h.feed = Eof THEN "wait" ELSE "data"])
     \/ sessionOver(h) /\ Handle(a, [h EXCEPT !.eng = "wait"])

\* waitError: the queued error, or that of the context.
waitError(h) == CASE h.err # "none" -> h.err
                  [] h.err = "none" /\ h.rctx -> "err"
                  [] OTHER -> "ok"

\* The session is over: Engage returns and gRPC ends the stream.
EngageReturns(a) ==
  LET h == r[a] IN
  /\ h.eng = "wait" \/ (h.eng = "reject" /\ h.sub = "done")
  /\ sessionOver(h)
  /\ SetHandle(a, [h EXCEPT !.eng = "returned", !.err = "none",
                            !.rctx = TRUE, !.sctx = TRUE])
  /\ toRunner' = [toRunner EXCEPT ![a] = <<>>]
  /\ toLB' = [toLB EXCEPT ![a] =
       IF link[a] # "up" \/ recv[a] \in {"off", "done"} THEN @
       ELSE Append(@, [type |-> "status", v |-> waitError(h)])]
  /\ UNCHANGED <<detached, clientVars, link, wrote, executed, runs>>

\* spawnReceiver: Recv fails once the context is done, and shuts down.
receiverFails(a) ==
  /\ r[a].rctx /\ ~r[a].shut
  /\ Handle(a, shutdown(r[a], "err"))

\* The frame went through the pipe: the goroutine ends after the Eof frame.
copied(h) ==
  IF h.feed = Eof THEN [h EXCEPT !.eofSeen = TRUE, !.px = "done",
                                 !.pipe = "closed", !.feed = 0]
  ELSE [h EXCEPT !.px = "idle", !.feed = 0]

(* spawnPipeToFn: an empty Eof frame needs no reader; a copy fails when    *)
(* either end of the pipe is closed; the goroutine stops with the session. *)
pipeToFn(a) ==
  LET h == r[a] IN
  \/ /\ h.px = "copy" /\ h.feed = Eof
     /\ Handle(a, copied(h))
  \/ /\ h.px = "copy" /\ (h.pipe = "closed" \/ h.reader = "closed")
     /\ Handle(a, [enqueueCallErrorResponse(h, "write")
                     EXCEPT !.px = "done", !.pipe = "closed", !.feed = 0])
  \/ /\ h.px = "idle" /\ sessionOver(h)
     /\ Handle(a, [h EXCEPT !.px = "done", !.pipe = "closed"])

-----------------------------------------------------------------------------
(* Submit of the agent, as the call handle sees it.                        *)

\* The call does not start: no slot in time, an error, or a cancelled call.
submitRefused(a) ==
  LET h == r[a] IN
  /\ h.sub = "queued"
  /\ \E e \in Errors : Handle(a, [h EXCEPT !.sub = "answer", !.out = e])

(* The call has a slot.  BeforeCall acknowledges a detached call with      *)
(* status 202, once; then the function is started.                         *)
submitStarts(a) ==
  LET h == r[a] IN
  /\ h.sub = "queued"
  /\ \/ ~detached /\ r' = [r EXCEPT ![a].sub = "run"] /\ UNCHANGED toLB
     \/ /\ detached
        /\ \E e \in enqueueMsgStrict(h, [type |-> "start"], link[a] = "up") :
             Enqueued(a, e, [e.h EXCEPT !.sub = "run", !.header = TRUE])
  /\ executed' = executed \cup {a} /\ runs' = runs + 1
  /\ UNCHANGED <<detached, clientVars, link, toRunner, wrote>>

\* The request of the container reads the next frame, or closes its body.
fnReads(a) ==
  LET h == r[a] IN
  /\ h.sub = "run" /\ h.reader = "open"
  /\ \/ h.px = "copy" /\ Handle(a, copied(h))
     \/ Handle(a, [h EXCEPT !.reader = "closed"])

\* The container answers with status 200: writeResp runs on its own.
fnResponds(a) ==
  /\ r[a].sub = "run" /\ r[a].wr = "none"
  /\ Handle(a, [r[a] EXCEPT !.wr = "head"])

\* WriteHeader refuses status 200 before the Eof frame was seen.
mayWriteOK(h) == h.eofSeen

(* WriteHeader(200) of writeResp: refused before the Eof frame was seen,   *)
(* else sent once.                                                         *)
WriteHeader(a) ==
  LET h == r[a] IN
  /\ h.wr = "head"
  /\ \/ /\ ~mayWriteOK(h)
        /\ r' = [r EXCEPT ![a] = [enqueueCallErrorResponse(h, "premature")
                                    EXCEPT !.wr = "body"]]
        /\ UNCHANGED toLB
     \/ /\ mayWriteOK(h) /\ h.header
        /\ r' = [r EXCEPT ![a].wr = "body"]
        /\ UNCHANGED toLB
     \/ /\ mayWriteOK(h) /\ ~h.header
        /\ \E e \in enqueueMsgStrict(h, [type |-> "start"], link[a] = "up") :
             Enqueued(a, e, [e.h EXCEPT !.wr = "body", !.header = TRUE])
  /\ UNCHANGED <<detached, clientVars, link, toRunner, wrote, executed, runs>>

(* Write of the next chunk of the response: thrown away for a detached     *)
(* call, refused once the session or the submit is over, else sent.        *)
Write(a) ==
  LET h == r[a]
      m == [type |-> "data", n |-> wrote[a] + 1]
  IN
  /\ h.wr = "body" /\ wrote[a] < Chunks
  /\ \/ /\ detached
        /\ wrote' = [wrote EXCEPT ![a] = @ + 1]
        /\ UNCHANGED <<r, toLB>>
     \/ /\ ~detached /\ (h.sctx \/ sessionOver(h))
        /\ SetHandle(a, [h EXCEPT !.wr = "err"])
        /\ UNCHANGED <<toLB, wrote>>
     \/ /\ ~detached /\ ~(h.sctx \/ sessionOver(h))
        /\ \E e \in enqueueMsg(h, m, link[a] = "up") :
             /\ Enqueued(a, e, [e.h EXCEPT !.wr = IF e.ok THEN @ ELSE "err"])
             /\ wrote' = [wrote EXCEPT ![a] = IF e.ok THEN @ + 1 ELSE @]
  /\ UNCHANGED <<detached, clientVars, link, toRunner, executed, runs>>

\* The body of the response ended, as it should or with a read error.
writeEnds(a) ==
  /\ r[a].wr = "body"
  /\ \/ wrote[a] = Chunks /\ Handle(a, [r[a] EXCEPT !.wr = "ok"])
     \/ Handle(a, [r[a] EXCEPT !.wr = "err"])

(* Submit returns: the response was written, the function failed, or the   *)
(* deadline or a cancelled context ended it, writeResp being left behind.  *)
submitReturns(a) ==
  LET h == r[a] IN
  /\ h.sub = "run"
  /\ \E o \in {"ok", "err"} :
       /\ o = "ok" => h.wr = "ok"
       /\ Handle(a, [h EXCEPT !.sub = "answer", !.out = o,
                              !.reader = "closed"])

\* enqueueCallResponse: Finished, where an error of the handle goes first.
enqueueCallResponse(a) ==
  LET h == r[a]
      m == [type |-> "finished", v |-> IF h.callErr = "none" THEN h.out
                                       ELSE "err"]
  IN
  /\ h.sub = "answer"
  /\ \E e \in enqueueMsgStrict(h, m, link[a] = "up") :
       Enqueued(a, e, [e.h EXCEPT !.sub = IF e.ok THEN "final" ELSE "done"])
  /\ UNCHANGED <<detached, clientVars, link, toRunner, wrote, executed, runs>>

finalize(a) ==
  /\ r[a].sub = "final"
  /\ \E h \in enqueueNil(r[a]) : Handle(a, [h EXCEPT !.sub = "done"])

-----------------------------------------------------------------------------
(* What happens around the protocol.                                       *)

\* The connection is lost.
LinkBreaks(a) ==
  /\ link[a] = "up" /\ Cancel(a)
  /\ UNCHANGED <<detached, clientVars, runnerVars>>

(* The context of the engagement is done: cancelled by the client, lost    *)
(* with the connection, or past the deadline the client sent along.        *)
EngagementDone(a) ==
  /\ r[a].eng \notin {"none", "returned"} /\ ~r[a].rctx
  /\ Handle(a, [r[a] EXCEPT !.rctx = TRUE, !.sctx = TRUE])

ClientStep(a) ==
  \/ TryFails(a) \/ TryLost(a) \/ TrySent(a) \/ sendToRunner(a)
  \/ receiveMsg(a) \/ receiveEof(a) \/ receiveFails(a) \/ TryReturns(a)

RunnerStep(a) ==
  \/ getTryMsg(a) \/ getDataMsg(a) \/ feedData(a) \/ EngageReturns(a)
  \/ receiverFails(a) \/ pipeToFn(a)
  \/ submitRefused(a) \/ submitStarts(a) \/ fnReads(a) \/ fnResponds(a)
  \/ WriteHeader(a) \/ Write(a) \/ writeEnds(a) \/ submitReturns(a)
  \/ enqueueCallResponse(a) \/ finalize(a)

Next ==
  \E a \in Attempts : ClientStep(a) \/ RunnerStep(a)
                         \/ LinkBreaks(a) \/ EngagementDone(a)

Spec == Init /\ [][Next]_vars

(* The runner makes progress: some goroutine that can move does, Submit     *)
(* ends (its deadline does), and a stream that is gone is noticed.  What    *)
(* the function does, and the client, may never happen.                     *)
Progress(a) ==
  \/ getTryMsg(a) \/ getDataMsg(a) \/ feedData(a) \/ EngageReturns(a)
  \/ receiverFails(a) \/ pipeToFn(a) \/ submitRefused(a) \/ submitStarts(a)
  \/ WriteHeader(a) \/ Write(a) \/ writeEnds(a) \/ submitReturns(a)
  \/ enqueueCallResponse(a) \/ finalize(a)
  \/ link[a] = "down" /\ EngagementDone(a)

Fairness == \A a \in Attempts : WF_vars(Progress(a))

FairSpec == Spec /\ Fairness

-----------------------------------------------------------------------------
(* Properties.                                                             *)

(* TryExec reports "not placed" only for a call the runner has not started *)
(* and will not start, so the placer may offer it to another runner; at    *)
(* most one runner ever starts it.                                         *)
RetryIsSafe ==
  /\ \A a \in executed : try[a] # "notplaced"
  /\ Cardinality(executed) <= 1

(* The caller is sent the chunks of one runner, each once and in order,    *)
(* whatever was retried, lost or cancelled.                                *)
OneAnswer ==
  /\ \A i \in 1..Len(w) : w[i][2] = i /\ w[i][1] = w[1][1]
  /\ w # <<>> => w[1][1] \in executed

(* That holds throughout, and TryExec returns without an error only when   *)
(* the function ran and its whole response reached the caller (none is     *)
(* sent for a detached call).                                              *)
CompleteAnswer ==
  /\ OneAnswer
  /\ \A a \in Attempts : try[a] = "ok" =>
       a \in executed /\ (~detached => Len(w) = Chunks)

\* The call as its caller sees it.
answerOf ==
  IF \E a \in Attempts : try[a] \in {"ok", "err", "ctx"}
    THEN try[CHOOSE a \in Attempts : try[a] \in {"ok", "err", "ctx"}]
  ELSE IF \A a \in Attempts : try[a] = "notplaced" THEN "refused" ELSE "none"

Call == INSTANCE OneCall WITH Answers <- {"ok", "err", "ctx", "refused"},
                              runs <- runs, answer <- answerOf

(* The protocol implements one call: the function is started at most once, *)
(* by whatever attempt and however often that is tried, never after a      *)
(* refusal, and a success is the answer of that run.                       *)
ImplementsOneCall == Call!Spec

(* Every engagement a runner begins returns, whatever the client and the   *)
(* function do, so that a runner drains.                                   *)
EngagementEnds ==
  (\E a \in Attempts : r[a].eng = "try")
     ~> (\A a \in Attempts : r[a].eng \in {"none", "returned"})
=============================================================================
