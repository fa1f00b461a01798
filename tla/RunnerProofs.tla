---------------------------- MODULE RunnerProofs ----------------------------
(***************************************************************************)
(* Proofs about two parts of a runner.  HotSlot, for every set of calls:   *)
(* at most one call is active, and the container is its own (or has        *)
(* ended); Close is the last thing a call does, so an error set by the     *)
(* call itself finds slot.done empty or in error already.  RunnerStatus,   *)
(* for every number of requests and runs and every life of the cache: no   *)
(* answer is stale, and a run is shared, never doubled.                    *)
(***************************************************************************)
EXTENDS HotSlot, RunnerStatus, TLAPS

-----------------------------------------------------------------------------
(* The slot of a hot container                                               *)

Active(c) == pc[c] \notin {"new", "end"}
Hard == {"before", "uds", "late", "after"}

EndsWithResult == \A c \in Calls : writer[c] = "end" => io[c] # "none"

OneActive ==
  /\ ctr = "busy" <=> cur \in Calls
  /\ \A c \in Calls : Active(c) => ctr = "over" \/ cur = c
  /\ \A c, d \in Calls : Active(c) /\ Active(d) => c = d

CloseComesLast == \A c \in Calls : done[c] = "nil" => pc[c] = "end"

ErrorIsKept ==
  \A c \in Calls, b \in Hard :
    b \in breach[c] => ctr = "over" \/ (cur = c /\ done[c] = "err")

StderrNested ==
  /\ StderrOfCall
  /\ \A c \in Calls : pc[c] \in {"do", "select"} => old[c] = None

\* The result of a call is that of its writer, and a writer that reports
\* success has copied a 200.
ResultOfWriter ==
  \A c \in Calls :
    /\ pc[c] \in {"new", "start", "before", "do"}
         => writer[c] = "off" /\ io[c] = "none"
    /\ writer[c] = "copy" => status[c] = "200"
    /\ writer[c] = "off" => io[c] = "none"
    /\ io[c] = "nil" => writer[c] = "end" /\ status[c] = "200"
    /\ pc[c] \in {"after", "close", "refused"} /\ err[c] = "nil" => io[c] = "nil"
    /\ pc[c] \in {"new", "start", "before", "do", "select"} => err[c] = "nil"
    /\ answer[c] = "nil" => io[c] = "nil"

(* Every step keeps the types. *)
LEMMA TypeStep ==
  ASSUME TypeOK, EndsWithResult, [Next]_vars
  PROVE  (TypeOK /\ EndsWithResult)'
<1> USE HotSlotAssumption DEF TypeOK, EndsWithResult, Errors, Clauses
<1>1. ASSUME NEW c \in Calls, acquire(c) PROVE (TypeOK /\ EndsWithResult)'
  BY <1>1 DEF acquire, Goto, call, resp
<1>2. ASSUME NEW c \in Calls, ctxEnds(c) PROVE (TypeOK /\ EndsWithResult)'
  BY <1>2 DEF ctxEnds, call, resp
<1>3. ASSUME NEW c \in Calls, start(c) PROVE (TypeOK /\ EndsWithResult)'
  BY <1>3 DEF start, Goto, Fail, call, resp
<1>4. ASSUME NEW c \in Calls, beforeCall(c) PROVE (TypeOK /\ EndsWithResult)'
  BY <1>4 DEF beforeCall, Goto, Fail, SetError, Breach, call, resp
<1>5. ASSUME NEW c \in Calls, respond(c) PROVE (TypeOK /\ EndsWithResult)'
  BY <1>5 DEF respond, Goto, Statuses, call, resp
<1>6. ASSUME NEW c \in Calls, doFails(c) PROVE (TypeOK /\ EndsWithResult)'
  BY <1>6 DEF doFails, SetError, Breach, Fail, swapBack, Goto, call, resp
<1>7. ASSUME NEW c \in Calls, selectIO(c) PROVE (TypeOK /\ EndsWithResult)'
  BY <1>7 DEF selectIO, Fail, swapBack, Goto, call, resp
<1>8. ASSUME NEW c \in Calls, selectCtx(c) PROVE (TypeOK /\ EndsWithResult)'
  BY <1>8 DEF selectCtx, SetError, Breach, Fail, swapBack, Goto, call, resp
<1>9. ASSUME NEW c \in Calls, afterCall(c) PROVE (TypeOK /\ EndsWithResult)'
  BY <1>9 DEF afterCall, Fail, SetError, Breach, Goto, call, resp
<1>10. ASSUME NEW c \in Calls, handleCallEnd(c) PROVE (TypeOK /\ EndsWithResult)'
  BY <1>10 DEF handleCallEnd, SlotClose, SetError, AnswerTo, Goto, call, resp
<1>11. ASSUME NEW c \in Calls, writeResp(c) PROVE (TypeOK /\ EndsWithResult)'
  BY <1>11 DEF writeResp, Ends, IOErrorOf, Statuses, call, resp
<1>12. ASSUME NEW c \in Calls, writeRespInvalid(c) PROVE (TypeOK /\ EndsWithResult)'
  BY <1>12 DEF writeRespInvalid, SetError, Breach, Ends, call, resp
<1>13. ASSUME NEW c \in Calls, copyAll(c) PROVE (TypeOK /\ EndsWithResult)'
  BY <1>13 DEF copyAll, Ends, call, resp
<1>14. ASSUME NEW c \in Calls, copyCut(c) PROVE (TypeOK /\ EndsWithResult)'
  BY <1>14 DEF copyCut, Ends, Breach, call, resp
<1>15. CASE slotDone
  BY <1>15 DEF slotDone, call, resp
<1>16. CASE UNCHANGED vars
  BY <1>16 DEF vars, call, resp
<1> QED
  BY <1>1, <1>2, <1>3, <1>4, <1>5, <1>6, <1>7, <1>8, <1>9, <1>10, <1>11, <1>12,
     <1>13, <1>14, <1>15, <1>16 DEF Next, dispatch, writing

(* Every step keeps the active call alone with its container. *)
LEMMA ActiveStep ==
  ASSUME TypeOK, OneActive, CloseComesLast, [Next]_vars
  PROVE  (OneActive /\ CloseComesLast)'
<1> USE HotSlotAssumption DEF TypeOK, OneActive, CloseComesLast, Active
<1>1. ASSUME NEW c \in Calls, acquire(c) PROVE (OneActive /\ CloseComesLast)'
  BY <1>1 DEF acquire, Goto, call, resp
<1>2. ASSUME NEW c \in Calls, ctxEnds(c) PROVE (OneActive /\ CloseComesLast)'
  BY <1>2 DEF ctxEnds, call, resp
<1>3. ASSUME NEW c \in Calls, start(c) PROVE (OneActive /\ CloseComesLast)'
  BY <1>3 DEF start, Goto, Fail, call, resp
<1>4. ASSUME NEW c \in Calls, beforeCall(c) PROVE (OneActive /\ CloseComesLast)'
  BY <1>4 DEF beforeCall, Goto, Fail, SetError, Breach, call, resp
<1>5. ASSUME NEW c \in Calls, respond(c) PROVE (OneActive /\ CloseComesLast)'
  BY <1>5 DEF respond, Goto, Statuses, call, resp
<1>6. ASSUME NEW c \in Calls, doFails(c) PROVE (OneActive /\ CloseComesLast)'
  BY <1>6 DEF doFails, SetError, Breach, Fail, swapBack, Goto, call, resp
<1>7. ASSUME NEW c \in Calls, selectIO(c) PROVE (OneActive /\ CloseComesLast)'
  BY <1>7 DEF selectIO, Fail, swapBack, Goto, call, resp
<1>8. ASSUME NEW c \in Calls, selectCtx(c) PROVE (OneActive /\ CloseComesLast)'
  BY <1>8 DEF selectCtx, SetError, Breach, Fail, swapBack, Goto, call, resp
<1>9. ASSUME NEW c \in Calls, afterCall(c) PROVE (OneActive /\ CloseComesLast)'
  BY <1>9 DEF afterCall, Fail, SetError, Breach, Goto, call, resp
<1>10. ASSUME NEW c \in Calls, handleCallEnd(c) PROVE (OneActive /\ CloseComesLast)'
  BY <1>10 DEF handleCallEnd, SlotClose, SetError, AnswerTo, Goto, call, resp
<1>11. ASSUME NEW c \in Calls, writeResp(c) PROVE (OneActive /\ CloseComesLast)'
  BY <1>11 DEF writeResp, Ends, IOErrorOf, Statuses, call, resp
<1>12. ASSUME NEW c \in Calls, writeRespInvalid(c) PROVE (OneActive /\ CloseComesLast)'
  BY <1>12 DEF writeRespInvalid, SetError, Breach, Ends, call, resp
<1>13. ASSUME NEW c \in Calls, copyAll(c) PROVE (OneActive /\ CloseComesLast)'
  BY <1>13 DEF copyAll, Ends, call, resp
<1>14. ASSUME NEW c \in Calls, copyCut(c) PROVE (OneActive /\ CloseComesLast)'
  BY <1>14 DEF copyCut, Ends, Breach, call, resp
<1>15. CASE slotDone
  BY <1>15 DEF slotDone, call, resp
<1>16. CASE UNCHANGED vars
  BY <1>16 DEF vars, call, resp
<1> QED
  BY <1>1, <1>2, <1>3, <1>4, <1>5, <1>6, <1>7, <1>8, <1>9, <1>10, <1>11, <1>12,
     <1>13, <1>14, <1>15, <1>16 DEF Next, dispatch, writing

(* No step takes back an error of the call. *)
LEMMA ErrorStep ==
  ASSUME TypeOK, OneActive, CloseComesLast, ErrorIsKept, [Next]_vars
  PROVE  ErrorIsKept'
<1> USE HotSlotAssumption DEF TypeOK, OneActive, CloseComesLast, Active, ErrorIsKept, Hard
<1>1. ASSUME NEW c \in Calls, acquire(c) PROVE ErrorIsKept'
  BY <1>1 DEF acquire, Goto, call, resp
<1>2. ASSUME NEW c \in Calls, ctxEnds(c) PROVE ErrorIsKept'
  BY <1>2 DEF ctxEnds, call, resp
<1>3. ASSUME NEW c \in Calls, start(c) PROVE ErrorIsKept'
  BY <1>3 DEF start, Goto, Fail, call, resp
<1>4. ASSUME NEW c \in Calls, beforeCall(c) PROVE ErrorIsKept'
  BY <1>4 DEF beforeCall, Goto, Fail, SetError, Breach, call, resp
<1>5. ASSUME NEW c \in Calls, respond(c) PROVE ErrorIsKept'
  BY <1>5 DEF respond, Goto, Statuses, call, resp
<1>6. ASSUME NEW c \in Calls, doFails(c) PROVE ErrorIsKept'
  BY <1>6 DEF doFails, SetError, Breach, Fail, swapBack, Goto, call, resp
<1>7. ASSUME NEW c \in Calls, selectIO(c) PROVE ErrorIsKept'
  BY <1>7 DEF selectIO, Fail, swapBack, Goto, call, resp
<1>8. ASSUME NEW c \in Calls, selectCtx(c) PROVE ErrorIsKept'
  BY <1>8 DEF selectCtx, SetError, Breach, Fail, swapBack, Goto, call, resp
<1>9. ASSUME NEW c \in Calls, afterCall(c) PROVE ErrorIsKept'
  BY <1>9 DEF afterCall, Fail, SetError, Breach, Goto, call, resp
<1>10. ASSUME NEW c \in Calls, handleCallEnd(c) PROVE ErrorIsKept'
  BY <1>10 DEF handleCallEnd, SlotClose, SetError, AnswerTo, Goto, call, resp
<1>11. ASSUME NEW c \in Calls, writeResp(c) PROVE ErrorIsKept'
  BY <1>11 DEF writeResp, Ends, IOErrorOf, Statuses, call, resp
<1>12. ASSUME NEW c \in Calls, writeRespInvalid(c) PROVE ErrorIsKept'
  BY <1>12 DEF writeRespInvalid, SetError, Breach, Ends, call, resp
<1>13. ASSUME NEW c \in Calls, copyAll(c) PROVE ErrorIsKept'
  BY <1>13 DEF copyAll, Ends, call, resp
<1>14. ASSUME NEW c \in Calls, copyCut(c) PROVE ErrorIsKept'
  BY <1>14 DEF copyCut, Ends, Breach, call, resp
<1>15. CASE slotDone
  BY <1>15 DEF slotDone, call, resp
<1>16. CASE UNCHANGED vars
  BY <1>16 DEF vars, call, resp
<1> QED
  BY <1>1, <1>2, <1>3, <1>4, <1>5, <1>6, <1>7, <1>8, <1>9, <1>10, <1>11, <1>12,
     <1>13, <1>14, <1>15, <1>16 DEF Next, dispatch, writing

(* swap and swapBack nest. *)
LEMMA StderrStep ==
  ASSUME TypeOK, OneActive, StderrNested, [Next]_vars
  PROVE  StderrNested'
<1> USE HotSlotAssumption DEF TypeOK, OneActive, Active, StderrNested, StderrOfCall
<1>1. ASSUME NEW c \in Calls, acquire(c) PROVE StderrNested'
  BY <1>1 DEF acquire, Goto, call, resp
<1>2. ASSUME NEW c \in Calls, ctxEnds(c) PROVE StderrNested'
  BY <1>2 DEF ctxEnds, call, resp
<1>3. ASSUME NEW c \in Calls, start(c) PROVE StderrNested'
  BY <1>3 DEF start, Goto, Fail, call, resp
<1>4. ASSUME NEW c \in Calls, beforeCall(c) PROVE StderrNested'
  BY <1>4 DEF beforeCall, Goto, Fail, SetError, Breach, call, resp
<1>5. ASSUME NEW c \in Calls, respond(c) PROVE StderrNested'
  BY <1>5 DEF respond, Goto, Statuses, call, resp
<1>6. ASSUME NEW c \in Calls, doFails(c) PROVE StderrNested'
  BY <1>6 DEF doFails, SetError, Breach, Fail, swapBack, Goto, call, resp
<1>7. ASSUME NEW c \in Calls, selectIO(c) PROVE StderrNested'
  BY <1>7 DEF selectIO, Fail, swapBack, Goto, call, resp
<1>8. ASSUME NEW c \in Calls, selectCtx(c) PROVE StderrNested'
  BY <1>8 DEF selectCtx, SetError, Breach, Fail, swapBack, Goto, call, resp
<1>9. ASSUME NEW c \in Calls, afterCall(c) PROVE StderrNested'
  BY <1>9 DEF afterCall, Fail, SetError, Breach, Goto, call, resp
<1>10. ASSUME NEW c \in Calls, handleCallEnd(c) PROVE StderrNested'
  BY <1>10 DEF handleCallEnd, SlotClose, SetError, AnswerTo, Goto, call, resp
<1>11. ASSUME NEW c \in Calls, writeResp(c) PROVE StderrNested'
  BY <1>11 DEF writeResp, Ends, IOErrorOf, Statuses, call, resp
<1>12. ASSUME NEW c \in Calls, writeRespInvalid(c) PROVE StderrNested'
  BY <1>12 DEF writeRespInvalid, SetError, Breach, Ends, call, resp
<1>13. ASSUME NEW c \in Calls, copyAll(c) PROVE StderrNested'
  BY <1>13 DEF copyAll, Ends, call, resp
<1>14. ASSUME NEW c \in Calls, copyCut(c) PROVE StderrNested'
  BY <1>14 DEF copyCut, Ends, Breach, call, resp
<1>15. CASE slotDone
  BY <1>15 DEF slotDone, call, resp
<1>16. CASE UNCHANGED vars
  BY <1>16 DEF vars, call, resp
<1> QED
  BY <1>1, <1>2, <1>3, <1>4, <1>5, <1>6, <1>7, <1>8, <1>9, <1>10, <1>11, <1>12,
     <1>13, <1>14, <1>15, <1>16 DEF Next, dispatch, writing

(* No step invents a success. *)
LEMMA ResultStep ==
  ASSUME TypeOK, ResultOfWriter, [Next]_vars
  PROVE  ResultOfWriter'
<1> USE HotSlotAssumption DEF TypeOK, ResultOfWriter
<1>1. ASSUME NEW c \in Calls, acquire(c) PROVE ResultOfWriter'
  BY <1>1 DEF acquire, Goto, call, resp
<1>2. ASSUME NEW c \in Calls, ctxEnds(c) PROVE ResultOfWriter'
  BY <1>2 DEF ctxEnds, call, resp
<1>3. ASSUME NEW c \in Calls, start(c) PROVE ResultOfWriter'
  BY <1>3 DEF start, Goto, Fail, call, resp
<1>4. ASSUME NEW c \in Calls, beforeCall(c) PROVE ResultOfWriter'
  BY <1>4 DEF beforeCall, Goto, Fail, SetError, Breach, call, resp
<1>5. ASSUME NEW c \in Calls, respond(c) PROVE ResultOfWriter'
  BY <1>5 DEF respond, Goto, Statuses, call, resp
<1>6. ASSUME NEW c \in Calls, doFails(c) PROVE ResultOfWriter'
  BY <1>6 DEF doFails, SetError, Breach, Fail, swapBack, Goto, call, resp
<1>7. ASSUME NEW c \in Calls, selectIO(c) PROVE ResultOfWriter'
  BY <1>7 DEF selectIO, Fail, swapBack, Goto, call, resp
<1>8. ASSUME NEW c \in Calls, selectCtx(c) PROVE ResultOfWriter'
  BY <1>8 DEF selectCtx, SetError, Breach, Fail, swapBack, Goto, call, resp
<1>9. ASSUME NEW c \in Calls, afterCall(c) PROVE ResultOfWriter'
  BY <1>9 DEF afterCall, Fail, SetError, Breach, Goto, call, resp
<1>10. ASSUME NEW c \in Calls, handleCallEnd(c) PROVE ResultOfWriter'
  BY <1>10 DEF handleCallEnd, SlotClose, SetError, AnswerTo, Goto, call, resp
<1>11. ASSUME NEW c \in Calls, writeResp(c) PROVE ResultOfWriter'
  BY <1>11 DEF writeResp, Ends, IOErrorOf, Statuses, call, resp
<1>12. ASSUME NEW c \in Calls, writeRespInvalid(c) PROVE ResultOfWriter'
  BY <1>12 DEF writeRespInvalid, SetError, Breach, Ends, call, resp
<1>13. ASSUME NEW c \in Calls, copyAll(c) PROVE ResultOfWriter'
  BY <1>13 DEF copyAll, Ends, call, resp
<1>14. ASSUME NEW c \in Calls, copyCut(c) PROVE ResultOfWriter'
  BY <1>14 DEF copyCut, Ends, Breach, call, resp
<1>15. CASE slotDone
  BY <1>15 DEF slotDone, call, resp
<1>16. CASE UNCHANGED vars
  BY <1>16 DEF vars, call, resp
<1> QED
  BY <1>1, <1>2, <1>3, <1>4, <1>5, <1>6, <1>7, <1>8, <1>9, <1>10, <1>11, <1>12,
     <1>13, <1>14, <1>15, <1>16 DEF Next, dispatch, writing

(* Every reachable state of HotSlot is well typed. *)
THEOREM HotSlotTypeOK == Spec => []TypeOK
<1>1. Init => TypeOK /\ EndsWithResult
  BY HotSlotAssumption DEF Init, TypeOK, EndsWithResult, Errors, Clauses, Statuses
<1> QED
  BY <1>1, TypeStep, PTL DEF Spec

(* At most one call is active on the container, and Close is its last step. *)
LEMMA ActiveAlways == Spec => [](OneActive /\ CloseComesLast)
<1>1. Init => OneActive /\ CloseComesLast
  BY HotSlotAssumption DEF Init, OneActive, CloseComesLast, Active
<1> QED
  BY <1>1, ActiveStep, HotSlotTypeOK, PTL DEF Spec

(* A container that a call found unfit (BeforeCall, AfterCall, the exchange  *)
(* or the timeout in dispatch failed) never serves another call.             *)
THEOREM HotSlotStops == Spec => []FailureStopsContainer
<1>1. Init => ErrorIsKept
  BY DEF Init, ErrorIsKept
<1>2. ErrorIsKept => FailureStopsContainer
  BY DEF ErrorIsKept, FailureStopsContainer, Stops, Hard
<1> QED
  BY <1>1, <1>2, ErrorStep, HotSlotTypeOK, ActiveAlways, PTL DEF Spec

(* The container's stderr follows the call in dispatch and nobody else.      *)
THEOREM HotSlotStderr == Spec => []StderrOfCall
<1>1. Init => StderrNested
  BY HotSlotAssumption DEF Init, StderrNested, StderrOfCall
<1>2. StderrNested => StderrOfCall
  BY DEF StderrNested
<1> QED
  BY <1>1, <1>2, StderrStep, HotSlotTypeOK, ActiveAlways, PTL DEF Spec

(* A call reported successful had a 200 whose body was copied in full.       *)
THEOREM HotSlotSuccess == Spec => []SuccessIsComplete
<1>1. Init => ResultOfWriter
  BY DEF Init, ResultOfWriter
<1>2. ResultOfWriter => SuccessIsComplete
  BY DEF ResultOfWriter, SuccessIsComplete
<1> QED
  BY <1>1, <1>2, ResultStep, HotSlotTypeOK, PTL DEF Spec

-----------------------------------------------------------------------------
(* The status tracker                                                        *)

ReqPC == {"new", "check", "waiting", "fetch", "done", "error"}
RunPC == {"new", "running", "timed", "closing", "over"}

Requests == [pc : ReqPC, now : Nat, on : Runs \cup {NoRun},
             got : Runs \cup {NoRun}, cached : BOOLEAN]

(* The type invariant. *)
StatusTypeOK ==
  /\ clock \in Nat /\ expiry \in Nat
  /\ req \in [Reqs -> Requests]
  /\ run \in [Runs -> [pc : RunPC, end : Nat, out : Nat]]
  /\ cache \in Runs \cup {NoRun} /\ wait \in Runs \cup {NoRun}
  /\ closed \subseteq Runs

Published(i) == run[i].pc \in {"closing", "over"}

(* At most one run is on its way at a time, the one behind st.wait.         *)
SingleFlight == \A i \in Runs : Live(i) <=> wait = i

(* The cache holds the last result published, and the expiry is its own.    *)
CacheIsLast ==
  /\ cache = NoRun => expiry = ZeroTime
  /\ cache # NoRun => Published(cache) /\ expiry = newExpiry(cache)
  /\ \A i \in Runs : Published(i) =>
       run[i].out <= clock /\ cache # NoRun /\ run[i].out <= run[cache].out
  /\ \A i \in closed : Published(i)

(* The answer i does for a request that came at the time now.               *)
Fresh(i, now) == i # NoRun /\ Published(i) /\ (run[i].out >= now \/ newExpiry(i) > now)

(* A request waits for a run that was not out when it came, and fetches only *)
(* while the cache would do for it.                                         *)
Suits(q) ==
  /\ q.now <= clock
  /\ q.pc = "waiting" => q.on # NoRun /\ (Published(q.on) => run[q.on].out >= q.now)
  /\ q.pc = "fetch" => Fresh(cache, q.now)
  /\ q.pc = "done" => Fresh(q.got, q.now)

StatusInv ==
  StatusTypeOK /\ SingleFlight /\ CacheIsLast /\ \A r \in Reqs : Suits(req[r])

-----------------------------------------------------------------------------
LEMMA StatusInvInit == StatusInit => StatusInv
<1> SUFFICES ASSUME StatusInit PROVE StatusInv
  OBVIOUS
<1>1. StatusTypeOK
  BY DEF StatusInit, StatusTypeOK, NewReq, Requests, ReqPC, RunPC, Runs, NoRun, ZeroTime
<1>2. SingleFlight /\ CacheIsLast
  BY DEF StatusInit, SingleFlight, CacheIsLast, Live, Published, Runs, NoRun, ZeroTime
<1>3. \A r \in Reqs : Suits(req[r])
  BY DEF StatusInit, Suits, NewReq
<1> QED BY <1>1, <1>2, <1>3 DEF StatusInv

(* Nothing is published: the results and whom they suit stay. *)
LEMMA NothingPublished ==
  ASSUME StatusInv, clock' \in Nat, clock' >= clock, UNCHANGED <<cache, expiry>>,
         \A j \in Runs : Published(j)' <=> Published(j),
         \A j \in Runs : Published(j) => run'[j].out = run[j].out /\ run'[j].end = run[j].end,
         \A j \in closed' : Published(j) /\ j \in Runs
  PROVE  /\ CacheIsLast'
         /\ \A q \in Requests : Suits(q) => Suits(q)'
<1>0. clock \in Nat /\ cache \in Runs \cup {NoRun} /\ \A j \in Runs : run[j].out \in Nat
  BY DEF StatusInv, StatusTypeOK
<1>1. \A j \in Runs : Published(j) => newExpiry(j)' = newExpiry(j)
  BY DEF newExpiry
<1>2. CacheIsLast'
  <2>1. (cache = NoRun => expiry = ZeroTime)'
    BY DEF StatusInv, CacheIsLast
  <2>2. (cache # NoRun => Published(cache) /\ expiry = newExpiry(cache))'
    <3>1. CASE cache # NoRun
      <4>1. cache \in Runs /\ Published(cache) /\ expiry = newExpiry(cache)
        BY <1>0, <3>1 DEF StatusInv, CacheIsLast
      <4>2. Published(cache)' /\ newExpiry(cache)' = newExpiry(cache)
        BY <4>1 DEF Published, newExpiry
      <4> QED BY <4>1, <4>2
    <3> QED BY <3>1
  <2>3. ASSUME NEW j \in Runs, Published(j)'
        PROVE  (run[j].out <= clock /\ cache # NoRun /\ run[j].out <= run[cache].out)'
    <3>1. /\ Published(j) /\ run[j].out <= clock /\ cache # NoRun
          /\ run[j].out <= run[cache].out /\ Published(cache)
      BY <2>3 DEF StatusInv, CacheIsLast
    <3> QED BY <1>0, <3>1
  <2>4. \A j \in closed' : Published(j)'
    OBVIOUS
  <2> QED BY <2>1, <2>2, <2>3, <2>4 DEF CacheIsLast
<1>3. ASSUME NEW q \in Requests, Suits(q) PROVE Suits(q)'
  <2>1. /\ q.now \in Nat /\ q.now <= clock
        /\ q.on \in Runs \cup {NoRun} /\ q.got \in Runs \cup {NoRun}
    BY <1>3 DEF Requests, Suits
  <2>2. q.now <= clock'
    BY <1>0, <2>1
  <2>3. ASSUME q.pc = "waiting"
        PROVE  q.on # NoRun /\ (Published(q.on)' => run'[q.on].out >= q.now)
    BY <1>3, <2>1, <2>3 DEF Suits
  <2>4. ASSUME NEW j \in Runs \cup {NoRun}, Fresh(j, q.now) PROVE Fresh(j, q.now)'
    BY <1>1, <2>4 DEF Fresh
  <2>5. ASSUME q.pc = "fetch" PROVE Fresh(cache, q.now)'
    <3>1. Fresh(cache, q.now)
      BY <1>3, <2>5 DEF Suits
    <3> QED BY <1>0, <2>4, <3>1 DEF Fresh, Published, newExpiry
  <2>6. ASSUME q.pc = "done" PROVE Fresh(q.got, q.now)'
    BY <1>3, <2>1, <2>4, <2>6 DEF Suits
  <2> QED BY <2>2, <2>3, <2>5, <2>6 DEF Suits
<1> QED BY <1>2, <1>3

(* A request moves on and the runs do not. *)
LEMMA RequestMoves ==
  ASSUME StatusInv, NEW r \in Reqs, NEW g \in Requests, Suits(g),
         req' = [req EXCEPT ![r] = g], UNCHANGED <<clock, run, cache, expiry, wait, closed>>
  PROVE  StatusInv'
<1>1. StatusTypeOK'
  BY DEF StatusInv, StatusTypeOK, Requests
<1>2. SingleFlight' /\ CacheIsLast'
  BY DEF StatusInv, SingleFlight, CacheIsLast, Live, Published, newExpiry
<1>3. ASSUME NEW s \in Reqs PROVE Suits(req[s])'
  <2>1. Suits(req'[s])
    BY DEF StatusInv, StatusTypeOK
  <2> QED BY <2>1 DEF Suits, Fresh, Published, newExpiry
<1> QED BY <1>1, <1>2, <1>3 DEF StatusInv

LEMMA ArriveInv ==
  ASSUME StatusInv, NEW r \in Reqs, Arrive(r)
  PROVE  StatusInv'
<1> DEFINE g == [req[r] EXCEPT !.pc = "check", !.now = clock]
<1>0. req[r] \in Requests /\ clock \in Nat
  BY DEF StatusInv, StatusTypeOK, Requests
<1>1. g \in Requests /\ g.pc = "check" /\ g.now = clock
  BY <1>0 DEF Requests, ReqPC
<1>2. req' = [req EXCEPT ![r] = g] /\ UNCHANGED <<clock, run, cache, expiry, wait, closed>>
  BY DEF Arrive
<1>3. Suits(g)
  BY <1>0, <1>1 DEF Suits
<1> QED BY <1>1, <1>2, <1>3, RequestMoves

(* A fresh cache is used, a run on its way is joined; both suit the request. *)
LEMMA CheckInv ==
  ASSUME StatusInv, NEW r \in Reqs, checkStatusCall(r)
  PROVE  StatusInv'
<1>0. req[r] \in Requests /\ Suits(req[r]) /\ req[r].pc = "check"
  BY DEF StatusInv, StatusTypeOK, Requests, checkStatusCall
<1>1. CASE fromCache(req[r].now)
  <2> DEFINE g == [req[r] EXCEPT !.pc = "fetch"]
  <2>1. Fresh(cache, req[r].now)
    BY <1>0, <1>1 DEF StatusInv, StatusTypeOK, Requests, CacheIsLast, fromCache, Fresh, ZeroTime
  <2>2. g \in Requests /\ Suits(g)
    BY <1>0, <2>1 DEF Requests, ReqPC, Suits
  <2>3. req' = [req EXCEPT ![r] = g] /\ UNCHANGED <<clock, run, cache, expiry, wait, closed>>
    BY <1>1 DEF checkStatusCall
  <2> QED BY <2>2, <2>3, RequestMoves
<1>2. CASE ~fromCache(req[r].now) /\ alreadyRunning
  <2> DEFINE g == [req[r] EXCEPT !.pc = "waiting", !.on = wait]
  <2>1. wait \in Runs /\ wait # NoRun /\ ~Published(wait)
    BY <1>2 DEF StatusInv, StatusTypeOK, SingleFlight, Live, Published, alreadyRunning
  <2>2. g \in Requests /\ Suits(g)
    BY <1>0, <2>1 DEF Requests, ReqPC, Suits
  <2>3. req' = [req EXCEPT ![r] = g] /\ UNCHANGED <<clock, run, cache, expiry, wait, closed>>
    BY <1>2 DEF checkStatusCall
  <2> QED BY <2>2, <2>3, RequestMoves
<1>3. CASE ~fromCache(req[r].now) /\ ~alreadyRunning
  <2>1. PICK i \in Runs : /\ run[i].pc = "new" /\ wait' = i
                          /\ run' = [run EXCEPT ![i].pc = "running"]
                          /\ req' = [req EXCEPT ![r].pc = "waiting", ![r].on = i]
    BY <1>3 DEF checkStatusCall, NextRun
  <2>2. UNCHANGED <<clock, cache, expiry, closed>> /\ wait = NoRun
    BY <1>3 DEF checkStatusCall, alreadyRunning
  <2> DEFINE g == [req[r] EXCEPT !.pc = "waiting", !.on = i]
  <2>3. req' = [req EXCEPT ![r] = g] /\ g \in Requests
    BY <1>0, <2>1 DEF Requests, ReqPC
  <2>4. StatusTypeOK'
    BY <2>1, <2>2, <2>3 DEF StatusInv, StatusTypeOK, Requests, RunPC
  <2>5. /\ \A j \in Runs : j # i => run'[j] = run[j]
        /\ run'[i].pc = "running" /\ ~Published(i) /\ ~Published(i)' /\ i # NoRun
    BY <2>1 DEF StatusInv, StatusTypeOK, Published, Runs, NoRun
  <2>6. SingleFlight'
    BY <2>1, <2>2, <2>5 DEF StatusInv, SingleFlight, Live, Runs, NoRun
  <2>7. CacheIsLast' /\ \A q \in Requests : Suits(q) => Suits(q)'
    <3>1. \A j \in Runs : Published(j)' <=> Published(j)
      BY <2>5 DEF Published
    <3>2. \A j \in Runs : Published(j) => run'[j].out = run[j].out /\ run'[j].end = run[j].end
      BY <2>5
    <3>3. \A j \in closed' : Published(j) /\ j \in Runs
      BY <2>2 DEF StatusInv, StatusTypeOK, CacheIsLast
    <3>4. clock' \in Nat /\ clock' >= clock
      BY <2>2 DEF StatusInv, StatusTypeOK
    <3> QED BY <2>2, <3>1, <3>2, <3>3, <3>4, NothingPublished
  <2>8. ASSUME NEW s \in Reqs PROVE Suits(req[s])'
    <3>1. CASE s = r
      BY <1>0, <2>2, <2>3, <2>5, <3>1 DEF StatusInv, StatusTypeOK, Suits, Requests
    <3>2. CASE s # r
      <4>1. req'[s] = req[s] /\ Suits(req[s]) /\ req[s] \in Requests
        BY <2>3, <3>2 DEF StatusInv, StatusTypeOK, Requests
      <4> QED BY <2>7, <4>1 DEF Suits, Fresh, Published, newExpiry
    <3> QED BY <3>1, <3>2
  <2> QED BY <2>4, <2>6, <2>7, <2>8 DEF StatusInv
<1> QED BY <1>1, <1>2, <1>3

(* The woken request finds its own run in the cache, or a later one. *)
LEMMA WokenInv ==
  ASSUME StatusInv, NEW r \in Reqs, Woken(r)
  PROVE  StatusInv'
<1> DEFINE g == [req[r] EXCEPT !.pc = "fetch"]
<1>0. req[r] \in Requests /\ Suits(req[r]) /\ req[r].pc = "waiting" /\ req[r].on \in closed
  BY DEF StatusInv, StatusTypeOK, Requests, Woken
<1>1. Published(req[r].on) /\ run[req[r].on].out >= req[r].now /\ req[r].on \in Runs
  BY <1>0 DEF StatusInv, StatusTypeOK, CacheIsLast, Suits
<1>2. cache \in Runs /\ cache # NoRun /\ Published(cache) /\ run[req[r].on].out <= run[cache].out
  BY <1>1 DEF StatusInv, StatusTypeOK, CacheIsLast
<1>3. Fresh(cache, req[r].now)
  BY <1>0, <1>1, <1>2 DEF StatusInv, StatusTypeOK, Requests, Fresh
<1>4. g \in Requests /\ Suits(g)
  BY <1>0, <1>3 DEF Requests, ReqPC, Suits
<1>5. req' = [req EXCEPT ![r] = g] /\ UNCHANGED <<clock, run, cache, expiry, wait, closed>>
  BY DEF Woken
<1> QED BY <1>4, <1>5, RequestMoves

LEMMA FetchInv ==
  ASSUME StatusInv, NEW r \in Reqs, fetchStatusCall(r) \/ GiveUp(r)
  PROVE  StatusInv'
<1>0. req[r] \in Requests /\ Suits(req[r])
  BY DEF StatusInv, StatusTypeOK, Requests
<1>1. CASE fetchStatusCall(r)
  <2>1. PICK to \in {"done", "error"} :
          req' = [req EXCEPT ![r].pc = to, ![r].got = cache, ![r].cached = cache \in isCached]
    BY <1>1 DEF fetchStatusCall
  <2> DEFINE g == [req[r] EXCEPT !.pc = to, !.got = cache, !.cached = cache \in isCached]
  <2>2. g \in Requests
    <3>1. (cache \in isCached) \in BOOLEAN /\ cache \in Runs \cup {NoRun} /\ to \in ReqPC
      BY DEF StatusInv, StatusTypeOK, ReqPC
    <3> QED BY <1>0, <3>1 DEF Requests
  <2>3. g.pc = to /\ g.got = cache /\ g.now = req[r].now /\ req[r].pc = "fetch"
    BY <1>0, <1>1 DEF fetchStatusCall, Requests
  <2>5. Suits(g)
    BY <1>0, <2>3 DEF Suits
  <2>4. req' = [req EXCEPT ![r] = g] /\ UNCHANGED <<clock, run, cache, expiry, wait, closed>>
    BY <1>1, <2>1 DEF fetchStatusCall
  <2> QED BY <2>2, <2>4, <2>5, RequestMoves
<1>2. CASE GiveUp(r)
  <2> DEFINE g == [req[r] EXCEPT !.pc = "error"]
  <2>1. g \in Requests /\ Suits(g)
    BY <1>0 DEF Requests, ReqPC, Suits
  <2>2. req' = [req EXCEPT ![r] = g] /\ UNCHANGED <<clock, run, cache, expiry, wait, closed>>
    BY <1>2 DEF GiveUp
  <2> QED BY <2>1, <2>2, RequestMoves
<1> QED BY <1>1, <1>2

LEMMA TickInv ==
  ASSUME StatusInv, Tick
  PROVE  StatusInv'
<1>1. /\ clock \in Nat /\ clock' = clock + 1
      /\ UNCHANGED <<req, run, cache, expiry, wait, closed>>
  BY DEF Tick, StatusInv, StatusTypeOK
<1>2. StatusTypeOK' /\ SingleFlight'
  BY <1>1 DEF StatusInv, StatusTypeOK, SingleFlight, Live
<1>3. CacheIsLast'
  BY <1>1 DEF StatusInv, StatusTypeOK, CacheIsLast, Published, newExpiry
<1>4. ASSUME NEW s \in Reqs PROVE Suits(req[s])'
  <2>1. Suits(req[s]) /\ req[s] \in Requests
    BY DEF StatusInv, StatusTypeOK, Requests
  <2> QED BY <1>1, <2>1 DEF Suits, Fresh, Published, newExpiry, Requests
<1> QED BY <1>2, <1>3, <1>4 DEF StatusInv

(* The run ends, or its channel is closed: nothing published changes. *)
LEMMA RunMovesInv ==
  ASSUME StatusInv, NEW i \in Runs, runStatusCall(i) \/ closeWait(i)
  PROVE  StatusInv'
<1>0. run[i] \in [pc : RunPC, end : Nat, out : Nat] /\ clock \in Nat
  BY DEF StatusInv, StatusTypeOK
<1>1. /\ \A j \in Runs : j # i => run'[j] = run[j]
      /\ run'[i].out = run[i].out
      /\ Live(i)' <=> Live(i)
      /\ Published(i)' <=> Published(i)
      /\ Published(i) => run'[i].end = run[i].end
      /\ run'[i] \in [pc : RunPC, end : Nat, out : Nat]
      /\ run' = [run EXCEPT ![i] = run'[i]]
  <2>1. CASE runStatusCall(i)
    BY <1>0, <2>1 DEF runStatusCall, StatusInv, StatusTypeOK, Live, Published, RunPC
  <2>2. CASE closeWait(i)
    BY <1>0, <2>2 DEF closeWait, StatusInv, StatusTypeOK, Live, Published, RunPC
  <2> QED BY <2>1, <2>2
<1>2. UNCHANGED <<clock, req, cache, expiry, wait>>
  BY DEF runStatusCall, closeWait
<1>3. closed' = closed \/ (closed' = closed \cup {i} /\ Published(i))
  BY DEF runStatusCall, closeWait, waitChan, Published
<1>4. StatusTypeOK'
  BY <1>1, <1>2, <1>3 DEF StatusInv, StatusTypeOK
<1>5. SingleFlight'
  BY <1>1, <1>2 DEF StatusInv, SingleFlight, Live
<1>6. \A j \in Runs : Published(j)' <=> Published(j)
  BY <1>1 DEF Published
<1>7. CacheIsLast' /\ \A q \in Requests : Suits(q) => Suits(q)'
  <2>1. \A j \in Runs : Published(j) => run'[j].out = run[j].out /\ run'[j].end = run[j].end
    BY <1>1
  <2>2. \A j \in closed' : Published(j) /\ j \in Runs
    BY <1>3 DEF StatusInv, StatusTypeOK, CacheIsLast
  <2>3. clock' \in Nat /\ clock' >= clock
    BY <1>0, <1>2
  <2> QED BY <1>2, <1>6, <2>1, <2>2, <2>3, NothingPublished
<1>8. ASSUME NEW s \in Reqs PROVE Suits(req[s])'
  <2>1. req'[s] = req[s] /\ Suits(req[s]) /\ req[s] \in Requests
    BY <1>2 DEF StatusInv, StatusTypeOK, Requests
  <2> QED BY <1>7, <2>1 DEF Suits, Fresh, Published, newExpiry
<1> QED BY <1>4, <1>5, <1>7, <1>8 DEF StatusInv

(* The result is published: it is the last one, and later than every        *)
(* request that has come so far.                                            *)
LEMMA PublishInv ==
  ASSUME StatusInv, NEW i \in Runs, publish(i)
  PROVE  StatusInv'
<1>0. /\ run[i] \in [pc : RunPC, end : Nat, out : Nat] /\ clock \in Nat /\ i # NoRun
      /\ run[i].pc = "timed" /\ wait = i
  BY DEF StatusInv, StatusTypeOK, SingleFlight, Live, publish, Runs, NoRun
<1>1. /\ \A j \in Runs : j # i => run'[j] = run[j]
      /\ run'[i] = [run[i] EXCEPT !.pc = "closing", !.out = clock]
      /\ run' = [run EXCEPT ![i] = run'[i]]
      /\ cache' = i /\ expiry' = newExpiry(i) /\ wait' = NoRun
      /\ UNCHANGED <<clock, req, closed>>
  BY DEF publish, StatusInv, StatusTypeOK
<1>2. /\ run'[i] \in [pc : RunPC, end : Nat, out : Nat]
      /\ run'[i].pc = "closing" /\ run'[i].out = clock /\ run'[i].end = run[i].end
  BY <1>0, <1>1 DEF RunPC
<1>3. StatusTypeOK'
  <2>1. run' \in [Runs -> [pc : RunPC, end : Nat, out : Nat]]
    BY <1>1, <1>2 DEF StatusInv, StatusTypeOK
  <2>2. newExpiry(i) \in Nat
    BY <1>0, StatusAssumption DEF newExpiry
  <2> QED BY <1>1, <2>1, <2>2 DEF StatusInv, StatusTypeOK
<1>4. SingleFlight'
  <2>1. ~Live(i)'
    BY <1>2 DEF Live
  <2>2. ASSUME NEW j \in Runs, j # i PROVE ~Live(j)'
    <3>1. run'[j] = run[j] /\ ~Live(j)
      BY <1>0, <1>1, <2>2 DEF StatusInv, SingleFlight
    <3> QED BY <3>1 DEF Live
  <2> QED BY <1>1, <2>1, <2>2 DEF SingleFlight, Runs, NoRun
<1>5. /\ Published(i)' /\ ~Published(i)
      /\ \A j \in Runs : j # i => (Published(j)' <=> Published(j)) /\ newExpiry(j)' = newExpiry(j)
  BY <1>0, <1>1, <1>2 DEF Published, newExpiry
<1>6. CacheIsLast'
  <2> USE DEF StatusInv, StatusTypeOK, CacheIsLast
  <2>1. (cache = NoRun => expiry = ZeroTime)'
    BY <1>0, <1>1
  <2>2. (cache # NoRun => Published(cache) /\ expiry = newExpiry(cache))'
    BY <1>1, <1>2, <1>5 DEF newExpiry
  <2>3. ASSUME NEW j \in Runs, Published(j)'
        PROVE  (run[j].out <= clock /\ cache # NoRun /\ run[j].out <= run[cache].out)'
    <3>1. clock' = clock /\ cache' = i /\ run'[i].out = clock /\ clock \in Nat /\ i # NoRun
      BY <1>0, <1>1, <1>2
    <3>2. CASE j = i
      BY <3>1, <3>2
    <3>3. CASE j # i
      <4>1. run'[j] = run[j] /\ run[j].out <= clock
        BY <1>1, <1>5, <2>3, <3>3
      <4> QED BY <3>1, <4>1
    <3> QED BY <3>2, <3>3
  <2>4. \A j \in closed' : Published(j)'
    BY <1>1, <1>5
  <2> QED BY <2>1, <2>2, <2>3, <2>4
<1>7. ASSUME NEW s \in Reqs PROVE Suits(req[s])'
  <2>1. Suits(req[s]) /\ req[s] \in Requests /\ req[s].now <= clock
    BY DEF StatusInv, StatusTypeOK, Requests, Suits
  <2>2. Fresh(i, req[s].now)'
    BY <1>0, <1>1, <1>2, <1>5, <2>1 DEF Fresh, Requests
  <2>3. \A j \in Runs, n \in Nat : j # i /\ Fresh(j, n) => Fresh(j, n)'
    BY <1>1, <1>5 DEF Fresh
  <2>4. \A n \in Nat : ~Fresh(i, n)
    BY <1>5 DEF Fresh
  <2>5. Suits(req[s])' <=>
          /\ req[s].now <= clock
          /\ req[s].pc = "waiting" =>
               req[s].on # NoRun /\ (Published(req[s].on)' => run'[req[s].on].out >= req[s].now)
          /\ req[s].pc = "fetch" => Fresh(i, req[s].now)'
          /\ req[s].pc = "done" => Fresh(req[s].got, req[s].now)'
    BY <1>1 DEF Suits, Fresh, Published, newExpiry
  <2>6. ASSUME req[s].pc = "waiting"
        PROVE  req[s].on # NoRun /\ (Published(req[s].on)' => run'[req[s].on].out >= req[s].now)
    <3>1. CASE req[s].on = i
      BY <1>0, <1>2, <2>1, <3>1 DEF Requests
    <3>2. CASE req[s].on # i
      BY <1>1, <1>5, <2>1, <2>6, <3>2 DEF Suits, Requests
    <3> QED BY <3>1, <3>2
  <2>7. ASSUME req[s].pc = "done" PROVE Fresh(req[s].got, req[s].now)'
    <3>1. PICK q : q = req[s]
      OBVIOUS
    <3>2. q \in Requests /\ Fresh(q.got, q.now)
      BY <2>1, <2>7, <3>1 DEF Suits
    <3>3. q.got \in Runs /\ q.got # i /\ q.now \in Nat
      BY <2>4, <3>2 DEF Requests, Fresh
    <3>4. Fresh(q.got, q.now)'
      BY <2>3, <3>2, <3>3
    <3>5. req'[s] = q
      BY <1>1, <3>1
    <3> QED BY <3>4, <3>5 DEF Fresh, Published, newExpiry
  <2> QED BY <2>1, <2>2, <2>5, <2>6, <2>7
<1> QED BY <1>3, <1>4, <1>6, <1>7 DEF StatusInv

LEMMA StatusInvNext == StatusInv /\ [StatusNext]_statusVars => StatusInv'
<1> SUFFICES ASSUME StatusInv, [StatusNext]_statusVars PROVE StatusInv'
  OBVIOUS
<1>1. CASE UNCHANGED statusVars
  BY <1>1 DEF statusVars, StatusInv, StatusTypeOK, SingleFlight, CacheIsLast, Live, Published,
              newExpiry, Suits, Fresh
<1> QED BY <1>1, TickInv, ArriveInv, CheckInv, WokenInv, FetchInv, RunMovesInv, PublishInv
        DEF StatusNext, ReqStep, RunStep

LEMMA StatusInvAlways == StatusSpec => []StatusInv
BY StatusInvInit, StatusInvNext, PTL DEF StatusSpec

(* One status call runs at a time, however many requests find the cache     *)
(* stale at once and however late they take the lock.                       *)
THEOREM StatusSingleFlight == StatusSpec => [](StatusTypeOK /\ SingleFlight)
<1>1. StatusInv => StatusTypeOK /\ SingleFlight
  BY DEF StatusInv
<1> QED BY <1>1, StatusInvAlways, PTL

(* No request is answered with a stale status: what fetchStatusCall finds   *)
(* in the cache was published after the request came, or had not expired.   *)
THEOREM StatusIsFresh == StatusSpec => []FreshAnswer
<1>1. StatusInv => FreshAnswer
  BY DEF StatusInv, StatusTypeOK, FreshAnswer, Suits, Fresh, newExpiry
<1> QED BY <1>1, StatusInvAlways, PTL
=============================================================================
