------------------------------ MODULE FnInvoke ------------------------------
(***************************************************************************)
(* How the server runs one function for one client                         *)
(* (api/server/runner_fninvoke.go, runner_httptrigger.go): the function is *)
(* looked up, a buffer is taken from bufPool, the agent gets a writer on   *)
(* it, Submit runs the call, the buffer is copied to the client.           *)
(*                                                                         *)
(* A call goes by one of five ways, which differ in what becomes of the    *)
(* buffer: "invoke" (fnInvoke, from the invoke endpoint and from HTTP      *)
(* triggers) puts it back when Submit succeeded; "detached" (fnInvoke too) *)
(* never writes to it nor puts it back; "spike" (fnSpike, the load tests)  *)
(* never puts it back; "panics" (fnSpike of a request that says detached,   *)
(* at a load balancer) has not the writer that Submit takes it to have;     *)
(* "task" (fnInvokeFunctionWithResult, the steps of a state machine and the *)
(* benchmark) puts it back whatever happens.                                *)
(*                                                                         *)
(* The agent is known by what Submit returns and by who writes when: a     *)
(* call that times out may leave a goroutine behind that still copies the  *)
(* container's output (module HotSlot).                                    *)
(***************************************************************************)
EXTENDS Integers, Sequences, FiniteSets

CONSTANTS
  Calls,   \* the calls that may be made
  Bufs     \* the buffers there may be

ASSUME FnInvokeAssumption == IsFiniteSet(Calls) /\ IsFiniteSet(Bufs)

VARIABLES
  call,     \* [Calls -> the goroutine of the call]
  content,  \* [Bufs -> the calls whose output it holds]
  pool,     \* bufPool
  writing   \* the goroutines ended calls left behind: [call, buf]

invokeVars == <<call, content, pool, writing>>

NoBuf == "none"
\* got: whose output the client was sent; late: a task of this goroutine left
\* a writer behind, ever.
NoCall == [pc |-> "idle", way |-> "none", buf |-> NoBuf, got |-> {}, late |-> FALSE]

InvokeInit ==
  /\ call = [c \in Calls |-> NoCall]
  /\ content = [b \in Bufs |-> {}]
  /\ pool = {}
  /\ writing = {}

Ended(c) == call[c].pc \in {"ok", "failed"}
Active(c) == call[c].pc \in {"submit", "copy"}

\* The goroutines cs make a call each.
Start(cs, way) ==
  call' = [c \in Calls |-> IF c \in cs THEN [NoCall EXCEPT !.pc = "lookup", !.way = way, !.late = call[c].late]
                           ELSE call[c]]

-----------------------------------------------------------------------------
(* App, trigger and function are read from the read access; each read may   *)
(* fail and ends the call before it has a buffer.                           *)
LookupFails(c) ==
  /\ call[c].pc = "lookup"
  /\ call' = [call EXCEPT ![c].pc = "failed"]
  /\ UNCHANGED <<content, pool, writing>>

(* bufPool.Get: a buffer put back before, or a new one, here any that no    *)
(* one holds any more.                                                      *)
Unheld == {b \in Bufs \ pool : /\ \A c \in Calls : Active(c) => call[c].buf # b
                              /\ \A w \in writing : w.buf # b}
Get == pool \cup (IF Unheld = {} THEN {} ELSE {CHOOSE b \in Unheld : TRUE})

(* The reads succeed; buf.Reset(), a writer over the buffer; agent.GetCall  *)
(* may refuse.                                                              *)
GetCall(c) ==
  /\ call[c].pc = "lookup"
  /\ \E b \in Get :
       /\ content' = [content EXCEPT ![b] = {}]
       /\ \/ /\ call' = [call EXCEPT ![c].pc = "submit", ![c].buf = b]
             /\ pool' = pool \ {b}
          \/ /\ call' = [call EXCEPT ![c].pc = "failed"]
             /\ pool' = IF call[c].way = "task" THEN pool \cup {b} ELSE pool \ {b}
  /\ UNCHANGED writing

(* The call ran: its output is in the buffer, if it has not a                *)
(* DetachedResponseWriter, which discards it.                               *)
SubmitOK(c) ==
  /\ call[c].pc = "submit" /\ call[c].way # "panics"
  /\ content' = IF call[c].way = "detached" THEN content
                ELSE [content EXCEPT ![call[c].buf] = @ \cup {c}]
  /\ call' = [call EXCEPT ![c].pc = "copy"]
  /\ UNCHANGED <<pool, writing>>

\* The goroutine an ended call left behind goes on copying, and ends.
LateWrite(w) ==
  /\ content' = [content EXCEPT ![w.buf] = @ \cup {w.call}]
  /\ UNCHANGED <<call, pool, writing>>

LateWriterEnds(w) ==
  /\ writing' = writing \ {w}
  /\ UNCHANGED <<call, content, pool>>

\* Mutant: fnInvoke puts the buffer back when Submit failed, too.
keptOnErrorNever(c) == FALSE
\* fnInvokeFunctionWithResult defers the Put, the other ways return without it.
keptOnError(c) == call[c].way # "task"

submitError(c, late) ==
  /\ call[c].pc = "submit"
  /\ call' = [call EXCEPT ![c].pc = "failed", ![c].buf = NoBuf,
                         ![c].late = @ \/ (late /\ call[c].way = "task")]
  /\ pool' = IF keptOnError(c) THEN pool ELSE pool \cup {call[c].buf}

SubmitFails(c) == submitError(c, FALSE) /\ UNCHANGED <<content, writing>>

\* placeDetachCall asserts that the writer is a DetachedResponseWriter, in a
\* goroutine nobody recovers.
SubmitPanics(c) ==
  /\ call[c].pc = "submit" /\ call[c].way = "panics"
  /\ call' = [call EXCEPT ![c].pc = "panicked"]
  /\ UNCHANGED <<content, pool, writing>>

\* The deadline fires while the container's output is being copied.
SubmitTimesOut(c) ==
  /\ submitError(c, TRUE)
  /\ call[c].way \notin {"detached", "panics"}
  /\ writing' = writing \cup {[call |-> c, buf |-> call[c].buf]}
  /\ UNCHANGED content

\* io.Copy, or buf.String() of a task; a load test throws the output away.
\* What is left in the buffer is read by no one before its Reset.
Reply(c) ==
  /\ call[c].pc = "copy"
  /\ LET read == call[c].way \in {"invoke", "task"}
         b == call[c].buf
     IN  /\ call' = [call EXCEPT ![c].pc = "ok", ![c].buf = NoBuf,
                                ![c].got = IF read THEN content[b] ELSE {}]
         /\ pool' = IF read THEN pool \cup {b} ELSE pool
         /\ content' = [content EXCEPT ![b] = {}]
  /\ UNCHANGED writing

CallStep(c) ==
  \/ LookupFails(c) \/ GetCall(c) \/ SubmitOK(c) \/ SubmitFails(c) \/ SubmitPanics(c) \/ Reply(c)

CallNext(mayBeLate) ==
  \/ \E c \in Calls : CallStep(c) \/ (mayBeLate /\ SubmitTimesOut(c))
  \/ \E w \in writing : LateWrite(w) \/ LateWriterEnds(w)

-----------------------------------------------------------------------------
(* No task left a writer on a buffer that it put back.                      *)
NoLateTask == \A c \in Calls : ~call[c].late

(* A client is sent the output of its own call and nothing else, whatever   *)
(* calls ran before on the pooled buffer and however late their containers  *)
(* wrote.  fnInvoke keeps a buffer out of the pool unless Submit succeeded; *)
(* fnInvokeFunctionWithResult does not, so a task that timed out may spoil  *)
(* the answers after it.                                                    *)
OwnOutput ==
  NoLateTask => \A c \in Calls : call[c].pc = "ok" /\ call[c].way \in {"invoke", "task"}
                                => call[c].got = {c}
=============================================================================
