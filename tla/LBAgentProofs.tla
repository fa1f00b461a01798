---------------------------- MODULE LBAgentProofs ----------------------------
(***************************************************************************)
(* Proofs about WaitGroup, for every finite set of workers, every set of   *)
(* closers and every counter width, and about LBAgent, for every set of    *)
(* calls, every list of runners and every pool of buffers.  The front gate *)
(* takes only steps of WaitGroup, so that what is shown of it holds in the *)
(* agent, whose own invariant rests on it: a call is inside the gate       *)
(* exactly between AddSession and DoneSession.                             *)
(***************************************************************************)
EXTENDS LBAgent, FiniteSetTheorems, TLAPS

-----------------------------------------------------------------------------
(* The session barrier: nothing here mentions the agent.                   *)

(* The strengthening: whoever has begun to close has closed the group, so   *)
(* the counter can only fall while a closer waits or after it has returned. *)
ClosersClosed == \A c \in Closers : closer[c] # "idle" => isClosed

IInv == TypeOK /\ SessionsCounted /\ ClosersClosed
               /\ DrainedOnReturn /\ NoLostWakeup

(* Open is a finite set, so its cardinality is a natural number that is 0   *)
(* exactly when no session is open.                                         *)
LEMMA OpenFinite == IsFiniteSet(Open) /\ Cardinality(Open) \in Nat
                    /\ (Cardinality(Open) = 0 <=> Open = {})
<1>1. IsFiniteSet(Open)
  BY WaitGroupAssumption, FS_Subset DEF Open
<1> QED BY <1>1, FS_CardinalityType, FS_EmptySet

(* Granting a session adds one element to Open. *)
LEMMA OpenAdd ==
  ASSUME NEW w \in Workers, TypeOK, worker[w] # "in",
         worker' = [worker EXCEPT ![w] = "in"]
  PROVE  Cardinality(Open)' = Cardinality(Open) + 1
<1>1. Open' = Open \cup {w} /\ w \notin Open
  BY DEF Open, TypeOK
<1> QED BY <1>1, OpenFinite, FS_AddElement

(* Ending a session removes one element from Open. *)
LEMMA OpenRemove ==
  ASSUME NEW w \in Workers, TypeOK, worker[w] = "in",
         worker' = [worker EXCEPT ![w] = "out"]
  PROVE  /\ Cardinality(Open)' = Cardinality(Open) - 1
         /\ Cardinality(Open) # 0
<1>1. Open' = Open \ {w} /\ w \in Open
  BY DEF Open, TypeOK
<1> QED BY <1>1, OpenFinite, FS_RemoveElement

(* IInv is inductive. *)
LEMMA IInvInit == Init => IInv
<1> SUFFICES ASSUME Init PROVE IInv
  OBVIOUS
<1>1. Open = {}
  BY DEF Init, Open
<1>2. Cardinality(Open) = 0
  BY <1>1, OpenFinite
<1>3. TypeOK
  BY DEF Init, TypeOK, WorkerState, CloserState
<1>4. ~panicked
  BY DEF Init
<1>5. sessions = Cardinality(Open) /\ sessions < MaxUint64
  BY <1>2, WaitGroupAssumption DEF Init
<1>6. ClosersClosed /\ DrainedOnReturn /\ NoLostWakeup
  BY <1>1 DEF Init, ClosersClosed, DrainedOnReturn, NoLostWakeup
<1> QED BY <1>3, <1>4, <1>5, <1>6 DEF IInv, SessionsCounted

LEMMA IInvNext == IInv /\ [Next]_vars => IInv'
<1> SUFFICES ASSUME IInv, [Next]_vars PROVE IInv'
  OBVIOUS
<1> USE DEF IInv
<1>1. ASSUME NEW w \in Workers, AddSession(w) PROVE IInv'
  <2>1. CASE CanAdd
    <3>1. /\ worker[w] # "in" /\ worker' = [worker EXCEPT ![w] = "in"]
          /\ sessions' = sessions + 1 /\ ~isClosed /\ sessions # MaxUint64 - 1
          /\ UNCHANGED <<isClosed, condWait, panicked, closer>>
      BY <1>1, <2>1 DEF AddSession, CanAdd
    <3>2. TypeOK'
      BY <3>1 DEF TypeOK, WorkerState
    <3>3. SessionsCounted'
      <4>1. Cardinality(Open)' = Cardinality(Open) + 1
        BY <3>1, OpenAdd
      <4>2. sessions' < MaxUint64
        BY <3>1, WaitGroupAssumption DEF SessionsCounted, TypeOK
      <4>3. ~panicked'
        BY <3>1 DEF SessionsCounted
      <4>4. sessions' = Cardinality(Open')
        BY <3>1, <4>1 DEF SessionsCounted
      <4> QED BY <4>2, <4>3, <4>4 DEF SessionsCounted
    <3>4. ClosersClosed' /\ DrainedOnReturn'
      BY <3>1 DEF ClosersClosed, DrainedOnReturn
    <3>5. NoLostWakeup'
      BY <3>1 DEF NoLostWakeup, Open, TypeOK
    <3> QED BY <3>2, <3>3, <3>4, <3>5
  <2>2. CASE ~CanAdd
    BY <1>1, <2>2 DEF AddSession, TypeOK, SessionsCounted, ClosersClosed,
                      DrainedOnReturn, NoLostWakeup, Open
  <2> QED BY <2>1, <2>2
<1>2. ASSUME NEW w \in Workers, DoneSession(w) PROVE IInv'
  <2>1. /\ Cardinality(Open)' = Cardinality(Open) - 1
        /\ Cardinality(Open) # 0
    BY <1>2, OpenRemove DEF DoneSession
  <2>2. /\ sessions' = sessions - 1
        /\ condWait' = (IF sessions = 1 THEN {} ELSE condWait)
        /\ UNCHANGED <<isClosed, closer, panicked>>
        /\ worker' = [worker EXCEPT ![w] = "out"]
        /\ sessions # 0
    BY <1>2, <2>1 DEF DoneSession, SessionsCounted
  <2>3. TypeOK'
    BY <2>2 DEF TypeOK, WorkerState
  <2>4. SessionsCounted'
    BY <2>1, <2>2, WaitGroupAssumption DEF SessionsCounted, TypeOK
  <2>5. ClosersClosed'
    BY <2>2 DEF ClosersClosed
  <2>6. DrainedOnReturn'
    BY <2>2 DEF DrainedOnReturn, Open, TypeOK
  <2>7. NoLostWakeup'
    <3>1. ASSUME condWait' # {} PROVE Open' # {}
      <4>1. Cardinality(Open)' # 0
        BY <2>1, <2>2, <3>1 DEF SessionsCounted, TypeOK
      <4>2. Cardinality({}) = 0
        BY FS_EmptySet
      <4> QED BY <4>1, <4>2
    <3> QED BY <3>1 DEF NoLostWakeup
  <2> QED BY <2>3, <2>4, <2>5, <2>6, <2>7
<1>3. ASSUME NEW c \in Closers, CloseGroup(c) \/ CloseGroupWoken(c)
      PROVE  IInv'
  <2>1. isClosed' = TRUE /\ AwaitDrain(c) /\ UNCHANGED <<sessions, panicked, worker>>
    BY <1>3 DEF CloseGroup, CloseGroupWoken, ClosersClosed, TypeOK
  <2>2. Open' = Open /\ (sessions = 0 <=> Open = {})
    BY <2>1, OpenFinite DEF Open, SessionsCounted
  <2>3. TypeOK'
    BY <2>1 DEF TypeOK, AwaitDrain, CloserState
  <2>4. SessionsCounted'
    BY <2>1, <2>2 DEF SessionsCounted
  <2>5. ClosersClosed'
    BY <2>1 DEF ClosersClosed
  <2>6. DrainedOnReturn' /\ NoLostWakeup'
    BY <2>1, <2>2 DEF DrainedOnReturn, NoLostWakeup, AwaitDrain, TypeOK
  <2> QED BY <2>3, <2>4, <2>5, <2>6
<1>4. ASSUME NEW c \in Closers, CloseGroupNB(c) PROVE IInv'
  BY <1>4 DEF CloseGroupNB, TypeOK, SessionsCounted, ClosersClosed,
              DrainedOnReturn, NoLostWakeup, Open, CloserState
<1>5. CASE UNCHANGED vars
  BY <1>5 DEF vars, TypeOK, SessionsCounted, ClosersClosed, DrainedOnReturn,
              NoLostWakeup, Open
<1> QED BY <1>1, <1>2, <1>3, <1>4, <1>5 DEF Next

LEMMA IInvAlways == Spec => []IInv
BY IInvInit, IInvNext, PTL DEF Spec

(* The counter of common.WaitGroup is the number of open sessions and       *)
(* DoneSession never panics, however many workers and closers there are.    *)
THEOREM WaitGroupCounts == Spec => [](TypeOK /\ SessionsCounted)
<1>1. IInv => TypeOK /\ SessionsCounted
  BY DEF IInv
<1> QED BY <1>1, IInvAlways, PTL

(* A CloseGroup that has returned leaves no session open.                   *)
THEOREM WaitGroupDrains == Spec => []DrainedOnReturn
<1>1. IInv => DrainedOnReturn
  BY DEF IInv
<1> QED BY <1>1, IInvAlways, PTL

(* No closer is left asleep in cond.Wait() after the last session ended.    *)
THEOREM WaitGroupWakes == Spec => []NoLostWakeup
<1>1. IInv => NoLostWakeup
  BY DEF IInv
<1> QED BY <1>1, IInvAlways, PTL
-----------------------------------------------------------------------------
(* The agent.                                                              *)

Pcs == {"new", "body", "loop", "trying", "ret", "end"}
Within == {"body", "loop", "trying", "ret"}
Forwarding == {"loop", "trying"}

FieldNames == {"pc", "ctx", "placerOver", "buf", "list", "perr", "i", "j",
               "committed", "started", "ended", "ret"}

IsRecord(h) == h = [f \in FieldNames |-> h[f]]

(* A call with record h, reading goroutine rd and session w. *)
Staged(h, rd, w) ==
  /\ IsRecord(h) /\ h.pc \in Pcs
  /\ w = "in" <=> h.pc \in Within
  /\ h.pc = "new" => rd = "idle" /\ h.buf = None
  /\ h.pc \in {"body", "ret"} => rd \in {"reading", "done", "failed"}
  /\ h.pc \in Forwarding => rd = "done"
  /\ h.pc = "end" => rd # "reading"
  /\ rd = "reading" => h.buf # None

(* Start is once, before the call is placed; AfterCall once, after it. *)
Accounted(h) ==
  /\ h.started \in BOOLEAN /\ h.ctx \in CtxState
  /\ h.pc \in {"new", "body"} => ~h.started /\ h.ended = 0
  /\ h.pc \in Forwarding => h.started
  /\ h.pc \in {"ret", "end"} => h.ended = IF h.started THEN 1 ELSE 0

(* Nothing is committed, or answered, before Submit is about to return. *)
Answered(h) ==
  /\ h.committed \in BOOLEAN
  /\ h.pc \notin {"ret", "end"} => ~h.committed /\ h.ret = None
  /\ h.ret = "busy" => ~h.committed

(* A call inside the gate has a buffer that was allocated, or needs none. *)
Holds(h) ==
  h.pc \in Within /\ h.buf # None => h.buf \in Bufs /\ content[h.buf] # "unallocated"

CallInv(c) ==
  /\ Staged(call[c], reader[c], worker[c])
  /\ Accounted(call[c]) /\ Answered(call[c]) /\ Holds(call[c])

(* The gauges count what they are meant to count. *)
Waiting == {c \in Calls : call[c].pc = "body"}
Forwarded == {c \in Calls : call[c].pc \in Forwarding}
Gauges == queued = Cardinality(Waiting) /\ running = Cardinality(Forwarded)

(* Close goes through the runners in the order of the list. *)
InTurn ==
  /\ \A i \in 1 .. Len(RunnerSeq) : i < closePC => conn[RunnerSeq[i]] = "closed"
  /\ closePC = Len(RunnerSeq) + 2 => closer[Closer] = "returned"
  /\ \A r \in Runners : conn[r] = "closed" => inside[r] = {}

(* Unless a reader outlived its call, a buffer has one holder: the pool or  *)
(* one call, whose body it holds once that is read.                         *)
NoneLate == \A d \in Calls : reader[d] \notin {"late", "gone"}
Owned(c) ==
  call[c].pc \in Within /\ call[c].buf # None =>
    /\ call[c].buf \notin pool
    /\ \A d \in Calls : d # c /\ call[d].pc \in Within => call[d].buf # call[c].buf
    /\ reader[c] = "done" => content[call[c].buf] = c
Exclusive == NoneLate => \A c \in Calls : Owned(c)

PoolAllocated == \A b \in pool : content[b] # "unallocated"

LBInv ==
  /\ IInv
  /\ LBTypeOK
  /\ call = [c \in Calls |-> call[c]]
  /\ \A c \in Calls : CallInv(c)
  /\ Gauges
  /\ InTurn
  /\ PoolAllocated
  /\ Exclusive

-----------------------------------------------------------------------------
(* Parts of the argument that every step shares.                           *)

LEMMA NewCallRecord == IsRecord(NewCall)
  BY DEF IsRecord, FieldNames, NewCall

(* One call changes, the others do not. *)
LEMMA OneCallChanges ==
  ASSUME call = [c \in Calls |-> call[c]], NEW c \in Calls, NEW g,
         call' = [call EXCEPT ![c] = g]
  PROVE  /\ call' = [d \in Calls |-> call'[d]]
         /\ call'[c] = g
         /\ \A d \in Calls : d # c => call'[d] = call[d]
  OBVIOUS

LEMMA Finite ==
  /\ IsFiniteSet(Waiting) /\ IsFiniteSet(Forwarded)
  /\ Cardinality(Waiting) \in Nat /\ Cardinality(Forwarded) \in Nat
<1>1. IsFiniteSet(Waiting) /\ IsFiniteSet(Forwarded)
  BY WaitGroupAssumption, FS_Subset DEF Waiting, Forwarded, Calls
<1> QED BY <1>1, FS_CardinalityType

Count(b) == IF b THEN 1 ELSE 0

LEMMA Recount ==
  ASSUME NEW S, NEW T, NEW c, IsFiniteSet(S), S \ {c} = T \ {c}
  PROVE  Cardinality(T) = Cardinality(S) + Count(c \in T) - Count(c \in S)
<1>0. Cardinality(S) \in Nat
  BY FS_CardinalityType
<1>1. CASE c \in S /\ c \notin T
  <2>1. T = S \ {c}
    BY <1>1
  <2> QED BY <2>1, <1>0, <1>1, FS_RemoveElement DEF Count
<1>2. CASE c \notin S /\ c \in T
  <2>1. T = S \cup {c}
    BY <1>2
  <2> QED BY <2>1, <1>0, <1>2, FS_AddElement DEF Count
<1>3. CASE c \in S <=> c \in T
  <2>1. T = S
    BY <1>3
  <2> QED BY <2>1, <1>0, <1>3 DEF Count
<1> QED BY <1>1, <1>2, <1>3

(* The gauges follow the stages of the one call that moves. *)
LEMMA GaugesFollow ==
  ASSUME call = [c \in Calls |-> call[c]], Gauges, NEW c \in Calls, NEW g,
         call' = [call EXCEPT ![c] = g],
         queued' = queued + Count(g.pc = "body") - Count(call[c].pc = "body"),
         running' = running + Count(g.pc \in Forwarding) - Count(call[c].pc \in Forwarding)
  PROVE  Gauges' /\ queued' \in Nat /\ running' \in Nat
<1>1. /\ call'[c] = g
      /\ \A d \in Calls : d # c => call'[d] = call[d]
  BY OneCallChanges
<1>2. Waiting \ {c} = Waiting' \ {c} /\ (c \in Waiting <=> call[c].pc = "body")
      /\ (c \in Waiting' <=> g.pc = "body")
  BY <1>1 DEF Waiting
<1>3. Forwarded \ {c} = Forwarded' \ {c} /\ (c \in Forwarded <=> call[c].pc \in Forwarding)
      /\ (c \in Forwarded' <=> g.pc \in Forwarding)
  BY <1>1 DEF Forwarded
<1>4. Cardinality(Waiting') = Cardinality(Waiting) + Count(c \in Waiting') - Count(c \in Waiting)
  BY <1>2, Finite, Recount
<1>5. Cardinality(Forwarded')
        = Cardinality(Forwarded) + Count(c \in Forwarded') - Count(c \in Forwarded)
  BY <1>3, Finite, Recount
<1>6. Waiting' \subseteq Calls /\ Forwarded' \subseteq Calls
  BY DEF Waiting, Forwarded
<1>7. Cardinality(Waiting') \in Nat /\ Cardinality(Forwarded') \in Nat
  BY <1>6, WaitGroupAssumption, FS_Subset, FS_CardinalityType DEF Calls
<1>8. queued' = Cardinality(Waiting') /\ running' = Cardinality(Forwarded')
  BY <1>2, <1>3, <1>4, <1>5 DEF Gauges, Count
<1> QED BY <1>7, <1>8 DEF Gauges

(* A call inside the gate moves on there: nothing about its buffer, its     *)
(* reader or the shutdown changes.                                          *)
LEMMA MovesOn ==
  ASSUME LBInv, NEW c \in Calls, NEW g, call' = [call EXCEPT ![c] = g],
         UNCHANGED <<wgVars, reader, content, pool, conn, closePC>>,
         call[c].pc \in Within, g.pc \in Within, g.buf = call[c].buf,
         Staged(g, reader[c], worker[c]), Accounted(g), Answered(g),
         queued' = queued + Count(g.pc = "body") - Count(call[c].pc = "body"),
         running' = running + Count(g.pc \in Forwarding) - Count(call[c].pc \in Forwarding),
         inside' \in [Runners -> SUBSET Calls],
         \A r \in Runners : conn[r] = "closed" => inside'[r] = {}
  PROVE  LBInv'
<1>1. /\ call' = [d \in Calls |-> call'[d]]
      /\ call'[c] = g
      /\ \A d \in Calls : d # c => call'[d] = call[d]
  BY OneCallChanges DEF LBInv
<1>2. IInv'
  BY IInvNext DEF LBInv, wgVars, vars
<1>3. Gauges' /\ queued' \in Nat /\ running' \in Nat
  BY GaugesFollow DEF LBInv
<1>4. LBTypeOK'
  BY <1>2, <1>3 DEF LBInv, LBTypeOK, IInv
<1>5. ASSUME NEW d \in Calls PROVE CallInv(d)'
  <2>1. CallInv(d)
    BY DEF LBInv
  <2>2. CASE d # c
    BY <2>1, <2>2, <1>1 DEF CallInv, Holds, wgVars
  <2>3. CASE d = c
    BY <2>1, <2>3, <1>1 DEF CallInv, Holds, wgVars
  <2> QED BY <2>2, <2>3
<1>6. InTurn' /\ PoolAllocated'
  BY DEF LBInv, InTurn, PoolAllocated, wgVars
<1>7. ASSUME NoneLate', NEW d \in Calls PROVE Owned(d)'
  <2>1. \A e \in Calls : Owned(e)
    BY <1>7 DEF LBInv, Exclusive, NoneLate
  <2>2. \A e \in Calls : call'[e].pc \in Within <=> call[e].pc \in Within
    BY <1>1
  <2>3. \A e \in Calls : call'[e].buf = call[e].buf
    BY <1>1
  <2> QED BY <2>1, <2>2, <2>3 DEF Owned
<1> QED BY <1>1, <1>2, <1>3, <1>4, <1>5, <1>6, <1>7 DEF LBInv, Exclusive

-----------------------------------------------------------------------------
(* One lemma for every action of a call.                                   *)

(* What the invariant says of the call that moves. *)
LEMMA Known ==
  ASSUME LBInv, NEW c \in Calls
  PROVE  /\ CallInv(c) /\ IsRecord(call[c])
         /\ queued \in Nat /\ running \in Nat
         /\ call = [d \in Calls |-> call[d]]
         /\ inside \in [Runners -> SUBSET Calls]
         /\ \A r \in Runners : conn[r] = "closed" => inside[r] = {}
  BY DEF LBInv, LBTypeOK, CallInv, Staged, InTurn

(* handleCallEnd, before the call was forwarded and after. *)
LEMMA EndsCall ==
  ASSUME LBInv, NEW c \in Calls, NEW err, NEW isForwarded \in BOOLEAN,
         NEW committed \in BOOLEAN,
         handleCallEnd(c, err, isForwarded, committed),
         call[c].pc \in (IF isForwarded THEN Forwarding ELSE {"body"}),
         committed => isForwarded /\ err # "busy",
         UNCHANGED <<wgVars, reader, content, pool, conn, closePC>>,
         inside' \in [Runners -> SUBSET Calls],
         \A r \in Runners : conn[r] = "closed" => inside'[r] = {}
  PROVE  LBInv'
<1>1. CallInv(c) /\ queued \in Nat /\ running \in Nat
  BY Known
<1>2. PICK g : g = [NewCall EXCEPT
         !.pc = "ret", !.buf = call[c].buf, !.started = call[c].started,
         !.committed = committed, !.ret = answer(err, isForwarded),
         !.ended = IF isForwarded THEN 1 ELSE 0]
  OBVIOUS
<1>3. call' = [call EXCEPT ![c] = g]
  BY <1>2 DEF handleCallEnd
<1>4. IsRecord(g)
  BY <1>2, NewCallRecord DEF IsRecord
<1>5. /\ g.pc = "ret" /\ g.buf = call[c].buf /\ g.started = call[c].started
      /\ g.committed = committed /\ g.ret = answer(err, isForwarded)
      /\ g.ended = (IF isForwarded THEN 1 ELSE 0) /\ g.ctx = "live"
  BY <1>2 DEF NewCall
<1>6. call[c].pc \in Within /\ (call[c].pc = "body" <=> ~isForwarded)
      /\ (call[c].pc \in Forwarding <=> isForwarded)
  BY DEF Within, Forwarding
<1>7. call[c].started = isForwarded
  BY <1>1, <1>6 DEF CallInv, Accounted
<1>8. Staged(g, reader[c], worker[c])
  BY <1>1, <1>4, <1>5, <1>6 DEF CallInv, Staged, Within, Forwarding, Pcs
<1>9. Accounted(g)
  BY <1>5, <1>7 DEF Accounted, CtxState, Forwarding
<1>10. Answered(g)
  BY <1>5 DEF Answered, answer
<1>11. queued' = queued + Count(g.pc = "body") - Count(call[c].pc = "body")
  BY <1>1, <1>5, <1>6 DEF Count, handleCallEnd
<1>12. running' = running + Count(g.pc \in Forwarding) - Count(call[c].pc \in Forwarding)
  BY <1>1, <1>5, <1>6 DEF Count, handleCallEnd, statsStopRun, Forwarding
<1>13. g.pc \in Within
  BY <1>5 DEF Within
<1> QED BY <1>3, <1>5, <1>6, <1>8, <1>9, <1>10, <1>11, <1>12, <1>13, MovesOn

(* A pass over the runners begins. *)
LEMMA Passes ==
  ASSUME LBInv, NEW c \in Calls, beginPass(c),
         \/ call[c].pc = "body" /\ reader[c] = "done"
            /\ queued' = queued - 1 /\ running' = running + 1
         \/ call[c].pc = "loop" /\ UNCHANGED <<queued, running>>,
         UNCHANGED <<wgVars, reader, content, pool, inside, conn, closePC>>
  PROVE  LBInv'
<1>1. CallInv(c) /\ IsRecord(call[c]) /\ queued \in Nat /\ running \in Nat
      /\ call = [d \in Calls |-> call[d]]
  BY Known
<1>2. PICK a \in PoolAnswers, i \in 1 .. Len(RunnerSeq) :
        call' = [call EXCEPT ![c].pc = "loop", ![c].started = TRUE,
                             ![c].list = a[1], ![c].perr = a[2], ![c].i = i, ![c].j = 0]
  BY DEF beginPass
<1>3. PICK h : h = call[c]
  OBVIOUS
<1>4. PICK g : g = [h EXCEPT !.pc = "loop", !.started = TRUE,
            !.list = a[1], !.perr = a[2], !.i = i, !.j = 0]
  OBVIOUS
<1>5. call' = [call EXCEPT ![c] = g]
  BY <1>1, <1>2, <1>3, <1>4
<1>6. IsRecord(h)
  BY <1>1, <1>3
<1>7. IsRecord(g)
  BY <1>4, <1>6 DEF IsRecord
<1>8. /\ g.pc = "loop" /\ g.started = TRUE /\ g.buf = h.buf /\ g.ctx = h.ctx
      /\ g.committed = h.committed /\ g.ret = h.ret
  BY <1>4, <1>6 DEF IsRecord, FieldNames
<1>9. call[c].pc \in Within /\ g.pc \in Within /\ g.buf = call[c].buf
  BY <1>3, <1>8 DEF Within
<1>10. Staged(g, reader[c], worker[c])
  BY <1>1, <1>7, <1>8, <1>9 DEF CallInv, Staged, Within, Forwarding, Pcs
<1>11. Accounted(g) /\ Answered(g)
  BY <1>1, <1>3, <1>8 DEF CallInv, Accounted, Answered, Forwarding
<1>12. queued' = queued + Count(g.pc = "body") - Count(call[c].pc = "body")
  BY <1>1, <1>8 DEF Count
<1>13. running' = running + Count(g.pc \in Forwarding) - Count(call[c].pc \in Forwarding)
  BY <1>1, <1>8 DEF Count, Forwarding
<1>14. inside' \in [Runners -> SUBSET Calls]
       /\ \A r \in Runners : conn[r] = "closed" => inside'[r] = {}
  BY Known
<1> QED BY <1>5, <1>9, <1>10, <1>11, <1>12, <1>13, <1>14, MovesOn

(* A context ends, or the placer's: one field of the call. *)
LEMMA CtxEndsInv == ASSUME LBInv, NEW c \in Calls, CtxEnds(c) PROVE LBInv'
<1>1. CallInv(c) /\ IsRecord(call[c]) /\ queued \in Nat /\ running \in Nat
      /\ call = [d \in Calls |-> call[d]]
  BY Known
<1>2. PICK e \in CtxState : call' = [call EXCEPT ![c].ctx = e]
  BY DEF CtxEnds
<1>3. PICK h : h = call[c]
  OBVIOUS
<1>4. PICK g : g = [h EXCEPT !.ctx = e]
  OBVIOUS
<1>5. call' = [call EXCEPT ![c] = g]
  BY <1>1, <1>2, <1>3, <1>4
<1>6. IsRecord(h)
  BY <1>1, <1>3
<1>7. IsRecord(g)
  BY <1>4, <1>6 DEF IsRecord
<1>8. /\ g.pc = h.pc /\ g.started = h.started /\ g.buf = h.buf /\ g.ctx = e
      /\ g.committed = h.committed /\ g.ret = h.ret /\ g.ended = h.ended
  BY <1>4, <1>6 DEF IsRecord, FieldNames
<1>9. h.pc \in Within /\ g.pc \in Within
  BY <1>1, <1>3, <1>8 DEF Within, CallInv, Staged, Pcs, CtxEnds
<1>10. Staged(g, reader[c], worker[c])
  BY <1>1, <1>3, <1>7, <1>8 DEF CallInv, Staged
<1>11. Accounted(g) /\ Answered(g)
  BY <1>1, <1>3, <1>8 DEF CallInv, Accounted, Answered
<1>12. queued' = queued + Count(g.pc = "body") - Count(h.pc = "body")
       /\ running' = running + Count(g.pc \in Forwarding) - Count(h.pc \in Forwarding)
  BY <1>1, <1>8 DEF Count, CtxEnds
<1>13. /\ inside' \in [Runners -> SUBSET Calls]
       /\ \A r \in Runners : conn[r] = "closed" => inside'[r] = {}
       /\ UNCHANGED <<wgVars, reader, content, pool, conn, closePC>>
  BY Known DEF CtxEnds
<1> QED BY <1>3, <1>5, <1>8, <1>9, <1>10, <1>11, <1>12, <1>13, MovesOn

LEMMA PlacerTimeoutInv == ASSUME LBInv, NEW c \in Calls, PlacerTimeout(c) PROVE LBInv'
<1>1. CallInv(c) /\ IsRecord(call[c]) /\ queued \in Nat /\ running \in Nat
      /\ call = [d \in Calls |-> call[d]]
  BY Known
<1>2. PICK h : h = call[c]
  OBVIOUS
<1>3. PICK g : g = [h EXCEPT !.placerOver = TRUE]
  OBVIOUS
<1>4. call' = [call EXCEPT ![c] = g]
  BY <1>1, <1>2, <1>3 DEF PlacerTimeout
<1>5. IsRecord(h)
  BY <1>1, <1>2
<1>6. IsRecord(g)
  BY <1>3, <1>5 DEF IsRecord
<1>7. /\ g.pc = h.pc /\ g.started = h.started /\ g.buf = h.buf /\ g.ctx = h.ctx
      /\ g.committed = h.committed /\ g.ret = h.ret /\ g.ended = h.ended
  BY <1>3, <1>5 DEF IsRecord, FieldNames
<1>8. h.pc \in Within /\ g.pc \in Within
  BY <1>2, <1>7 DEF Within, PlacerTimeout
<1>9. Staged(g, reader[c], worker[c])
  BY <1>1, <1>2, <1>6, <1>7 DEF CallInv, Staged
<1>10. Accounted(g) /\ Answered(g)
  BY <1>1, <1>2, <1>7 DEF CallInv, Accounted, Answered
<1>11. queued' = queued + Count(g.pc = "body") - Count(h.pc = "body")
       /\ running' = running + Count(g.pc \in Forwarding) - Count(h.pc \in Forwarding)
  BY <1>1, <1>7 DEF Count, PlacerTimeout
<1>12. /\ inside' \in [Runners -> SUBSET Calls]
       /\ \A r \in Runners : conn[r] = "closed" => inside'[r] = {}
       /\ UNCHANGED <<wgVars, reader, content, pool, conn, closePC>>
  BY Known DEF PlacerTimeout
<1> QED BY <1>2, <1>4, <1>7, <1>8, <1>9, <1>10, <1>11, <1>12, MovesOn

(* The call goes to the next runner of the list. *)
LEMMA Advances ==
  ASSUME LBInv, NEW c \in Calls, call[c].pc \in Forwarding,
         call' = [call EXCEPT ![c] = advanced(@)],
         UNCHANGED <<wgVars, reader, content, pool, conn, queued, running, closePC>>,
         inside' \in [Runners -> SUBSET Calls],
         \A r \in Runners : conn[r] = "closed" => inside'[r] = {}
  PROVE  LBInv'
<1>1. CallInv(c) /\ IsRecord(call[c]) /\ queued \in Nat /\ running \in Nat
  BY Known
<1>2. PICK h : h = call[c]
  OBVIOUS
<1>3. PICK i, j : i = following(h.i, Len(h.list)) /\ j = h.j + 1
  OBVIOUS
<1>4. PICK g : g = [h EXCEPT !.pc = "loop", !.j = j, !.i = i]
  OBVIOUS
<1>5. call' = [call EXCEPT ![c] = g]
  BY <1>2, <1>3, <1>4 DEF advanced
<1>6. IsRecord(h)
  BY <1>1, <1>2
<1>7. IsRecord(g)
  BY <1>4, <1>6 DEF IsRecord
<1>8. /\ g.pc = "loop" /\ g.started = h.started /\ g.buf = h.buf /\ g.ctx = h.ctx
      /\ g.committed = h.committed /\ g.ret = h.ret /\ g.ended = h.ended
  BY <1>4, <1>6 DEF IsRecord, FieldNames
<1>9. h.pc \in Within /\ g.pc \in Within
  BY <1>2, <1>8 DEF Within, Forwarding
<1>10. Staged(g, reader[c], worker[c])
  BY <1>1, <1>2, <1>7, <1>8, <1>9 DEF CallInv, Staged, Forwarding, Pcs, Within
<1>11. Accounted(g) /\ Answered(g)
  BY <1>1, <1>2, <1>8 DEF CallInv, Accounted, Answered, Forwarding
<1>12. queued' = queued + Count(g.pc = "body") - Count(h.pc = "body")
       /\ running' = running + Count(g.pc \in Forwarding) - Count(h.pc \in Forwarding)
  BY <1>1, <1>2, <1>8 DEF Count, Forwarding
<1> QED BY <1>2, <1>5, <1>8, <1>9, <1>10, <1>11, <1>12, MovesOn

LEMMA BeforePlacementInv ==
  ASSUME LBInv, NEW c \in Calls, setRequestBodyFails(c) \/ Start(c)
  PROVE  LBInv'
<1>1. /\ inside \in [Runners -> SUBSET Calls]
      /\ \A r \in Runners : conn[r] = "closed" => inside[r] = {}
  BY Known
<1>2. /\ UNCHANGED <<wgVars, reader, content, pool, inside, conn, closePC>>
      /\ call[c].pc = "body"
      /\ \/ \E err : handleCallEnd(c, err, FALSE, FALSE)
         \/ beginPass(c) /\ reader[c] = "done" /\ queued' = queued - 1 /\ running' = running + 1
  BY DEF setRequestBodyFails, Start
<1>3. inside' \in [Runners -> SUBSET Calls]
      /\ \A r \in Runners : conn[r] = "closed" => inside'[r] = {}
  BY <1>1, <1>2
<1>4. ASSUME NEW err, handleCallEnd(c, err, FALSE, FALSE) PROVE LBInv'
  BY <1>2, <1>3, <1>4, EndsCall
<1>5. CASE beginPass(c) /\ reader[c] = "done" /\ queued' = queued - 1 /\ running' = running + 1
  BY <1>2, <1>5, Passes
<1> QED BY <1>2, <1>4, <1>5

LEMMA TryRunnerInv == ASSUME LBInv, NEW c \in Calls, TryRunner(c) PROVE LBInv'
<1>1. /\ CallInv(c) /\ IsRecord(call[c]) /\ queued \in Nat /\ running \in Nat
      /\ call = [d \in Calls |-> call[d]]
      /\ inside \in [Runners -> SUBSET Calls]
      /\ \A r \in Runners : conn[r] = "closed" => inside[r] = {}
  BY Known
<1>2. PICK r : r = call[c].list[call[c].i]
  OBVIOUS
<1>3. /\ call[c].pc = "loop"
      /\ UNCHANGED <<wgVars, reader, content, pool, conn, queued, running, closePC>>
      /\ IF conn[r] = "open"
         THEN /\ inside' = [inside EXCEPT ![r] = @ \cup {c}]
              /\ call' = [call EXCEPT ![c].pc = "trying"]
         ELSE /\ call' = [call EXCEPT ![c] = advanced(@)]
              /\ UNCHANGED inside
  BY <1>2 DEF TryRunner
<1>4. CASE conn[r] = "open"
  <2>1. PICK h : h = call[c]
    OBVIOUS
  <2>2. PICK g : g = [h EXCEPT !.pc = "trying"]
    OBVIOUS
  <2>3. call' = [call EXCEPT ![c] = g]
    BY <1>1, <1>3, <1>4, <2>1, <2>2
  <2>4. IsRecord(h)
    BY <1>1, <2>1
  <2>5. IsRecord(g)
    BY <2>2, <2>4 DEF IsRecord
  <2>6. /\ g.pc = "trying" /\ g.started = h.started /\ g.buf = h.buf /\ g.ctx = h.ctx
        /\ g.committed = h.committed /\ g.ret = h.ret /\ g.ended = h.ended
    BY <2>2, <2>4 DEF IsRecord, FieldNames
  <2>7. h.pc \in Within /\ g.pc \in Within
    BY <1>3, <2>1, <2>6 DEF Within
  <2>8. Staged(g, reader[c], worker[c])
    BY <1>1, <1>3, <2>1, <2>5, <2>6, <2>7 DEF CallInv, Staged, Forwarding, Pcs, Within
  <2>9. Accounted(g) /\ Answered(g)
    BY <1>1, <1>3, <2>1, <2>6 DEF CallInv, Accounted, Answered, Forwarding
  <2>10. queued' = queued + Count(g.pc = "body") - Count(h.pc = "body")
         /\ running' = running + Count(g.pc \in Forwarding) - Count(h.pc \in Forwarding)
    BY <1>1, <1>3, <2>1, <2>6 DEF Count, Forwarding
  <2>11. inside' \in [Runners -> SUBSET Calls]
         /\ \A s \in Runners : conn[s] = "closed" => inside'[s] = {}
    BY <1>1, <1>3, <1>4
  <2> QED BY <1>3, <2>1, <2>3, <2>6, <2>7, <2>8, <2>9, <2>10, <2>11, MovesOn
<1>5. CASE conn[r] # "open"
  <2>1. call[c].pc \in Forwarding /\ call' = [call EXCEPT ![c] = advanced(@)]
    BY <1>3, <1>5 DEF Forwarding
  <2>2. inside' \in [Runners -> SUBSET Calls]
        /\ \A s \in Runners : conn[s] = "closed" => inside'[s] = {}
    BY <1>1, <1>3, <1>5
  <2> QED BY <1>3, <2>1, <2>2, Advances
<1> QED BY <1>4, <1>5

(* Leaving a runner's session opens no runner. *)
LEMMA Leaves ==
  ASSUME LBInv, NEW c \in Calls, leave(c)
  PROVE  /\ inside' \in [Runners -> SUBSET Calls]
         /\ \A r \in Runners : conn[r] = "closed" => inside'[r] = {}
<1>1. /\ inside \in [Runners -> SUBSET Calls]
      /\ \A r \in Runners : conn[r] = "closed" => inside[r] = {}
  BY Known
<1> QED BY <1>1 DEF leave

LEMMA TriedInv ==
  ASSUME LBInv, NEW c \in Calls, NotPlaced(c) \/ Placed(c) PROVE LBInv'
<1>1. /\ inside' \in [Runners -> SUBSET Calls]
      /\ \A r \in Runners : conn[r] = "closed" => inside'[r] = {}
  BY Leaves DEF NotPlaced, Placed
<1>2. call[c].pc \in Forwarding
  BY DEF NotPlaced, Placed, Forwarding
<1>3. CASE NotPlaced(c)
  BY <1>1, <1>2, <1>3, Advances DEF NotPlaced
<1>4. CASE Placed(c)
  <2>1. call[c].ctx \in CtxState
    BY Known DEF CallInv, Accounted
  <2>2. PICK err : err # "busy" /\ handleCallEnd(c, err, TRUE, TRUE)
    BY <1>4, <2>1 DEF Placed, CtxState
  <2>3. UNCHANGED <<wgVars, reader, content, pool, conn, closePC>>
    BY <1>4 DEF Placed
  <2> QED BY <1>1, <1>2, <2>2, <2>3, EndsCall
<1> QED BY <1>3, <1>4

LEMMA PassEndsInv ==
  ASSUME LBInv, NEW c \in Calls, RetryAll(c) \/ GiveUp(c) PROVE LBInv'
<1>1. /\ inside \in [Runners -> SUBSET Calls]
      /\ \A r \in Runners : conn[r] = "closed" => inside[r] = {}
  BY Known
<1>2. CASE RetryAll(c)
  BY <1>2, Passes DEF RetryAll
<1>3. CASE GiveUp(c)
  <2>1. PICK err : handleCallEnd(c, err, TRUE, FALSE)
    BY <1>3 DEF GiveUp
  <2>2. /\ UNCHANGED <<wgVars, reader, content, pool, conn, closePC>>
        /\ call[c].pc \in Forwarding
        /\ inside' \in [Runners -> SUBSET Calls]
        /\ \A r \in Runners : conn[r] = "closed" => inside'[r] = {}
    BY <1>1, <1>3 DEF GiveUp, Forwarding
  <2> QED BY <2>1, <2>2, EndsCall
<1> QED BY <1>2, <1>3

(* readBody and readBodyFails.  A late reader's buffer may be anyone's. *)
LEMMA ReaderInv ==
  ASSUME LBInv, NEW c \in Calls, readBody(c) \/ readBodyFails(c) PROVE LBInv'
<1>1. /\ reader[c] \in {"reading", "late"}
      /\ UNCHANGED <<wgVars, call, pool, inside, conn, queued, running, closePC>>
      /\ content' = [content EXCEPT ![call[c].buf] = c] \/ content' = content
  BY DEF readBody, readBodyFails
<1>2. PICK x \in {"done", "failed", "gone"} :
        /\ reader' = [reader EXCEPT ![c] = x]
        /\ x = "gone" <=> reader[c] = "late"
        /\ x = "done" => content' = [content EXCEPT ![call[c].buf] = c]
  <2>1. CASE readBody(c)
    BY <1>1, <2>1 DEF readBody
  <2>2. CASE readBodyFails(c)
    BY <1>1, <2>2 DEF readBodyFails
  <2> QED BY <2>1, <2>2
<1>3. /\ reader \in [Calls -> {"idle", "reading", "done", "failed", "late", "gone"}]
      /\ content \in [Bufs -> Calls \cup {None, "unallocated"}]
      /\ pool \subseteq Bufs /\ LBTypeOK /\ \A d \in Calls : CallInv(d)
  BY DEF LBInv, LBTypeOK
<1>4. /\ reader'[c] = x /\ \A d \in Calls : d # c => reader'[d] = reader[d]
      /\ reader' \in [Calls -> {"idle", "reading", "done", "failed", "late", "gone"}]
  BY <1>2, <1>3
<1>5. /\ content' \in [Bufs -> Calls \cup {None, "unallocated"}]
      /\ \A b \in Bufs : content[b] # "unallocated" => content'[b] # "unallocated"
  BY <1>1, <1>3, LBAssumption
<1>6. IInv'
  BY <1>1, IInvNext DEF LBInv, wgVars, vars
<1>7. LBTypeOK'
  BY <1>1, <1>3, <1>4, <1>5, <1>6 DEF LBTypeOK, IInv
<1>8. ASSUME NEW d \in Calls PROVE CallInv(d)'
  <2>1. CallInv(d)
    BY <1>3
  <2>2. Holds(call[d])'
    BY <2>1, <1>1, <1>5 DEF CallInv, Holds
  <2>3. call'[d] = call[d] /\ worker'[d] = worker[d]
    BY <1>1 DEF wgVars
  <2>4. Staged(call[d], reader'[d], worker[d])
    <3>1. CASE d # c
      BY <2>1, <3>1, <1>4 DEF CallInv
    <3>2. CASE d = c
      BY <2>1, <3>2, <1>1, <1>2, <1>4 DEF CallInv, Staged, Forwarding, Pcs
    <3> QED BY <3>1, <3>2
  <2> QED BY <2>1, <2>2, <2>3, <2>4 DEF CallInv
<1>9. Gauges' /\ InTurn'
  BY <1>1 DEF LBInv, Gauges, Waiting, Forwarded, InTurn, wgVars
<1>10. PoolAllocated'
  BY <1>1, <1>3, <1>5 DEF LBInv, PoolAllocated
<1>11. ASSUME NoneLate', NEW d \in Calls PROVE Owned(d)'
  <2>1. x # "gone" /\ reader[c] = "reading"
    BY <1>1, <1>2, <1>4, <1>11 DEF NoneLate
  <2>2. NoneLate
    BY <2>1, <1>4, <1>11 DEF NoneLate
  <2>3. \A e \in Calls : Owned(e)
    BY <2>2 DEF LBInv, Exclusive
  <2>4. call[c].pc \in Within /\ call[c].buf \in Bufs /\ call[c].buf # None
    BY <1>3, <2>1 DEF CallInv, Staged, Holds, Within, Pcs, Forwarding
  <2>5. CASE d # c
    <3>1. call[d].pc \in Within /\ call[d].buf # None => content'[call[d].buf] = content[call[d].buf]
      BY <1>1, <1>3, <2>3, <2>4, <2>5 DEF Owned, CallInv, Holds
    <3> QED BY <1>1, <1>4, <2>3, <2>5, <3>1 DEF Owned
  <2>6. CASE d = c
    <3>1. reader'[c] = "done" => content'[call[c].buf] = c
      BY <1>2, <1>3, <1>4, <2>4
    <3> QED BY <1>1, <2>3, <2>6, <3>1 DEF Owned
  <2> QED BY <2>5, <2>6
<1> QED BY <1>1, <1>6, <1>7, <1>8, <1>9, <1>10, <1>11 DEF LBInv, Exclusive

(* A buffer just taken is nobody's. *)
LEMMA Taken ==
  ASSUME LBInv, NEW b \in PoolGet
  PROVE  /\ b \in Bufs
         /\ NoneLate => \A d \in Calls : call[d].pc \in Within => call[d].buf # b
<1>1. b \in pool \/ (b \in Bufs /\ content[b] = "unallocated")
  BY DEF PoolGet, Fresh
<1>2. b \in Bufs
  BY <1>1 DEF LBInv, LBTypeOK
<1>3. ASSUME NoneLate, NEW d \in Calls, call[d].pc \in Within PROVE call[d].buf # b
  <2>1. b # None
    BY <1>2, LBAssumption DEF None
  <2>2. Owned(d) /\ CallInv(d)
    BY <1>3 DEF LBInv, Exclusive
  <2> QED BY <1>1, <1>3, <2>1, <2>2 DEF Owned, CallInv, Holds
<1> QED BY <1>2, <1>3

LEMMA SubmitInv == ASSUME LBInv, NEW c \in Calls, Submit(c) PROVE LBInv'
<1>1. /\ CallInv(c) /\ IsRecord(call[c]) /\ queued \in Nat /\ running \in Nat
      /\ call = [d \in Calls |-> call[d]]
  BY Known
<1>2. /\ call[c].pc = "new" /\ AddSession(c)
      /\ UNCHANGED <<inside, conn, running, closePC, closer>>
  BY DEF Submit, AddSession
<1>3. IInv'
  BY <1>2, IInvNext DEF LBInv, Next, Calls
<1>4. PICK h : h = call[c]
  OBVIOUS
<1>5. IsRecord(h)
  BY <1>1, <1>4
<1>6. InTurn'
  BY <1>2 DEF LBInv, InTurn
<1>7. /\ worker \in [Calls -> WorkerState]
      /\ reader \in [Calls -> {"idle", "reading", "done", "failed", "late", "gone"}]
      /\ content \in [Bufs -> Calls \cup {None, "unallocated"}]
      /\ pool \subseteq Bufs /\ LBTypeOK /\ \A d \in Calls : CallInv(d)
  BY DEF LBInv, LBTypeOK, TypeOK, Calls
<1>8. CASE CanAdd /\ getsBuffer(c)
  <2>1. PICK b \in PoolGet :
          /\ call' = [call EXCEPT ![c].pc = "body", ![c].buf = b]
          /\ pool' = pool \ {b}
          /\ content' = [content EXCEPT ![b] = None]
    BY <1>8 DEF getsBuffer
  <2>2. /\ reader' = [reader EXCEPT ![c] = "reading"] /\ queued' = queued + 1
        /\ worker' = [worker EXCEPT ![c] = "in"]
    BY <1>8 DEF Submit, AddSession, getsBuffer
  <2>3. PICK g : g = [h EXCEPT !.pc = "body", !.buf = b]
    OBVIOUS
  <2>4. call' = [call EXCEPT ![c] = g]
    BY <1>1, <1>4, <2>1, <2>3
  <2>5. IsRecord(g)
    BY <1>5, <2>3 DEF IsRecord
  <2>6. /\ g.pc = "body" /\ g.started = h.started /\ g.buf = b /\ g.ctx = h.ctx
        /\ g.committed = h.committed /\ g.ret = h.ret /\ g.ended = h.ended
    BY <1>5, <2>3 DEF IsRecord, FieldNames
  <2>7. /\ call' = [d \in Calls |-> call'[d]] /\ call'[c] = g
        /\ \A d \in Calls : d # c => call'[d] = call[d]
    BY <1>1, <2>4, OneCallChanges
  <2>8. /\ reader'[c] = "reading" /\ \A d \in Calls : d # c => reader'[d] = reader[d]
        /\ worker'[c] = "in" /\ \A d \in Calls : d # c => worker'[d] = worker[d]
        /\ reader' \in [Calls -> {"idle", "reading", "done", "failed", "late", "gone"}]
    BY <1>7, <2>2
  <2>9. b \in Bufs /\ b # None /\ (NoneLate => \A d \in Calls : call[d].pc \in Within => call[d].buf # b)
    BY Taken, LBAssumption DEF None
  <2>10. /\ content'[b] = None /\ content' \in [Bufs -> Calls \cup {None, "unallocated"}]
         /\ \A e \in Bufs : e # b => content'[e] = content[e]
    BY <1>7, <2>1, <2>9
  <2>11. Gauges' /\ queued' \in Nat /\ running' \in Nat
    <3>1. queued' = queued + Count(g.pc = "body") - Count(call[c].pc = "body")
      BY <1>1, <1>2, <2>2, <2>6 DEF Count
    <3>2. running' = running + Count(g.pc \in Forwarding) - Count(call[c].pc \in Forwarding)
      BY <1>1, <1>2, <2>6 DEF Count, Forwarding
    <3>3. Gauges
      BY DEF LBInv
    <3> QED BY <1>1, <2>4, <3>1, <3>2, <3>3, GaugesFollow
  <2>12. LBTypeOK'
    BY <1>2, <1>3, <1>7, <2>1, <2>8, <2>10, <2>11 DEF LBTypeOK, IInv
  <2>13. ASSUME NEW d \in Calls PROVE CallInv(d)'
    <3>1. CASE d # c
      <4>1. Holds(call[d])'
        BY <1>7, <2>7, <2>10, <3>1 DEF CallInv, Holds, None
      <4> QED BY <1>7, <2>7, <2>8, <3>1, <4>1 DEF CallInv
    <3>2. CASE d = c
      <4>1. Staged(g, "reading", "in")
        BY <2>5, <2>6, <2>9 DEF Staged, Pcs, Within, Forwarding
      <4>2. Accounted(g) /\ Answered(g)
        BY <1>1, <1>2, <1>4, <2>6 DEF CallInv, Accounted, Answered, Forwarding
      <4>3. Holds(call[d])'
        BY <2>6, <2>7, <2>9, <2>10, <3>2 DEF Holds, None
      <4> QED BY <2>7, <2>8, <3>2, <4>1, <4>2, <4>3 DEF CallInv
    <3> QED BY <3>1, <3>2
  <2>14. PoolAllocated'
    BY <1>7, <2>1, <2>10 DEF LBInv, PoolAllocated
  <2>15. ASSUME NoneLate', NEW d \in Calls PROVE Owned(d)'
    <3>1. reader[c] = "idle"
      BY <1>1, <1>2 DEF CallInv, Staged
    <3>2. NoneLate
      BY <2>8, <2>15, <3>1 DEF NoneLate
    <3>3. \A e \in Calls : Owned(e)
      BY <3>2 DEF LBInv, Exclusive
    <3>4. \A e \in Calls : call[e].pc \in Within => call[e].buf # b /\ (call[e].buf # None => call[e].buf \in Bufs)
      BY <1>7, <2>9, <3>2 DEF CallInv, Holds
    <3>5. CASE d # c
      <4>1. ASSUME call'[d].pc \in Within, call'[d].buf # None
            PROVE  /\ call'[d].buf \notin pool'
                   /\ content'[call'[d].buf] = content[call[d].buf]
                   /\ call'[c].buf # call'[d].buf
        BY <2>1, <2>6, <2>7, <2>10, <3>3, <3>4, <3>5, <4>1, ZenonT(40) DEF Owned
      <4>2. ASSUME call'[d].pc \in Within, call'[d].buf # None, NEW e \in Calls, e # d, call'[e].pc \in Within
            PROVE  call'[e].buf # call'[d].buf
        BY <2>7, <3>3, <3>5, <4>1, <4>2 DEF Owned
      <4> QED BY <2>7, <2>8, <3>3, <3>5, <4>1, <4>2 DEF Owned
    <3>6. CASE d = c
      <4>1. b \notin pool'
        BY <2>1
      <4>2. \A e \in Calls : e # c /\ call'[e].pc \in Within => call'[e].buf # b
        BY <2>7, <3>4
      <4> QED BY <2>6, <2>7, <2>8, <3>6, <4>1, <4>2 DEF Owned
    <3> QED BY <3>5, <3>6
  <2> QED BY <1>3, <1>6, <2>7, <2>11, <2>12, <2>13, <2>14, <2>15 DEF LBInv, Exclusive
<1>10. CASE CanAdd /\ needsNoBuffer(c)
  <2>1. /\ call' = [call EXCEPT ![c].pc = "body"] /\ UNCHANGED <<pool, content>>
        /\ reader' = [reader EXCEPT ![c] = "done"] /\ queued' = queued + 1
        /\ worker' = [worker EXCEPT ![c] = "in"]
    BY <1>10 DEF Submit, AddSession, needsNoBuffer
  <2>2. PICK g : g = [h EXCEPT !.pc = "body"]
    OBVIOUS
  <2>3. call' = [call EXCEPT ![c] = g]
    BY <1>1, <1>4, <2>1, <2>2
  <2>4. IsRecord(g)
    BY <1>5, <2>2 DEF IsRecord
  <2>5. /\ g.pc = "body" /\ g.started = h.started /\ g.ctx = h.ctx /\ g.buf = h.buf
        /\ g.committed = h.committed /\ g.ret = h.ret /\ g.ended = h.ended
    BY <1>5, <2>2 DEF IsRecord, FieldNames
  <2>6. /\ call' = [d \in Calls |-> call'[d]] /\ call'[c] = g
        /\ \A d \in Calls : d # c => call'[d] = call[d]
    BY <1>1, <2>3, OneCallChanges
  <2>7. Gauges' /\ queued' \in Nat /\ running' \in Nat
    <3>1. queued' = queued + Count(g.pc = "body") - Count(call[c].pc = "body")
      BY <1>1, <1>2, <2>1, <2>5 DEF Count
    <3>2. running' = running + Count(g.pc \in Forwarding) - Count(call[c].pc \in Forwarding)
      BY <1>1, <1>2, <2>5 DEF Count, Forwarding
    <3>3. Gauges
      BY DEF LBInv
    <3> QED BY <1>1, <2>3, <3>1, <3>2, <3>3, GaugesFollow
  <2>8. /\ reader'[c] = "done" /\ \A d \in Calls : d # c => reader'[d] = reader[d]
        /\ worker'[c] = "in" /\ \A d \in Calls : d # c => worker'[d] = worker[d]
        /\ reader' \in [Calls -> {"idle", "reading", "done", "failed", "late", "gone"}]
    BY <1>7, <2>1
  <2>9. LBTypeOK'
    BY <1>2, <1>3, <1>7, <2>1, <2>7, <2>8 DEF LBTypeOK, IInv
  <2>10. h.buf = None /\ reader[c] = "idle"
    BY <1>1, <1>2, <1>4 DEF CallInv, Staged
  <2>11. ASSUME NEW d \in Calls PROVE CallInv(d)'
    <3>1. CASE d # c
      BY <1>7, <2>1, <2>6, <2>8, <3>1 DEF CallInv, Holds
    <3>2. CASE d = c
      <4>1. Staged(g, "done", "in")
        BY <2>4, <2>5 DEF Staged, Pcs, Within, Forwarding
      <4>2. Accounted(g) /\ Answered(g)
        BY <1>1, <1>2, <1>4, <2>5 DEF CallInv, Accounted, Answered, Forwarding
      <4> QED BY <2>5, <2>6, <2>8, <2>10, <3>2, <4>1, <4>2 DEF CallInv, Holds
    <3> QED BY <3>1, <3>2
  <2>12. PoolAllocated'
    BY <2>1 DEF LBInv, PoolAllocated
  <2>13. ASSUME NoneLate', NEW d \in Calls PROVE Owned(d)'
    <3>1. \A e \in Calls : Owned(e)
      BY <2>8, <2>10, <2>13 DEF LBInv, Exclusive, NoneLate
    <3>2. call'[c].buf = None
      BY <2>5, <2>6, <2>10
    <3> QED BY <2>1, <2>6, <2>8, <3>1, <3>2 DEF Owned
  <2> QED BY <1>3, <1>6, <2>6, <2>7, <2>9, <2>11, <2>12, <2>13 DEF LBInv, Exclusive
<1>9. CASE ~CanAdd
  <2>1. /\ call' = [call EXCEPT ![c].pc = "end", ![c].ret = "busy"]
        /\ UNCHANGED <<pool, content, reader, queued, worker>>
    BY <1>9 DEF Submit, AddSession
  <2>2. PICK g : g = [h EXCEPT !.pc = "end", !.ret = "busy"]
    OBVIOUS
  <2>3. call' = [call EXCEPT ![c] = g]
    BY <1>1, <1>4, <2>1, <2>2
  <2>4. IsRecord(g)
    BY <1>5, <2>2 DEF IsRecord
  <2>5. /\ g.pc = "end" /\ g.started = h.started /\ g.ctx = h.ctx
        /\ g.committed = h.committed /\ g.ret = "busy" /\ g.ended = h.ended
    BY <1>5, <2>2 DEF IsRecord, FieldNames
  <2>6. /\ call' = [d \in Calls |-> call'[d]] /\ call'[c] = g
        /\ \A d \in Calls : d # c => call'[d] = call[d]
    BY <1>1, <2>3, OneCallChanges
  <2>7. Gauges' /\ queued' \in Nat /\ running' \in Nat
    <3>1. queued' = queued + Count(g.pc = "body") - Count(call[c].pc = "body")
      BY <1>1, <1>2, <2>1, <2>5 DEF Count
    <3>2. running' = running + Count(g.pc \in Forwarding) - Count(call[c].pc \in Forwarding)
      BY <1>1, <1>2, <2>5 DEF Count, Forwarding
    <3>3. Gauges
      BY DEF LBInv
    <3> QED BY <1>1, <2>3, <3>1, <3>2, <3>3, GaugesFollow
  <2>8. LBTypeOK'
    BY <1>2, <1>3, <1>7, <2>1, <2>7 DEF LBTypeOK, IInv
  <2>9. ASSUME NEW d \in Calls PROVE CallInv(d)'
    <3>1. CASE d # c
      BY <1>7, <2>1, <2>6, <3>1 DEF CallInv, Holds
    <3>2. CASE d = c
      <4>1. Staged(g, reader[c], worker[c])
        BY <1>1, <1>2, <2>4, <2>5 DEF CallInv, Staged, Pcs, Within, Forwarding
      <4>2. Accounted(g) /\ Answered(g)
        BY <1>1, <1>2, <1>4, <2>5 DEF CallInv, Accounted, Answered, Forwarding
      <4> QED BY <2>1, <2>5, <2>6, <3>2, <4>1, <4>2 DEF CallInv, Holds, Within
    <3> QED BY <3>1, <3>2
  <2>10. PoolAllocated'
    BY <2>1 DEF LBInv, PoolAllocated
  <2>11. ASSUME NoneLate', NEW d \in Calls PROVE Owned(d)'
    BY <2>1, <2>5, <2>6, <2>11 DEF LBInv, Exclusive, Owned, NoneLate, Within
  <2> QED BY <1>3, <1>6, <2>6, <2>7, <2>8, <2>9, <2>10, <2>11 DEF LBInv, Exclusive
<1> QED BY <1>8, <1>9, <1>10 DEF Submit

(* Submit returns: the buffer goes to the pool, whoever still reads into it. *)
LEMMA ReturnInv == ASSUME LBInv, NEW c \in Calls, Return(c) PROVE LBInv'
<1>1. /\ CallInv(c) /\ IsRecord(call[c]) /\ queued \in Nat /\ running \in Nat
      /\ call = [d \in Calls |-> call[d]]
  BY Known
<1>2. /\ call[c].pc = "ret" /\ DoneSession(c)
      /\ pool' = pool \cup ({call[c].buf} \ {None})
      /\ worker' = [worker EXCEPT ![c] = "out"]
      /\ UNCHANGED <<content, inside, conn, queued, running, closePC, closer>>
  BY DEF Return, DoneSession
<1>3. IInv'
  BY <1>2, IInvNext DEF LBInv, Next, Calls
<1>4. PICK x : x = IF reader[c] = "reading" THEN "late" ELSE reader[c]
  OBVIOUS
<1>5. PICK b : b = IF reader[c] = "reading" THEN call[c].buf ELSE None
  OBVIOUS
<1>6. PICK h : h = call[c]
  OBVIOUS
<1>7. PICK g : g = [h EXCEPT !.pc = "end", !.buf = b]
  OBVIOUS
<1>8. call' = [call EXCEPT ![c] = g]
  BY <1>1, <1>5, <1>6, <1>7 DEF Return
<1>9. IsRecord(h)
  BY <1>1, <1>6
<1>10. IsRecord(g)
  BY <1>7, <1>9 DEF IsRecord
<1>11. /\ g.pc = "end" /\ g.started = h.started /\ g.ctx = h.ctx
       /\ g.committed = h.committed /\ g.ret = h.ret /\ g.ended = h.ended
  BY <1>7, <1>9 DEF IsRecord, FieldNames
<1>12. /\ call' = [d \in Calls |-> call'[d]] /\ call'[c] = g
       /\ \A d \in Calls : d # c => call'[d] = call[d]
  BY <1>1, <1>8, OneCallChanges
<1>13. /\ worker \in [Calls -> WorkerState]
       /\ reader \in [Calls -> {"idle", "reading", "done", "failed", "late", "gone"}]
       /\ pool \subseteq Bufs /\ LBTypeOK /\ \A d \in Calls : CallInv(d)
  BY DEF LBInv, LBTypeOK, TypeOK, Calls
<1>14. reader' = [reader EXCEPT ![c] = x]
  BY <1>4, <1>13 DEF Return
<1>15. /\ reader'[c] = x /\ \A d \in Calls : d # c => reader'[d] = reader[d]
       /\ worker'[c] = "out" /\ \A d \in Calls : d # c => worker'[d] = worker[d]
       /\ reader' \in [Calls -> {"idle", "reading", "done", "failed", "late", "gone"}]
  BY <1>2, <1>4, <1>13, <1>14
<1>16. call[c].buf # None => call[c].buf \in Bufs /\ content[call[c].buf] # "unallocated"
  BY <1>1, <1>2 DEF CallInv, Holds, Within
<1>17. Gauges' /\ queued' \in Nat /\ running' \in Nat
  <2>1. queued' = queued + Count(g.pc = "body") - Count(call[c].pc = "body")
    BY <1>1, <1>2, <1>11 DEF Count
  <2>2. running' = running + Count(g.pc \in Forwarding) - Count(call[c].pc \in Forwarding)
    BY <1>1, <1>2, <1>11 DEF Count, Forwarding
  <2>3. Gauges
    BY DEF LBInv
  <2> QED BY <1>1, <1>8, <2>1, <2>2, <2>3, GaugesFollow
<1>18. LBTypeOK'
  BY <1>2, <1>3, <1>13, <1>15, <1>16, <1>17 DEF LBTypeOK, IInv
<1>19. ASSUME NEW d \in Calls PROVE CallInv(d)'
  <2>1. CASE d # c
    BY <1>2, <1>12, <1>13, <1>15, <2>1 DEF CallInv, Holds
  <2>2. CASE d = c
    <3>1. Staged(g, x, "out")
      BY <1>4, <1>10, <1>11 DEF Staged, Pcs, Within, Forwarding
    <3>2. Accounted(g) /\ Answered(g)
      BY <1>1, <1>2, <1>6, <1>11 DEF CallInv, Accounted, Answered, Forwarding
    <3> QED BY <1>11, <1>12, <1>15, <2>2, <3>1, <3>2 DEF CallInv, Holds, Within
  <2> QED BY <2>1, <2>2
<1>20. InTurn' /\ PoolAllocated'
  BY <1>2, <1>16 DEF LBInv, InTurn, PoolAllocated
<1>21. ASSUME NoneLate', NEW d \in Calls PROVE Owned(d)'
  <2>1. NoneLate
    BY <1>4, <1>15, <1>21 DEF NoneLate
  <2>2. \A e \in Calls : Owned(e)
    BY <2>1 DEF LBInv, Exclusive
  <2>3. CASE d = c
    BY <1>11, <1>12, <2>3 DEF Owned, Within
  <2>4. CASE d # c
    <3>1. call[d].pc \in Within /\ call[d].buf # None => call[d].buf # call[c].buf
      BY <1>2, <2>2, <2>4 DEF Owned, Within
    <3>2. \A e \in Calls : call'[e].pc \in Within => call[e].pc \in Within /\ call'[e] = call[e]
      BY <1>11, <1>12 DEF Within
    <3> QED BY <1>2, <1>12, <1>15, <2>2, <2>4, <3>1, <3>2 DEF Owned
  <2> QED BY <2>3, <2>4
<1> QED BY <1>3, <1>12, <1>17, <1>18, <1>19, <1>20, <1>21 DEF LBInv, Exclusive

LEMMA CallInvStep == ASSUME LBInv, NEW c \in Calls, callStep(c) PROVE LBInv'
  BY SubmitInv, ReaderInv, CtxEndsInv, BeforePlacementInv, TryRunnerInv, TriedInv,
     PassEndsInv, PlacerTimeoutInv, ReturnInv DEF callStep

-----------------------------------------------------------------------------
(* Close.                                                                  *)

(* Steps of Close leave the calls alone. *)
LEMMA CallsAlone ==
  ASSUME LBInv, UNCHANGED <<call, reader, content, pool, queued, running, worker>>
  PROVE  /\ call' = [c \in Calls |-> call'[c]]
         /\ \A c \in Calls : CallInv(c)'
         /\ Gauges' /\ PoolAllocated' /\ Exclusive'
<1>1. \A c \in Calls : CallInv(c)'
  BY DEF LBInv, CallInv, Holds
<1>2. Gauges' /\ PoolAllocated'
  BY DEF LBInv, Gauges, Waiting, Forwarded, PoolAllocated
<1>3. Exclusive'
  BY DEF LBInv, Exclusive, NoneLate, Owned
<1> QED BY <1>1, <1>2, <1>3 DEF LBInv

LEMMA CloserIsOne == Closer \in Closers
  BY LBAssumption

LEMMA CloseInv == ASSUME LBInv, Close \/ CloseDrains PROVE LBInv'
<1>1. /\ UNCHANGED <<call, reader, content, pool, inside, conn, queued, running, worker>>
      /\ closePC' = closePC \/ (closePC = 0 /\ closePC' = 1)
  BY DEF Close, CloseDrains, lbVars, CloseGroupNB, CloseGroup, CloseGroupWoken
<1>2. Next
  BY CloserIsOne DEF Close, CloseDrains, Next
<1>3. IInv'
  BY <1>2, IInvNext DEF LBInv
<1>4. Len(RunnerSeq) \in Nat /\ Len(RunnerSeq) > 0
  BY LBAssumption
<1>5. LBTypeOK'
  BY <1>1, <1>3, <1>4 DEF LBInv, LBTypeOK, IInv
<1>6. InTurn'
  <2>1. closer[Closer] = "returned" => ~Close /\ ~CloseDrains
    BY DEF Close, CloseDrains, CloseGroupNB, CloseGroup, CloseGroupWoken
  <2>2. closePC # Len(RunnerSeq) + 2
    BY <2>1 DEF LBInv, InTurn
  <2>3. closePC' # Len(RunnerSeq) + 2
    BY <1>1, <1>4, <2>2
  <2>4. closePC \in 0 .. Len(RunnerSeq) + 2
    BY DEF LBInv, LBTypeOK
  <2>5. \A i \in 1 .. Len(RunnerSeq) : i < closePC' => i < closePC
    BY <1>1, <1>4, <2>4
  <2> QED BY <1>1, <2>3, <2>5 DEF LBInv, InTurn
<1> QED BY <1>1, <1>3, <1>5, <1>6, CallsAlone DEF LBInv

LEMMA RunnersCloseInv ==
  ASSUME LBInv, RunnerCloseBegins \/ RunnerClosed \/ CloseReturnsNow PROVE LBInv'
<1>1. UNCHANGED <<wgVars, call, reader, content, pool, inside, queued, running>>
  BY DEF RunnerCloseBegins, RunnerClosed, CloseReturnsNow
<1>2. IInv'
  BY <1>1, IInvNext DEF LBInv, wgVars, vars
<1>3. /\ Len(RunnerSeq) \in Nat /\ Len(RunnerSeq) > 0
      /\ \A i \in 1 .. Len(RunnerSeq) : RunnerSeq[i] \in Runners
  BY LBAssumption
<1>4. /\ closePC \in 0 .. Len(RunnerSeq) + 2
      /\ conn \in [Runners -> {"open", "closing", "closed"}]
      /\ \A i \in 1 .. Len(RunnerSeq) : i < closePC => conn[RunnerSeq[i]] = "closed"
      /\ \A r \in Runners : conn[r] = "closed" => inside[r] = {}
  BY DEF LBInv, LBTypeOK, InTurn
<1>5. UNCHANGED <<call, reader, content, pool, queued, running, worker, inside, closer>>
  BY <1>1 DEF wgVars
<1>6. /\ conn' \in [Runners -> {"open", "closing", "closed"}]
      /\ closePC' \in 0 .. Len(RunnerSeq) + 2 /\ InTurn'
  <2>1. CASE RunnerCloseBegins
    <3>1. /\ closePC \in 1 .. Len(RunnerSeq) /\ closePC' = closePC
          /\ conn[RunnerSeq[closePC]] = "open"
          /\ conn' = [conn EXCEPT ![RunnerSeq[closePC]] = "closing"]
      BY <2>1 DEF RunnerCloseBegins
    <3>2. /\ conn' \in [Runners -> {"open", "closing", "closed"}]
          /\ \A r \in Runners : conn[r] = "closed" <=> conn'[r] = "closed"
      BY <1>3, <1>4, <3>1
    <3>3. \A i \in 1 .. Len(RunnerSeq) : i < closePC' => conn'[RunnerSeq[i]] = "closed"
      BY <1>3, <1>4, <3>1, <3>2
    <3> QED BY <1>3, <1>4, <1>5, <3>1, <3>2, <3>3 DEF InTurn
  <2>2. CASE RunnerClosed
    <3>1. /\ closePC \in 1 .. Len(RunnerSeq) /\ closePC' = closePC + 1
          /\ inside[RunnerSeq[closePC]] = {}
          /\ conn' = [conn EXCEPT ![RunnerSeq[closePC]] = "closed"]
      BY <2>2 DEF RunnerClosed, runnerDrained
    <3>2. /\ conn' \in [Runners -> {"open", "closing", "closed"}]
          /\ conn'[RunnerSeq[closePC]] = "closed"
          /\ \A r \in Runners : conn[r] = "closed" => conn'[r] = "closed"
          /\ \A r \in Runners : conn'[r] = "closed" => conn[r] = "closed" \/ r = RunnerSeq[closePC]
      BY <1>3, <1>4, <3>1
    <3>3. ASSUME NEW i \in 1 .. Len(RunnerSeq), i < closePC' PROVE conn'[RunnerSeq[i]] = "closed"
      <4>1. i = closePC \/ i < closePC
        BY <1>4, <3>1, <3>3
      <4> QED BY <1>3, <1>4, <3>2, <4>1
    <3>4. \A r \in Runners : conn'[r] = "closed" => inside'[r] = {}
      BY <1>4, <1>5, <3>1, <3>2
    <3> QED BY <1>3, <3>1, <3>2, <3>3, <3>4 DEF InTurn
  <2>3. CASE CloseReturnsNow
    <3>1. /\ closePC = Len(RunnerSeq) + 1 /\ closePC' = closePC + 1
          /\ closer[Closer] = "returned" /\ conn' = conn
      BY <2>3 DEF CloseReturnsNow
    <3>2. \A i \in 1 .. Len(RunnerSeq) : i < closePC' => conn'[RunnerSeq[i]] = "closed"
      BY <1>3, <1>4, <3>1
    <3> QED BY <1>3, <1>4, <1>5, <3>1, <3>2 DEF InTurn
  <2> QED BY <2>1, <2>2, <2>3
<1>7. LBTypeOK'
  BY <1>2, <1>5, <1>6 DEF LBInv, LBTypeOK, IInv
<1> QED BY <1>2, <1>5, <1>6, <1>7, CallsAlone DEF LBInv

-----------------------------------------------------------------------------
LEMMA LBInvInit == LBInit => LBInv
<1> SUFFICES ASSUME LBInit PROVE LBInv
  OBVIOUS
<1>1. IInv
  BY IInvInit DEF LBInit
<1>2. \A c \in Calls : call[c] = NewCall /\ worker[c] = "out" /\ reader[c] = "idle"
  BY DEF LBInit, Init, Calls
<1>3. call = [c \in Calls |-> call[c]]
  BY DEF LBInit
<1>4. \A c \in Calls : CallInv(c)
  <2>1. Staged(NewCall, "idle", "out")
    BY NewCallRecord DEF Staged, NewCall, Pcs, Within, Forwarding
  <2>2. Accounted(NewCall) /\ Answered(NewCall) /\ Holds(NewCall)
    BY DEF Accounted, Answered, Holds, NewCall, Within, Forwarding, CtxState
  <2> QED BY <1>2, <2>1, <2>2 DEF CallInv
<1>5. Gauges
  <2>1. Waiting = {} /\ Forwarded = {}
    BY <1>2 DEF Waiting, Forwarded, Forwarding, NewCall
  <2>2. Cardinality(Waiting) = 0 /\ Cardinality(Forwarded) = 0
    BY <2>1, FS_EmptySet
  <2> QED BY <2>2 DEF Gauges, LBInit
<1>6. Len(RunnerSeq) \in Nat
  BY LBAssumption
<1>7. LBTypeOK
  BY <1>1, <1>6 DEF IInv, LBTypeOK, LBInit
<1>8. InTurn /\ PoolAllocated
  BY <1>6 DEF LBInit, InTurn, PoolAllocated
<1>9. Exclusive
  BY <1>2 DEF Exclusive, Owned, NewCall, Within
<1> QED BY <1>1, <1>3, <1>4, <1>5, <1>7, <1>8, <1>9 DEF LBInv

LEMMA LBInvNext == LBInv /\ [LBNext]_allVars => LBInv'
<1> SUFFICES ASSUME LBInv, [LBNext]_allVars PROVE LBInv'
  OBVIOUS
<1>1. CASE UNCHANGED allVars
  <2>1. UNCHANGED <<call, reader, content, pool, inside, conn, queued, running, closePC,
                    worker, closer>> /\ UNCHANGED vars
    BY <1>1 DEF allVars, lbVars, wgVars, vars
  <2>2. IInv'
    BY <2>1, IInvNext DEF LBInv
  <2>3. LBTypeOK' /\ InTurn'
    BY <2>1, <2>2 DEF LBInv, LBTypeOK, IInv, InTurn
  <2> QED BY <2>1, <2>2, <2>3, CallsAlone DEF LBInv
<1> QED BY <1>1, CallInvStep, CloseInv, RunnersCloseInv DEF LBNext

LEMMA LBInvAlways == LBSpec => []LBInv
BY LBInvInit, LBInvNext, PTL DEF LBSpec

(* The states of the agent, its gate, its buffers and its runners keep     *)
(* their types, and neither gauge is ever decremented below zero.          *)
THEOREM LBTyped == LBSpec => []LBTypeOK
<1>1. LBInv => LBTypeOK
  BY DEF LBInv
<1> QED BY <1>1, LBInvAlways, PTL

(* When Close returns no call is left, the gauges are at zero, AfterCall    *)
(* was fired once for each forwarded call, and every runner is closed; no   *)
(* connection is closed under a TryExec.                                    *)
THEOREM LBCloseIsIdle == LBSpec => []ClosedMeansIdle
<1>1. ASSUME LBInv PROVE ClosedMeansIdle
  <2>1. \A r \in Runners : conn[r] = "closed" => inside[r] = {}
    BY <1>1 DEF LBInv, InTurn
  <2>2. ASSUME closePC = Len(RunnerSeq) + 2
        PROVE  /\ \A c \in Calls :
                    \/ call[c].pc = "new"
                    \/ call[c].pc = "end" /\ call[c].ended = IF call[c].started THEN 1 ELSE 0
               /\ queued = 0 /\ running = 0
               /\ \A r \in Runners : conn[r] = "closed"
    <3>1. Open = {}
      BY <1>1, <2>2, CloserIsOne DEF LBInv, InTurn, IInv, DrainedOnReturn
    <3>2. \A c \in Calls : CallInv(c) /\ worker[c] # "in"
      BY <1>1, <3>1 DEF LBInv, Open, Calls
    <3>3. \A c \in Calls : call[c].pc \in {"new", "end"}
      BY <3>2 DEF CallInv, Staged, Within, Pcs
    <3>4. \A c \in Calls : call[c].pc = "end" => call[c].ended = IF call[c].started THEN 1 ELSE 0
      BY <3>2 DEF CallInv, Accounted
    <3>5. Waiting = {} /\ Forwarded = {}
      BY <3>3 DEF Waiting, Forwarded, Forwarding
    <3>6. Cardinality(Waiting) = 0 /\ Cardinality(Forwarded) = 0
      BY <3>5, FS_EmptySet
    <3>7. queued = 0 /\ running = 0
      BY <1>1, <3>6 DEF LBInv, Gauges
    <3>8. Len(RunnerSeq) \in Nat /\ DOMAIN RunnerSeq = 1 .. Len(RunnerSeq)
      BY LBAssumption
    <3>9. \A i \in 1 .. Len(RunnerSeq) : conn[RunnerSeq[i]] = "closed"
      BY <1>1, <2>2, <3>8 DEF LBInv, InTurn
    <3>10. \A r \in Runners : conn[r] = "closed"
      BY <3>8, <3>9 DEF Runners
    <3> QED BY <3>3, <3>4, <3>7, <3>10
  <2> QED BY <2>1, <2>2 DEF ClosedMeansIdle
<1> QED BY <1>1, LBInvAlways, PTL

(* A call answered "server busy" was not committed to by any runner.        *)
THEOREM LBBusyWasNotRun == LBSpec => []BusyWasNotRun
<1>1. LBInv => BusyWasNotRun
  BY DEF LBInv, BusyWasNotRun, CallInv, Answered
<1> QED BY <1>1, LBInvAlways, PTL

(* As long as no reader outlived its call, a runner is sent the body of     *)
(* the call's own client.                                                   *)
THEOREM LBBodyIntact == LBSpec => []BodyIntact
<1>1. ASSUME LBInv PROVE BodyIntact
  <2>1. ASSUME NEW c \in Calls, call[c].pc \in Forwarding, call[c].buf # None, NoneLate
        PROVE  content[call[c].buf] = c
    <3>1. Owned(c) /\ CallInv(c)
      BY <1>1, <2>1 DEF LBInv, Exclusive
    <3> QED BY <2>1, <3>1 DEF Owned, CallInv, Staged, Within, Forwarding
  <2> QED BY <2>1 DEF BodyIntact, NoneLate, Forwarding
<1> QED BY <1>1, LBInvAlways, PTL

(* The agent uses its gate as WaitGroup says it may be used: every step is  *)
(* a step of WaitGroup on a.shutWg or leaves it alone.                      *)
THEOREM LBUsesWaitGroup == LBSpec => Spec
<1>1. LBInit => Init
  BY DEF LBInit
<1>2. ASSUME [LBNext]_allVars PROVE [Next]_vars
  <2>1. CASE UNCHANGED allVars
    BY <2>1 DEF allVars, wgVars, vars
  <2>2. CASE Close \/ CloseDrains
    BY <2>2, CloserIsOne DEF Close, CloseDrains, Next
  <2>3. CASE RunnerCloseBegins \/ RunnerClosed \/ CloseReturnsNow
    BY <2>3 DEF RunnerCloseBegins, RunnerClosed, CloseReturnsNow, wgVars, vars
  <2>4. ASSUME NEW c \in Calls, callStep(c) PROVE [Next]_vars
    <3>1. CASE Submit(c) \/ Return(c)
      BY <3>1 DEF Submit, Return, Next, Calls
    <3>2. CASE ~(Submit(c) \/ Return(c))
      BY <2>4, <3>2 DEF callStep, readBody, readBodyFails, CtxEnds, setRequestBodyFails,
            Start, TryRunner, NotPlaced, Placed, RetryAll, GiveUp, PlacerTimeout, wgVars, vars
    <3> QED BY <3>1, <3>2
  <2> QED BY <1>2, <2>1, <2>2, <2>3, <2>4 DEF LBNext
<1> QED BY <1>1, <1>2, PTL DEF LBSpec, Spec
=============================================================================
