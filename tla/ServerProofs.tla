----------------------------- MODULE ServerProofs -----------------------------
(***************************************************************************)
(* Proofs about the API server: what a client is sent of a pooled buffer   *)
(* (FrontEnd); what a load test has done when it reports (LoadTest); the   *)
(* schema that servers starting together, failing and being killed leave   *)
(* behind (Migrations); and the rows that concurrent requests leave in the *)
(* tables (Datastore).                                                     *)
(***************************************************************************)
EXTENDS FrontEnd, Datastore, SequenceTheorems, FiniteSetTheorems, TLAPS

-----------------------------------------------------------------------------
(* The pooled buffers                                                       *)

Ways == {"none", "invoke", "detached", "spike", "panics", "task"}
CallRecord ==
  [pc : {"idle", "lookup", "submit", "copy", "ok", "failed", "panicked"}, way : Ways,
   buf : Bufs \cup {NoBuf}, got : SUBSET Calls, late : BOOLEAN]

InvokeTypes ==
  /\ call \in [Calls -> CallRecord] /\ content \in [Bufs -> SUBSET Calls]
  /\ pool \in SUBSET Bufs /\ writing \in SUBSET [call : Calls, buf : Bufs]
  /\ \A c \in Calls : Active(c) => call[c].buf \in Bufs

(* Whoever holds a buffer, a call between Get and its return or a writer    *)
(* that a call left behind, keeps it from the pool and from everyone else.  *)
BuffersApart ==
  /\ \A w \in writing : w.buf \notin pool
  /\ \A c \in Calls : Active(c) =>
       /\ call[c].buf \notin pool
       /\ \A w \in writing : w.buf # call[c].buf
       /\ \A d \in Calls : Active(d) /\ call[d].buf = call[c].buf => d = c

(* So a call's buffer has its own output, and that only. *)
HoldsOwn ==
  \A c \in Calls :
    /\ call[c].pc = "submit" => content[call[c].buf] = {}
    /\ call[c].pc = "copy" /\ call[c].way # "detached" => content[call[c].buf] = {c}
    /\ call[c].pc = "ok" /\ call[c].way \in {"invoke", "task"} => call[c].got = {c}

InvokeInv == InvokeTypes /\ (NoLateTask => BuffersApart /\ HoldsOwn)

LEMMA CallMoves ==
  ASSUME InvokeInv, NEW c \in Calls, NEW x \in CallRecord,
         call' = [call EXCEPT ![c] = x], call[c].late => x.late
  PROVE  /\ call' \in [Calls -> CallRecord] /\ call'[c] = x
         /\ \A d \in Calls \ {c} : call'[d] = call[d] /\ (Active(d)' <=> Active(d))
         /\ NoLateTask' => NoLateTask /\ ~x.late
         /\ Active(c)' <=> x.pc \in {"submit", "copy"}
<1>1. call \in [Calls -> CallRecord]
  BY DEF InvokeInv, InvokeTypes
<1>2. /\ call' \in [Calls -> CallRecord] /\ call'[c] = x
      /\ \A d \in Calls \ {c} : call'[d] = call[d]
  BY <1>1
<1> QED BY <1>1, <1>2 DEF NoLateTask, Active

(* Start only takes buffers away from calls, which harms nobody. *)
LEMMA StartInv ==
  ASSUME InvokeInv, NEW cs, NEW way \in Ways, Start(cs, way), UNCHANGED <<content, pool, writing>>
  PROVE  InvokeInv'
<1>1. /\ call \in [Calls -> CallRecord] /\ content \in [Bufs -> SUBSET Calls]
      /\ pool \in SUBSET Bufs /\ writing \in SUBSET [call : Calls, buf : Bufs]
      /\ \A c \in Calls : Active(c) => call[c].buf \in Bufs
  BY DEF InvokeInv, InvokeTypes
<1>2. \A c \in Calls : call[c].late \in BOOLEAN
  BY <1>1 DEF CallRecord
<1>3. ASSUME NEW c \in Calls
      PROVE  \/ call'[c] = call[c]
             \/ call'[c] = [pc |-> "lookup", way |-> way, buf |-> NoBuf, got |-> {}, late |-> call[c].late]
  <2>1. PICK x : x = [NoCall EXCEPT !.pc = "lookup", !.way = way, !.late = call[c].late]
    OBVIOUS
  <2>2. x = [pc |-> "lookup", way |-> way, buf |-> NoBuf, got |-> {}, late |-> call[c].late]
    BY <2>1 DEF NoCall
  <2>3. call'[c] = x \/ call'[c] = call[c]
    BY <2>1 DEF Start
  <2> QED BY <2>2, <2>3
<1>4. ASSUME NEW c \in Calls
      PROVE  call'[c] \in CallRecord /\ call'[c].late = call[c].late
             /\ (call'[c] = call[c] \/ call'[c].pc = "lookup")
  <2>1. CASE call'[c] = call[c]
    BY <1>1, <2>1
  <2>2. CASE call'[c] # call[c]
    <3>1. PICK x : x = [pc |-> "lookup", way |-> way, buf |-> NoBuf, got |-> {}, late |-> call[c].late]
      OBVIOUS
    <3>2. x \in CallRecord /\ x.late = call[c].late /\ x.pc = "lookup"
      BY <1>2, <3>1 DEF CallRecord
    <3> QED BY <1>3, <2>2, <3>1, <3>2
  <2> QED BY <2>1, <2>2
<1>5. call' \in [Calls -> CallRecord]
  <2>1. call' = [c \in Calls |-> call'[c]]
    BY DEF Start
  <2> QED BY <1>4, <2>1
<1>6. (NoLateTask' => NoLateTask) /\ \A c \in Calls : Active(c)' => Active(c) /\ call'[c] = call[c]
  BY <1>4 DEF NoLateTask, Active
<1>7. InvokeTypes'
  BY <1>1, <1>5, <1>6 DEF InvokeTypes
<1>8. ASSUME NoLateTask' PROVE BuffersApart' /\ HoldsOwn'
  <2>1. BuffersApart /\ HoldsOwn
    BY <1>6, <1>8 DEF InvokeInv
  <2>2. BuffersApart'
    BY <1>6, <2>1 DEF BuffersApart
  <2>3. HoldsOwn'
    BY <1>4, <2>1 DEF HoldsOwn
  <2> QED BY <2>2, <2>3
<1> QED BY <1>7, <1>8 DEF InvokeInv

LEMMA GetIsFree ==
  ASSUME InvokeInv, NEW b \in Get
  PROVE  /\ b \in Bufs
         /\ NoLateTask => /\ \A c \in Calls : Active(c) => call[c].buf # b
                          /\ \A w \in writing : w.buf # b
<1>1. CASE b \in pool
  BY <1>1 DEF InvokeInv, InvokeTypes, BuffersApart
<1>2. CASE b \notin pool
  <2>1. b \in Unheld
    BY <1>2 DEF Get
  <2> QED BY <2>1 DEF Unheld
<1> QED BY <1>1, <1>2

LEMMA GetCallInv ==
  ASSUME InvokeInv, NEW c \in Calls, GetCall(c)
  PROVE  InvokeInv'
<1>1. /\ call \in [Calls -> CallRecord] /\ content \in [Bufs -> SUBSET Calls]
      /\ pool \in SUBSET Bufs /\ writing \in SUBSET [call : Calls, buf : Bufs]
      /\ \A d \in Calls : Active(d) => call[d].buf \in Bufs
  BY DEF InvokeInv, InvokeTypes
<1>2. PICK h \in CallRecord : h = call[c]
  BY <1>1
<1>3. PICK b \in Get :
        /\ content' = [content EXCEPT ![b] = {}]
        /\ \/ /\ call' = [call EXCEPT ![c].pc = "submit", ![c].buf = b]
              /\ pool' = pool \ {b}
           \/ /\ call' = [call EXCEPT ![c].pc = "failed"]
              /\ pool' = IF call[c].way = "task" THEN pool \cup {b} ELSE pool \ {b}
  BY DEF GetCall
<1>4. writing' = writing /\ h.pc = "lookup"
  BY <1>2 DEF GetCall
<1>5. /\ b \in Bufs
      /\ NoLateTask => /\ \A d \in Calls : Active(d) => call[d].buf # b
                       /\ \A w \in writing : w.buf # b
  BY GetIsFree
<1>6. /\ content' \in [Bufs -> SUBSET Calls] /\ content'[b] = {}
      /\ \A e \in Bufs \ {b} : content'[e] = content[e]
      /\ pool' \in SUBSET Bufs /\ \A e \in pool' : e \in pool \/ e = b
  BY <1>1, <1>3, <1>5
<1>7. CASE call' = [call EXCEPT ![c].pc = "submit", ![c].buf = b] /\ pool' = pool \ {b}
  <2>1. PICK x : x = [h EXCEPT !.pc = "submit", !.buf = b]
    OBVIOUS
  <2>2. call' = [call EXCEPT ![c] = x]
    BY <1>1, <1>2, <1>7, <2>1
  <2>3. x \in CallRecord /\ x.pc = "submit" /\ x.buf = b /\ x.late = h.late
    BY <1>2, <1>5, <2>1 DEF CallRecord
  <2>4. /\ call' \in [Calls -> CallRecord] /\ call'[c] = x
        /\ \A d \in Calls \ {c} : call'[d] = call[d] /\ (Active(d)' <=> Active(d))
        /\ NoLateTask' => NoLateTask
    BY <1>2, <2>2, <2>3, CallMoves
  <2>5. InvokeTypes'
    BY <1>1, <1>4, <1>5, <1>6, <2>3, <2>4 DEF InvokeTypes
  <2>6. ASSUME NoLateTask' PROVE BuffersApart' /\ HoldsOwn'
    <3>1. BuffersApart /\ HoldsOwn
      BY <2>4, <2>6 DEF InvokeInv
    <3>2. BuffersApart'
      BY <1>4, <1>5, <1>7, <2>3, <2>4, <2>6, <3>1 DEF BuffersApart
    <3>3. HoldsOwn'
      BY <1>1, <1>5, <1>6, <2>3, <2>4, <2>6, <3>1 DEF HoldsOwn, Active
    <3> QED BY <3>2, <3>3
  <2> QED BY <2>5, <2>6 DEF InvokeInv
<1>8. CASE call' = [call EXCEPT ![c].pc = "failed"]
  <2>1. PICK x : x = [h EXCEPT !.pc = "failed"]
    OBVIOUS
  <2>2. call' = [call EXCEPT ![c] = x]
    BY <1>1, <1>2, <1>8, <2>1
  <2>3. x \in CallRecord /\ x.pc = "failed" /\ x.late = h.late
    BY <1>2, <2>1 DEF CallRecord
  <2>4. /\ call' \in [Calls -> CallRecord] /\ call'[c] = x
        /\ \A d \in Calls \ {c} : call'[d] = call[d] /\ (Active(d)' <=> Active(d))
        /\ NoLateTask' => NoLateTask
        /\ ~Active(c)'
    BY <1>2, <2>2, <2>3, CallMoves
  <2>5. InvokeTypes'
    BY <1>1, <1>4, <1>5, <1>6, <2>3, <2>4 DEF InvokeTypes
  <2>6. ASSUME NoLateTask' PROVE BuffersApart' /\ HoldsOwn'
    <3>1. BuffersApart /\ HoldsOwn
      BY <2>4, <2>6 DEF InvokeInv
    <3>2. BuffersApart'
      BY <1>4, <1>5, <1>6, <2>3, <2>4, <2>6, <3>1 DEF BuffersApart
    <3>3. HoldsOwn'
      BY <1>1, <1>5, <1>6, <2>3, <2>4, <2>6, <3>1 DEF HoldsOwn, Active
    <3> QED BY <3>2, <3>3
  <2> QED BY <2>5, <2>6 DEF InvokeInv
<1> QED BY <1>3, <1>7, <1>8

LEMMA LookupFailsInv ==
  ASSUME InvokeInv, NEW c \in Calls, LookupFails(c)
  PROVE  InvokeInv'
<1>1. /\ call \in [Calls -> CallRecord] /\ content \in [Bufs -> SUBSET Calls]
      /\ pool \in SUBSET Bufs /\ writing \in SUBSET [call : Calls, buf : Bufs]
      /\ \A d \in Calls : Active(d) => call[d].buf \in Bufs
  BY DEF InvokeInv, InvokeTypes
<1>2. PICK h \in CallRecord : h = call[c]
  BY <1>1
<1>3. PICK x : x = [h EXCEPT !.pc = "failed"]
  OBVIOUS
<1>4. call' = [call EXCEPT ![c] = x] /\ UNCHANGED <<content, pool, writing>>
  BY <1>1, <1>2, <1>3 DEF LookupFails
<1>5. x \in CallRecord /\ x.pc = "failed" /\ x.late = h.late
  BY <1>2, <1>3 DEF CallRecord
<1>6. /\ call' \in [Calls -> CallRecord] /\ call'[c] = x
      /\ \A d \in Calls \ {c} : call'[d] = call[d] /\ (Active(d)' <=> Active(d))
      /\ NoLateTask' => NoLateTask
      /\ ~Active(c)'
  BY <1>2, <1>4, <1>5, CallMoves
<1>7. InvokeTypes'
  BY <1>1, <1>4, <1>6 DEF InvokeTypes
<1>8. ASSUME NoLateTask' PROVE BuffersApart' /\ HoldsOwn'
  <2>1. BuffersApart /\ HoldsOwn
    BY <1>6, <1>8 DEF InvokeInv
  <2>2. BuffersApart'
    BY <1>4, <1>6, <2>1 DEF BuffersApart
  <2>3. HoldsOwn'
    BY <1>4, <1>5, <1>6, <2>1 DEF HoldsOwn
  <2> QED BY <2>2, <2>3
<1> QED BY <1>7, <1>8 DEF InvokeInv

LEMMA SubmitPanicsInv ==
  ASSUME InvokeInv, NEW c \in Calls, SubmitPanics(c)
  PROVE  InvokeInv'
<1>1. /\ call \in [Calls -> CallRecord] /\ content \in [Bufs -> SUBSET Calls]
      /\ pool \in SUBSET Bufs /\ writing \in SUBSET [call : Calls, buf : Bufs]
      /\ \A d \in Calls : Active(d) => call[d].buf \in Bufs
  BY DEF InvokeInv, InvokeTypes
<1>2. PICK h \in CallRecord : h = call[c]
  BY <1>1
<1>3. PICK x : x = [h EXCEPT !.pc = "panicked"]
  OBVIOUS
<1>4. call' = [call EXCEPT ![c] = x] /\ UNCHANGED <<content, pool, writing>>
  BY <1>1, <1>2, <1>3 DEF SubmitPanics
<1>5. x \in CallRecord /\ x.pc = "panicked" /\ x.late = h.late
  BY <1>2, <1>3 DEF CallRecord
<1>6. /\ call' \in [Calls -> CallRecord] /\ call'[c] = x
      /\ \A d \in Calls \ {c} : call'[d] = call[d] /\ (Active(d)' <=> Active(d))
      /\ NoLateTask' => NoLateTask
      /\ ~Active(c)'
  BY <1>2, <1>4, <1>5, CallMoves
<1>7. InvokeTypes'
  BY <1>1, <1>4, <1>6 DEF InvokeTypes
<1>8. ASSUME NoLateTask' PROVE BuffersApart' /\ HoldsOwn'
  <2>1. BuffersApart /\ HoldsOwn
    BY <1>6, <1>8 DEF InvokeInv
  <2>2. BuffersApart'
    BY <1>4, <1>6, <2>1 DEF BuffersApart
  <2>3. HoldsOwn'
    BY <1>4, <1>5, <1>6, <2>1 DEF HoldsOwn
  <2> QED BY <2>2, <2>3
<1> QED BY <1>7, <1>8 DEF InvokeInv

LEMMA SubmitOKInv ==
  ASSUME InvokeInv, NEW c \in Calls, SubmitOK(c)
  PROVE  InvokeInv'
<1>1. /\ call \in [Calls -> CallRecord] /\ content \in [Bufs -> SUBSET Calls]
      /\ pool \in SUBSET Bufs /\ writing \in SUBSET [call : Calls, buf : Bufs]
      /\ \A d \in Calls : Active(d) => call[d].buf \in Bufs
  BY DEF InvokeInv, InvokeTypes
<1>2. PICK h \in CallRecord : h = call[c]
  BY <1>1
<1>3. PICK x : x = [h EXCEPT !.pc = "copy"]
  OBVIOUS
<1>4. call' = [call EXCEPT ![c] = x] /\ UNCHANGED <<pool, writing>> /\ h.pc = "submit"
  BY <1>1, <1>2, <1>3 DEF SubmitOK
<1>5. x \in CallRecord /\ x.pc = "copy" /\ x.late = h.late /\ x.buf = h.buf /\ x.way = h.way
  BY <1>2, <1>3 DEF CallRecord
<1>6. /\ call' \in [Calls -> CallRecord] /\ call'[c] = x
      /\ \A d \in Calls \ {c} : call'[d] = call[d] /\ (Active(d)' <=> Active(d))
      /\ NoLateTask' => NoLateTask
      /\ Active(c)'
  BY <1>2, <1>4, <1>5, CallMoves
<1>7. Active(c) /\ h.buf \in Bufs
  BY <1>1, <1>2, <1>4 DEF Active
<1>8. /\ content' \in [Bufs -> SUBSET Calls]
      /\ \A e \in Bufs \ {h.buf} : content'[e] = content[e]
      /\ h.way # "detached" => content'[h.buf] = content[h.buf] \cup {c}
  BY <1>1, <1>2, <1>7 DEF SubmitOK
<1>9. InvokeTypes'
  BY <1>1, <1>4, <1>5, <1>6, <1>7, <1>8 DEF InvokeTypes
<1>10. ASSUME NoLateTask' PROVE BuffersApart' /\ HoldsOwn'
  <2>1. BuffersApart /\ HoldsOwn
    BY <1>6, <1>10 DEF InvokeInv
  <2>2. BuffersApart'
    BY <1>2, <1>4, <1>5, <1>6, <1>7, <2>1 DEF BuffersApart
  <2>3. content[h.buf] = {}
    BY <1>2, <1>4, <2>1 DEF HoldsOwn
  <2>4. \A d \in Calls \ {c} : Active(d) => call[d].buf # h.buf /\ content'[call[d].buf] = content[call[d].buf]
    BY <1>1, <1>2, <1>7, <1>8, <2>1 DEF BuffersApart
  <2>5. HoldsOwn'
    BY <1>5, <1>6, <1>8, <2>1, <2>3, <2>4 DEF HoldsOwn, Active
  <2> QED BY <2>2, <2>5
<1> QED BY <1>9, <1>10 DEF InvokeInv

LEMMA SubmitErrorInv ==
  ASSUME InvokeInv, NEW c \in Calls, SubmitFails(c) \/ SubmitTimesOut(c)
  PROVE  InvokeInv'
<1>1. /\ call \in [Calls -> CallRecord] /\ content \in [Bufs -> SUBSET Calls]
      /\ pool \in SUBSET Bufs /\ writing \in SUBSET [call : Calls, buf : Bufs]
      /\ \A d \in Calls : Active(d) => call[d].buf \in Bufs
  BY DEF InvokeInv, InvokeTypes
<1>2. PICK h \in CallRecord : h = call[c]
  BY <1>1
<1>3. PICK late \in BOOLEAN : /\ submitError(c, late) /\ content' = content
                              /\ \/ ~late /\ writing' = writing
                                 \/ late /\ writing' = writing \cup {[call |-> c, buf |-> h.buf]}
  BY <1>2 DEF SubmitFails, SubmitTimesOut
<1>4. PICK x : x = [h EXCEPT !.pc = "failed", !.buf = NoBuf, !.late = @ \/ (late /\ h.way = "task")]
  OBVIOUS
<1>5. call' = [call EXCEPT ![c] = x] /\ h.pc = "submit"
  BY <1>1, <1>2, <1>3, <1>4 DEF submitError
<1>6. /\ x \in CallRecord /\ x.pc = "failed" /\ (h.late => x.late)
      /\ late /\ h.way = "task" => x.late
  BY <1>2, <1>4 DEF CallRecord
<1>7. /\ call' \in [Calls -> CallRecord] /\ call'[c] = x
      /\ \A d \in Calls \ {c} : call'[d] = call[d] /\ (Active(d)' <=> Active(d))
      /\ NoLateTask' => NoLateTask /\ ~x.late
      /\ ~Active(c)'
  BY <1>2, <1>5, <1>6, CallMoves
<1>8. Active(c) /\ h.buf \in Bufs
  BY <1>1, <1>2, <1>5 DEF Active
<1>9. /\ pool' \in SUBSET Bufs /\ \A e \in pool' : e \in pool \/ (e = h.buf /\ h.way = "task")
      /\ writing' \in SUBSET [call : Calls, buf : Bufs]
      /\ \A w \in writing' : w \in writing \/ (late /\ w.buf = h.buf)
  BY <1>1, <1>2, <1>3, <1>8 DEF submitError, keptOnError
<1>10. InvokeTypes'
  BY <1>1, <1>3, <1>7, <1>9 DEF InvokeTypes
<1>11. ASSUME NoLateTask' PROVE BuffersApart' /\ HoldsOwn'
  <2>1. BuffersApart /\ HoldsOwn /\ ~(late /\ h.way = "task")
    BY <1>6, <1>7, <1>11 DEF InvokeInv
  <2>2. \A d \in Calls \ {c} : Active(d) => call[d].buf # h.buf
    BY <1>2, <1>8, <2>1 DEF BuffersApart
  <2>3. h.buf \notin pool /\ \A w \in writing : w.buf # h.buf
    BY <1>2, <1>8, <2>1 DEF BuffersApart
  <2>4. BuffersApart'
    BY <1>7, <1>9, <2>1, <2>2, <2>3 DEF BuffersApart
  <2>5. HoldsOwn'
    BY <1>3, <1>6, <1>7, <2>1 DEF HoldsOwn
  <2> QED BY <2>4, <2>5
<1> QED BY <1>10, <1>11 DEF InvokeInv

LEMMA ReplyInv ==
  ASSUME InvokeInv, NEW c \in Calls, Reply(c)
  PROVE  InvokeInv'
<1>1. /\ call \in [Calls -> CallRecord] /\ content \in [Bufs -> SUBSET Calls]
      /\ pool \in SUBSET Bufs /\ writing \in SUBSET [call : Calls, buf : Bufs]
      /\ \A d \in Calls : Active(d) => call[d].buf \in Bufs
  BY DEF InvokeInv, InvokeTypes
<1>2. PICK h \in CallRecord : h = call[c]
  BY <1>1
<1>3. PICK g : g = IF h.way \in {"invoke", "task"} THEN content[h.buf] ELSE {}
  OBVIOUS
<1>4. PICK x : x = [h EXCEPT !.pc = "ok", !.buf = NoBuf, !.got = g]
  OBVIOUS
<1>5. call' = [call EXCEPT ![c] = x] /\ h.pc = "copy" /\ writing' = writing
  BY <1>1, <1>2, <1>3, <1>4 DEF Reply
<1>6. Active(c) /\ h.buf \in Bufs
  BY <1>1, <1>2, <1>5 DEF Active
<1>7. /\ x \in CallRecord /\ x.pc = "ok" /\ x.late = h.late /\ x.way = h.way /\ x.got = g
  BY <1>1, <1>2, <1>3, <1>4, <1>6 DEF CallRecord
<1>8. /\ call' \in [Calls -> CallRecord] /\ call'[c] = x
      /\ \A d \in Calls \ {c} : call'[d] = call[d] /\ (Active(d)' <=> Active(d))
      /\ NoLateTask' => NoLateTask
      /\ ~Active(c)'
  BY <1>2, <1>5, <1>7, CallMoves
<1>9. /\ content' \in [Bufs -> SUBSET Calls]
      /\ \A e \in Bufs \ {h.buf} : content'[e] = content[e]
      /\ pool' \in SUBSET Bufs /\ \A e \in pool' : e \in pool \/ e = h.buf
  BY <1>1, <1>2, <1>6 DEF Reply
<1>10. InvokeTypes'
  BY <1>1, <1>5, <1>8, <1>9 DEF InvokeTypes
<1>11. ASSUME NoLateTask' PROVE BuffersApart' /\ HoldsOwn'
  <2>1. BuffersApart /\ HoldsOwn
    BY <1>8, <1>11 DEF InvokeInv
  <2>2. \A d \in Calls \ {c} : Active(d) => call[d].buf # h.buf /\ content'[call[d].buf] = content[call[d].buf]
    BY <1>1, <1>2, <1>6, <1>9, <2>1 DEF BuffersApart
  <2>3. \A w \in writing : w.buf # h.buf
    BY <1>2, <1>6, <2>1 DEF BuffersApart
  <2>4. BuffersApart'
    BY <1>5, <1>8, <1>9, <2>1, <2>2, <2>3 DEF BuffersApart
  <2>5. h.way \in {"invoke", "task"} => g = {c}
    BY <1>2, <1>3, <1>5, <2>1 DEF HoldsOwn
  <2>6. HoldsOwn'
    BY <1>7, <1>8, <2>1, <2>2, <2>5 DEF HoldsOwn, Active
  <2> QED BY <2>4, <2>6
<1> QED BY <1>10, <1>11 DEF InvokeInv

LEMMA LateInv ==
  ASSUME InvokeInv, NEW w \in writing, LateWrite(w) \/ LateWriterEnds(w)
  PROVE  InvokeInv'
<1>1. /\ call \in [Calls -> CallRecord] /\ content \in [Bufs -> SUBSET Calls]
      /\ pool \in SUBSET Bufs /\ writing \in SUBSET [call : Calls, buf : Bufs]
      /\ \A d \in Calls : Active(d) => call[d].buf \in Bufs
  BY DEF InvokeInv, InvokeTypes
<1>2. w.call \in Calls /\ w.buf \in Bufs
  BY <1>1
<1>3. /\ UNCHANGED <<call, pool>> /\ writing' \in SUBSET writing
      /\ content' \in [Bufs -> SUBSET Calls]
      /\ \A e \in Bufs \ {w.buf} : content'[e] = content[e]
  BY <1>1, <1>2 DEF LateWrite, LateWriterEnds
<1>4. InvokeTypes'
  BY <1>1, <1>3 DEF InvokeTypes, Active
<1>5. ASSUME NoLateTask' PROVE BuffersApart' /\ HoldsOwn'
  <2>1. BuffersApart /\ HoldsOwn
    BY <1>3, <1>5 DEF InvokeInv, NoLateTask
  <2>2. BuffersApart'
    BY <1>3, <2>1 DEF BuffersApart, Active
  <2>3. \A d \in Calls : Active(d) => content'[call[d].buf] = content[call[d].buf]
    BY <1>1, <1>3, <2>1 DEF BuffersApart
  <2>4. HoldsOwn'
    BY <1>3, <2>1, <2>3 DEF HoldsOwn, Active
  <2> QED BY <2>2, <2>4
<1> QED BY <1>4, <1>5 DEF InvokeInv

LEMMA InvokeKept ==
  ASSUME InvokeInv, UNCHANGED invokeVars
  PROVE  InvokeInv'
<1>1. UNCHANGED <<call, content, pool, writing>>
  BY DEF invokeVars
<1> QED BY <1>1 DEF InvokeInv, InvokeTypes, NoLateTask, BuffersApart, HoldsOwn, Active

(* A state machine and a load test touch the calls by Start only. *)
LEMMA MachineInv ==
  ASSUME InvokeInv, SMNext
  PROVE  InvokeInv'
<1>1. PICK e \in Execs : ExecStep(e)
  BY DEF SMNext
<1>2. CASE handleTask(e)
  BY <1>2, StartInv DEF handleTask, Ways
<1>3. CASE unknown(e) \/ nilState(e) \/ taskReturns(e)
  BY <1>3, InvokeKept DEF unknown, nilState, taskReturns
<1>4. CASE handleParallel(e) \/ joined(e)
  BY <1>4, InvokeKept DEF handleParallel, joined
<1>5. CASE recvResult(e) \/ recvError(e)
  BY <1>5, InvokeKept DEF recvResult, recvError
<1> QED BY <1>1, <1>2, <1>3, <1>4, <1>5 DEF ExecStep

LEMMA LoadInv ==
  ASSUME InvokeInv, LTNext
  PROVE  InvokeInv'
<1>1. CASE launch \/ report \/ headersRace \/ benchmarkEnds
  BY <1>1, InvokeKept DEF launch, report, headersRace, benchmarkEnds
<1>2. CASE startWorkers
  BY <1>2, StartInv DEF startWorkers, Ways
<1>3. ASSUME NEW w \in Waves, WaveStep(w) PROVE InvokeInv'
  <2>1. CASE sendBatch(w)
    BY <2>1, StartInv DEF sendBatch, spikeWay, Ways
  <2>2. CASE waveEnds(w)
    BY <2>2, InvokeKept DEF waveEnds
  <2>3. ASSUME NEW q \in 0 .. MaxPerMinute - 1, callDone(w, q) PROVE InvokeInv'
    BY <2>3, InvokeKept DEF callDone
  <2> QED BY <1>3, <2>1, <2>2, <2>3 DEF WaveStep
<1>4. ASSUME NEW w \in DOMAIN worker, WorkerStep(w) PROVE InvokeInv'
  <2>1. CASE loop(w)
    <3>1. UNCHANGED <<content, pool, writing>> /\ (UNCHANGED call \/ Start({w}, "task"))
      BY <2>1 DEF loop
    <3> QED BY <3>1, StartInv, InvokeKept DEF Ways, invokeVars
  <2>2. CASE gather(w)
    BY <2>2, InvokeKept DEF gather
  <2> QED BY <1>4, <2>1, <2>2 DEF WorkerStep
<1> QED BY <1>1, <1>2, <1>3, <1>4 DEF LTNext

LEMMA InvokeInvAlways == FrontSpec => [](scene \in Scenes /\ InvokeInv)
<1>1. FrontInit => scene \in Scenes /\ InvokeInv
  <2> SUFFICES ASSUME FrontInit PROVE scene \in Scenes /\ InvokeInv
    OBVIOUS
  <2>1. NoCall \in CallRecord
    BY DEF NoCall, CallRecord, Ways
  <2>2. /\ scene \in Scenes /\ call = [c \in Calls |-> NoCall] /\ content = [b \in Bufs |-> {}]
        /\ pool = {} /\ writing = {}
    BY DEF FrontInit, InvokeInit
  <2>3. InvokeTypes
    BY <2>1, <2>2 DEF InvokeTypes, Active, NoCall
  <2>4. BuffersApart /\ HoldsOwn
    BY <2>2 DEF BuffersApart, HoldsOwn, Active, NoCall
  <2> QED BY <2>2, <2>3, <2>4 DEF InvokeInv
<1>2. scene \in Scenes /\ InvokeInv /\ [FrontNext]_frontVars => (scene \in Scenes /\ InvokeInv)'
  <2> SUFFICES ASSUME scene \in Scenes, InvokeInv, [FrontNext]_frontVars
               PROVE  (scene \in Scenes /\ InvokeInv)'
    OBVIOUS
  <2>1. scene' = scene
    BY DEF FrontNext, frontVars
  <2>2. CASE UNCHANGED frontVars
    BY <2>2, InvokeKept DEF frontVars
  <2>3. ASSUME CallNext(Cardinality(writing) < scene.late) PROVE InvokeInv'
    <3>1. ASSUME NEW c \in Calls, CallStep(c) \/ SubmitTimesOut(c) PROVE InvokeInv'
      BY <3>1, LookupFailsInv, GetCallInv, SubmitOKInv, SubmitErrorInv, SubmitPanicsInv, ReplyInv DEF CallStep
    <3> QED BY <2>3, <3>1, LateInv DEF CallNext
  <2>4. ASSUME NEW c \in Calls, handleFnInvokeCall(c) PROVE InvokeInv'
    <3>1. scene.plain[c] \in Ways /\ Start({c}, scene.plain[c]) /\ UNCHANGED <<content, pool, writing>>
      BY <2>4, FrontEndAssumption DEF handleFnInvokeCall, Ways
    <3> QED BY <3>1, StartInv
  <2>5. CASE SMNext
    BY <2>1, <2>5, MachineInv
  <2>6. CASE LTNext
    BY <2>1, <2>6, LoadInv
  <2> QED BY <2>1, <2>2, <2>3, <2>4, <2>5, <2>6 DEF FrontNext
<1> QED BY <1>1, <1>2, PTL DEF FrontSpec

(* A client is sent the output of its own call and nothing else, for any    *)
(* number of calls, machines and load tests on the one bufPool, as long as  *)
(* no task of fnInvokeFunctionWithResult left a writer behind: fnInvoke and *)
(* fnSpike keep a buffer that may still be written to from the pool.        *)
THEOREM ClientsGetTheirOutput == FrontSpec => []OwnOutput
<1>1. InvokeInv => OwnOutput
  BY DEF InvokeInv, HoldsOwn, OwnOutput
<1> QED BY <1>1, InvokeInvAlways, PTL

-----------------------------------------------------------------------------
(* The load tests                                                           *)

WaveRecord == [pc : {"off", "sending", "done"}, sent : Nat, open : SUBSET Int, total : Nat, averaged : Nat]
WorkerRecord == [pc : {"new", "loop", "send", "gone"}, ok : Nat, bad : Nat]

LoadTypes ==
  /\ test.rows \in Seq(Nat) /\ test.count \in Nat
  /\ main \in [pc : {"run", "gather", "reported", "error", "panicked", "crashed", "raced"}, at : Nat \ {0}, ok : Nat, bad : Nat]
  /\ wave \in [Waves -> WaveRecord]
  /\ DOMAIN stored = 1 .. Minutes /\ \A m \in 1 .. Minutes : IsFiniteSet(DOMAIN stored[m])
  /\ worker \in [1 .. test.count -> WorkerRecord]

(* The place of a wave in the order the handler starts them. *)
PlaceOf(w) == (w[1] - 1) * Halves + w[2]
Launched(w) == wave[w].pc # "off"

(* A wave sends whole batches, and no call that it has not sent is open. *)
WaveSound(w) ==
  LET x == wave[w] IN
  /\ Launched(w) <=> w[2] <= Halves /\ PlaceOf(w) < main.at
  /\ ~Launched(w) => x = NoWave
  /\ Launched(w) =>
       /\ test.kind # "cache" => w[1] \in DOMAIN test.rows
       /\ test.kind # "random" => x.total = Plan(w, 1).total
       /\ \A c \in x.open : \E q \in 0 .. x.sent - 1 : c = CallOf(w, q)
       /\ x.sent <= x.total
       /\ \E k, n \in Nat : x.sent = k * BatchOf(w) /\ x.total = n * BatchOf(w)
  /\ x.pc = "done" => /\ x.open = {} /\ x.sent = x.total
                      /\ test.kind # "random" => x.averaged >= x.total

(* Once a minute has begun the cell of a call was stored to, once, if the   *)
(* call was sent and is over.                                               *)
Stored(w, q) == IF q < wave[w].sent /\ CallOf(w, q) \notin wave[w].open THEN 1 ELSE 0
CellsSound(w) ==
  Launched(<<w[1], 1>>) /\ w[2] <= Halves =>
    /\ DOMAIN stored[w[1]] = 0 .. Plan(w, 1).cells - 1
    /\ \A q \in 0 .. Plan(w, 1).total - 1 : stored[w[1]][Plan(w, 1).shift + q] = Stored(w, q)

SpikeSound ==
  /\ main.pc \in {"run", "reported", "error", "crashed", "raced"}
  /\ \A w \in Waves : WaveSound(w) /\ (test.kind # "random" => CellsSound(w))
  /\ main.pc \in {"reported", "error"} => \A w \in Waves : Counted(w) => wave[w].pc = "done"

(* The handler has gathered the workers before main.at, and added up what   *)
(* they counted: CountedBy(f, k) has one element for each call that a       *)
(* worker before k has counted.                                             *)
CountedBy(f, k) == {u \in (1 .. k - 1) \X (1 .. MaxLoops) : u[2] <= f[u[1]]}
Oks == [w \in DOMAIN worker |-> worker[w].ok]
Bads == [w \in DOMAIN worker |-> worker[w].bad]

WorkerSound(w) ==
  LET x == worker[w] IN
  /\ x.ok + x.bad <= MaxLoops /\ (x.pc = "loop" => x.ok + x.bad < MaxLoops)
  /\ main.pc = "run" => x.pc = "new" /\ x.ok = 0 /\ x.bad = 0
  /\ x.pc = "gone" <=> w < main.at

BenchSound ==
  /\ main.pc = "run" => main.at = 1
  /\ main.at <= test.count + 1 /\ (main.pc \in {"reported", "error"} => main.at = test.count + 1)
  /\ \A w \in 1 .. test.count : WorkerSound(w)
  /\ main.ok = Cardinality(CountedBy(Oks, main.at)) /\ main.bad = Cardinality(CountedBy(Bads, main.at))

(* A test that is no spike test starts no wave, one that is no benchmark    *)
(* no worker.                                                               *)
OthersIdle ==
  /\ test.kind \notin Spikes => \A w \in Waves : wave[w] = NoWave
  /\ test.kind # "benchmark" => /\ main.pc # "gather"
                               /\ \A w \in 1 .. test.count : worker[w].pc = "new"

LoadSound == /\ LoadTypes /\ OthersIdle
             /\ test.kind \in Spikes => SpikeSound
             /\ test.kind = "benchmark" => BenchSound

-----------------------------------------------------------------------------
(* Batches, cells and plans                                                 *)

LEMMA BatchFits ==
  ASSUME NEW b \in Nat, NEW k \in Nat, NEW n \in Nat, k * b < n * b
  PROVE  k * b + b <= n * b /\ k * b + b = (k + 1) * b
<1>1. k < n
  <2> SUFFICES ASSUME ~(k < n) PROVE FALSE
    OBVIOUS
  <2>1. PICK d \in Nat : k = n + d
    <3>1. k - n \in Nat /\ k = n + (k - n)
      OBVIOUS
    <3> QED BY <3>1
  <2>2. k * b = n * b + d * b /\ d * b >= 0
    BY <2>1
  <2> QED BY <2>2
<1>2. PICK e \in Nat : n = k + 1 + e
  <2>1. n - (k + 1) \in Nat /\ n = k + 1 + (n - (k + 1))
    BY <1>1
  <2> QED BY <2>1
<1>3. n * b = k * b + b + e * b /\ e * b >= 0
  BY <1>2
<1> QED BY <1>3

LEMMA Division ==
  ASSUME NEW q \in Nat, NEW b \in Nat \ {0}
  PROVE  ((q \div b) * b) + (q % b) = q /\ q \div b \in Nat
OBVIOUS

LEMMA CallNumbers ==
  ASSUME NEW w \in Waves, NEW q \in Int, NEW r \in Int
  PROVE  CallOf(w, q) \in Int /\ (CallOf(w, q) = CallOf(w, r) => q = r)
<1>1. w[1] \in Nat /\ w[2] \in Nat /\ MaxPerMinute \in Nat /\ First \in Nat
  BY LoadTestAssumption DEF Waves
<1>2. PICK base \in Int : base = (w[1] - 1) * MaxPerMinute + (w[2] - 1) * First
  BY <1>1
<1>3. CallOf(w, q) = base + q /\ CallOf(w, r) = base + r
  BY <1>2 DEF CallOf
<1> QED BY <1>3

Numbers(p) == p.total \in Nat /\ p.cells \in Nat /\ p.batch \in Nat /\ p.shift \in Nat

LEMMA SpikePlan ==
  ASSUME NEW row \in Nat
  PROVE  LET p == handleRealSpike(row) IN
         /\ Numbers(p) /\ p.shift = 0 /\ p.cells = p.total
         /\ \E n \in Nat : p.total = n * p.batch
<1>1. PICK m \in Nat : m = row \div Quarter
  BY LoadTestAssumption
<1>2. PICK each \in Nat : each = m \div Slots
  BY LoadTestAssumption
<1>3. Slots \in Nat
  BY LoadTestAssumption
<1>4. PICK p : p = handleRealSpike(row)
  OBVIOUS
<1>5. CASE m < Slots
  <2>1. p = [total |-> m, cells |-> m, batch |-> m, shift |-> 0]
    BY <1>1, <1>4, <1>5 DEF handleRealSpike
  <2>2. m = 1 * m
    OBVIOUS
  <2>3. Numbers(p) /\ p.shift = 0 /\ p.cells = p.total /\ p.total = 1 * p.batch
    BY <2>1, <2>2 DEF Numbers
  <2> QED BY <1>4, <2>3
<1>6. CASE m = Slots
  <2>1. p = [total |-> 0, cells |-> 0, batch |-> 0, shift |-> 0]
    BY <1>1, <1>3, <1>4, <1>6 DEF handleRealSpike
  <2>2. Numbers(p) /\ p.shift = 0 /\ p.cells = p.total /\ p.total = 1 * p.batch
    BY <2>1 DEF Numbers
  <2> QED BY <1>4, <2>2
<1>7. CASE ~(m < Slots) /\ m # Slots
  <2>1. p = [total |-> each * Slots, cells |-> each * Slots, batch |-> each, shift |-> 0]
    BY <1>1, <1>2, <1>4, <1>7 DEF handleRealSpike
  <2>2. each * Slots \in Nat /\ each * Slots = Slots * each
    BY <1>3
  <2>3. Numbers(p) /\ p.shift = 0 /\ p.cells = p.total /\ p.total = Slots * p.batch
    BY <2>1, <2>2 DEF Numbers
  <2> QED BY <1>3, <1>4, <2>3
<1> QED BY <1>5, <1>6, <1>7

(* What a plan of any kind says: a wave is made of whole batches, and its   *)
(* calls have cells of their own.                                           *)
LEMMA PlanFacts ==
  ASSUME test.kind \in Spikes, test.rows \in Seq(Nat), NEW w \in Waves,
         test.kind # "cache" => w[1] \in DOMAIN test.rows,
         NEW noise \in Nat
  PROVE  LET p == Plan(w, noise) IN
         /\ Numbers(p)
         /\ \E n \in Nat : p.total = n * p.batch
         /\ test.kind # "random" => p.shift + p.total <= p.cells
         /\ test.kind \notin {"random", "cache"} => p.shift = 0 /\ p.cells = p.total
         /\ test.kind = "cache" => /\ p.cells = First + Second
                                   /\ w[2] = 1 => p.shift = 0 /\ p.total = First
                                   /\ w[2] = 2 => p.shift = First /\ p.total = Second
<1>1. PICK p : p = Plan(w, noise)
  OBVIOUS
<1>2. First \in Nat /\ Second \in Nat /\ w[2] \in {1, 2}
  BY LoadTestAssumption DEF Waves
<1>3. test.kind # "cache" => test.rows[w[1]] \in Nat
  OBVIOUS
<1>4. ASSUME NEW m \in Nat, p = [total |-> m, cells |-> m, batch |-> m, shift |-> 0]
      PROVE  Numbers(p) /\ p.shift = 0 /\ p.cells = p.total /\ p.total = 1 * p.batch
  BY <1>4 DEF Numbers
<1>5. CASE test.kind = "cache"
  <2>1. p = handleCache(w[2])
    BY <1>1, <1>5 DEF Plan
  <2>2. CASE w[2] = 1
    <3>1. p = [total |-> First, cells |-> First + Second, batch |-> First, shift |-> 0]
      BY <2>1, <2>2 DEF handleCache
    <3>2. Numbers(p) /\ p.total = 1 * p.batch
      BY <1>2, <3>1 DEF Numbers
    <3>3. p.shift + p.total <= p.cells /\ p.cells = First + Second /\ p.shift = 0 /\ p.total = First
      BY <1>2, <3>1
    <3>4. \E n \in Nat : p.total = n * p.batch
      BY <3>2
    <3> QED BY <1>1, <1>5, <2>2, <3>2, <3>3, <3>4
  <2>3. CASE w[2] = 2
    <3>1. p = [total |-> Second, cells |-> First + Second, batch |-> Second, shift |-> First]
      BY <2>1, <2>3 DEF handleCache
    <3>2. Numbers(p) /\ p.total = 1 * p.batch
      BY <1>2, <3>1 DEF Numbers
    <3>3. p.shift + p.total <= p.cells /\ p.cells = First + Second /\ p.shift = First /\ p.total = Second
      BY <1>2, <3>1
    <3>4. \E n \in Nat : p.total = n * p.batch
      BY <3>2
    <3> QED BY <1>1, <1>5, <2>3, <3>2, <3>3, <3>4
  <2> QED BY <1>2, <2>2, <2>3
<1>6. CASE test.kind = "realspike"
  <2>1. p = handleRealSpike(test.rows[w[1]])
    BY <1>1, <1>6 DEF Plan
  <2>2. Numbers(p) /\ p.shift = 0 /\ p.cells = p.total /\ \E n \in Nat : p.total = n * p.batch
    BY <1>3, <1>6, <2>1, SpikePlan
  <2> QED BY <1>1, <1>6, <2>2 DEF Numbers
<1>7. CASE test.kind = "realspike2"
  <2>0. PICK row \in Nat : row = test.rows[w[1]]
    BY <1>3, <1>7
  <2>1. PICK m \in Nat : m = row \div Quarter
    <3>1. Quarter \in Nat \ {0}
      BY LoadTestAssumption
    <3>2. row \div Quarter \in Nat
      BY <3>1, Division
    <3> QED BY <3>2
  <2>2. p = [total |-> m, cells |-> m, batch |-> m, shift |-> 0]
    BY <1>1, <1>7, <2>0, <2>1 DEF Plan, handleRealSpike2
  <2>3. Numbers(p) /\ p.shift = 0 /\ p.cells = p.total /\ p.total = 1 * p.batch
    BY <1>4, <2>2
  <2> QED BY <1>1, <1>7, <2>3 DEF Numbers
<1>8. CASE test.kind = "spike"
  <2>0. PICK row \in Nat : row = test.rows[w[1]]
    BY <1>3, <1>8
  <2>1. PICK m \in Nat : m = IF row < Scale /\ row # 0 THEN 1 ELSE row \div Scale
    <3>1. Scale \in Nat \ {0}
      BY LoadTestAssumption
    <3>2. row \div Scale \in Nat
      BY <3>1, Division
    <3> QED BY <3>2
  <2>2. p = [total |-> m, cells |-> m, batch |-> m, shift |-> 0]
    BY <1>1, <1>8, <2>0, <2>1 DEF Plan, handleSpikeCall
  <2>3. Numbers(p) /\ p.shift = 0 /\ p.cells = p.total /\ p.total = 1 * p.batch
    BY <1>4, <2>2
  <2> QED BY <1>1, <1>8, <2>3 DEF Numbers
<1>9. CASE test.kind = "random"
  <2>1. PICK m \in Nat : m = IF test.rows[w[1]] = 0 THEN 0 ELSE noise
    OBVIOUS
  <2>2. p = [total |-> m, cells |-> 0, batch |-> m, shift |-> 0]
    BY <1>1, <1>9, <2>1 DEF Plan, randomInvoke
  <2>3. Numbers(p) /\ p.total = 1 * p.batch
    BY <2>2 DEF Numbers
  <2> QED BY <1>1, <1>9, <2>3
<1> QED BY <1>5, <1>6, <1>7, <1>8, <1>9 DEF Spikes

LEMMA PlanKept ==
  ASSUME test' = test, NEW w, NEW noise
  PROVE  /\ Plan(w, noise)' = Plan(w, noise) /\ Halves' = Halves /\ PlaceOf(w)' = PlaceOf(w)
         /\ Counted(w)' = Counted(w)
BY DEF Plan, Halves, PlaceOf, Counted

(* The handler starts every wave of the test once. *)
LEMMA WavePlaces ==
  /\ Halves \in {1, 2}
  /\ \A w \in Waves : w[1] \in 1 .. Minutes /\ w[2] \in {1, 2} /\ w = <<w[1], w[2]>> /\ PlaceOf(w) \in Nat \ {0}
  /\ \A m \in 1 .. Minutes : <<m, 1>> \in Waves
  /\ \A v, w \in Waves : v[2] <= Halves /\ w[2] <= Halves /\ PlaceOf(v) = PlaceOf(w) => v = w
  /\ \A k \in 1 .. Launches : LET w == WaveAt(k) IN w \in Waves /\ w[2] <= Halves /\ PlaceOf(w) = k
<1>1. Halves = 1 \/ Halves = 2
  BY DEF Halves
<1>2. Minutes \in Nat
  BY LoadTestAssumption
<1>3. \A w \in Waves : w[1] \in 1 .. Minutes /\ w[2] \in {1, 2} /\ w = <<w[1], w[2]>>
  BY DEF Waves
<1>4. \A m \in 1 .. Minutes : <<m, 1>> \in Waves
  BY DEF Waves
<1>5. ASSUME NEW w \in Waves PROVE PlaceOf(w) \in Nat \ {0} /\ PlaceOf(w) = IF Halves = 1 THEN w[1] - 1 + w[2] ELSE 2 * (w[1] - 1) + w[2]
  BY <1>1, <1>2, <1>3 DEF PlaceOf
<1>6. ASSUME NEW v \in Waves, NEW w \in Waves, v[2] <= Halves, w[2] <= Halves, PlaceOf(v) = PlaceOf(w) PROVE v = w
  <2>1. v[1] = w[1] /\ v[2] = w[2]
    BY <1>1, <1>2, <1>3, <1>5, <1>6
  <2> QED BY <1>3, <2>1
<1>7. ASSUME NEW k \in 1 .. Launches, NEW w, w = WaveAt(k) PROVE w \in Waves /\ w[2] <= Halves /\ PlaceOf(w) = k
  <2>1. CASE Halves = 1
    <3>1. w[1] = k /\ w[2] = 1 /\ w = <<k, 1>> /\ k \in 1 .. Minutes
      BY <1>2, <1>7, <2>1 DEF WaveAt, Launches
    <3>2. w \in Waves
      BY <3>1 DEF Waves
    <3> QED BY <1>5, <2>1, <3>1, <3>2
  <2>2. CASE Halves = 2
    <3>1. k \in 1 .. 2 * Minutes
      BY <1>2, <1>7, <2>2 DEF Launches
    <3>2. w = <<((k - 1) \div 2) + 1, ((k - 1) % 2) + 1>>
      BY <1>7, <2>2 DEF WaveAt
    <3>3. /\ ((k - 1) \div 2) + 1 \in 1 .. Minutes /\ ((k - 1) % 2) + 1 \in {1, 2}
          /\ 2 * ((k - 1) \div 2) + ((k - 1) % 2) = k - 1
      BY <1>2, <3>1
    <3>4. w \in Waves
      BY <3>2, <3>3 DEF Waves
    <3> QED BY <1>5, <2>2, <3>2, <3>3, <3>4
  <2> QED BY <1>1, <2>1, <2>2
<1> QED BY <1>1, <1>3, <1>4, <1>5, <1>6, <1>7

-----------------------------------------------------------------------------
(* The steps of a spike test                                                *)

LEMMA WaveMoves ==
  ASSUME LoadTypes, NEW w \in Waves, NEW x \in WaveRecord, wave' = [wave EXCEPT ![w] = x]
  PROVE  wave' \in [Waves -> WaveRecord] /\ wave'[w] = x /\ \A v \in Waves \ {w} : wave'[v] = wave[v]
BY DEF LoadTypes

(* A wave nobody touched. *)
LEMMA WaveKept ==
  ASSUME SpikeSound, test' = test, NEW v \in Waves, wave'[v] = wave[v],
         v[2] <= Halves => (PlaceOf(v) < main'.at <=> PlaceOf(v) < main.at)
  PROVE  WaveSound(v)'
<1>1. WaveSound(v)
  BY DEF SpikeSound
<1>2. /\ Plan(v, 1)' = Plan(v, 1) /\ Halves' = Halves /\ PlaceOf(v)' = PlaceOf(v)
  BY PlanKept
<1>3. BatchOf(v)' = BatchOf(v) /\ (Launched(v)' <=> Launched(v))
  BY <1>2 DEF BatchOf, Launched
<1> QED BY <1>1, <1>2, <1>3 DEF WaveSound

(* Cells nobody touched. *)
LEMMA CellsKept ==
  ASSUME SpikeSound, test.kind # "random", test' = test, NEW v \in Waves, wave'[v] = wave[v],
         Launched(<<v[1], 1>>)' => Launched(<<v[1], 1>>),
         stored'[v[1]] = stored[v[1]]
  PROVE  CellsSound(v)'
<1>1. CellsSound(v)
  BY DEF SpikeSound
<1>2. /\ Plan(v, 1)' = Plan(v, 1) /\ Halves' = Halves
  BY PlanKept
<1>3. \A q : Stored(v, q)' = Stored(v, q)
  BY DEF Stored
<1> QED BY <1>1, <1>2, <1>3 DEF CellsSound

(* A step of one wave that has been launched and stays so. *)
LEMMA OneWave ==
  ASSUME LoadTypes, SpikeSound, NEW w \in Waves, Launched(w), Launched(w)', test' = test, main'.at = main.at,
         \A v \in Waves \ {w} : wave'[v] = wave[v],
         \A m \in 1 .. Minutes \ {w[1]} : stored'[m] = stored[m]
  PROVE  /\ \A v \in Waves \ {w} : WaveSound(v)'
         /\ \A v \in Waves : Launched(v)' <=> Launched(v)
         /\ test.kind # "random" => \A v \in Waves \ {w} : v[1] # w[1] => CellsSound(v)'
<1>1. \A v \in Waves \ {w} : WaveSound(v)'
  BY WaveKept
<1>2. \A v \in Waves : Launched(v)' <=> Launched(v)
  BY DEF Launched
<1>3. ASSUME test.kind # "random", NEW v \in Waves \ {w}, v[1] # w[1] PROVE CellsSound(v)'
  <2>1. v[1] \in 1 .. Minutes \ {w[1]} /\ <<v[1], 1>> \in Waves
    BY <1>3, WavePlaces
  <2>2. Launched(<<v[1], 1>>)' => Launched(<<v[1], 1>>)
    BY <1>2, <2>1
  <2> QED BY <1>3, <2>1, <2>2, CellsKept
<1> QED BY <1>1, <1>2, <1>3

LEMMA LaunchedFacts ==
  ASSUME LoadTypes, SpikeSound, test.kind \in Spikes, NEW w \in Waves, Launched(w)
  PROVE  /\ w[2] <= Halves /\ Launched(<<w[1], 1>>)
         /\ test.kind # "cache" => w[1] \in DOMAIN test.rows
         /\ wave[w] \in WaveRecord /\ wave[w].sent <= wave[w].total
         /\ BatchOf(w) \in Nat
         /\ test.kind # "random" => /\ BatchOf(w) = Plan(w, 1).batch /\ wave[w].total = Plan(w, 1).total
                                    /\ CellsSound(w)
<1>1. WaveSound(w) /\ (test.kind # "random" => CellsSound(w)) /\ wave[w] \in WaveRecord
  BY DEF SpikeSound, LoadTypes
<1>2. w[2] <= Halves /\ PlaceOf(w) < main.at /\ (test.kind # "cache" => w[1] \in DOMAIN test.rows)
      /\ wave[w].sent <= wave[w].total /\ (test.kind # "random" => wave[w].total = Plan(w, 1).total)
  BY <1>1 DEF WaveSound
<1>3. PICK v \in Waves : v = <<w[1], 1>>
  BY WavePlaces
<1>4. Halves \in {1, 2} /\ w[1] \in Nat /\ w[2] \in {1, 2} /\ v[1] = w[1] /\ v[2] = 1 /\ main.at \in Nat
  BY <1>3, WavePlaces DEF LoadTypes
<1>5. v[2] <= Halves /\ PlaceOf(v) <= PlaceOf(w) /\ PlaceOf(v) \in Nat /\ PlaceOf(w) \in Nat
  BY <1>4, WavePlaces DEF PlaceOf
<1>6. Launched(v)
  <2>1. WaveSound(v)
    BY DEF SpikeSound
  <2>2. PlaceOf(v) < main.at
    BY <1>2, <1>4, <1>5
  <2> QED BY <1>5, <2>1, <2>2 DEF WaveSound
<1>7. Numbers(Plan(w, 1))
  <2>1. test.rows \in Seq(Nat) /\ 1 \in Nat
    BY DEF LoadTypes
  <2> QED BY <1>2, <2>1, PlanFacts
<1>8. BatchOf(w) \in Nat
  BY <1>1, <1>7 DEF BatchOf, Numbers, WaveRecord
<1> QED BY <1>1, <1>2, <1>3, <1>6, <1>8 DEF BatchOf

LEMMA SendBatchSound ==
  ASSUME LoadTypes, SpikeSound, test.kind \in Spikes, NEW w \in Waves, sendBatch(w)
  PROVE  LoadTypes' /\ SpikeSound'
<1>1. Launched(w) /\ wave[w].pc = "sending" /\ Unsent(w) /\ UNCHANGED <<test, main, stored, worker>>
  BY DEF sendBatch, Launched
<1>2. /\ w[2] <= Halves /\ wave[w] \in WaveRecord /\ BatchOf(w) \in Nat
      /\ test.kind # "random" => CellsSound(w)
      /\ WaveSound(w)
  BY <1>1, LaunchedFacts DEF SpikeSound
<1>3. PICK h \in WaveRecord : h = wave[w]
  BY <1>2
<1>4. PICK b \in Nat : b = BatchOf(w)
  BY <1>2
<1>5. PICK cs : cs = {CallOf(w, q) : q \in h.sent .. h.sent + b - 1}
  OBVIOUS
<1>6. PICK x : x = [h EXCEPT !.sent = h.sent + b, !.open = h.open \cup cs]
  OBVIOUS
<1>7. wave' = [wave EXCEPT ![w] = x]
  <2>1. wave' = [wave EXCEPT ![w].sent = @ + b, ![w].open = @ \cup cs]
    BY <1>3, <1>4, <1>5 DEF sendBatch
  <2> QED BY <1>3, <1>6, <2>1 DEF LoadTypes
<1>8. h.sent \in Nat /\ h.total \in Nat /\ h.open \in SUBSET Int /\ h.pc = "sending" /\ h.sent < h.total
  BY <1>1, <1>3 DEF WaveRecord, Unsent
<1>9. cs \subseteq Int
  BY <1>5, <1>8, CallNumbers
<1>10. /\ x \in WaveRecord /\ x.pc = "sending" /\ x.sent = h.sent + b /\ x.total = h.total /\ x.open = h.open \cup cs
  <2>1. h.sent + b \in Nat /\ h.open \cup cs \in SUBSET Int
    <3>1. h.sent + b \in Nat
      BY <1>8
    <3>2. h.open \cup cs \in SUBSET Int
      BY <1>8, <1>9, Zenon
    <3> QED BY <3>1, <3>2
  <2>2. PICK n, o : n = h.sent + b /\ o = h.open \cup cs
    OBVIOUS
  <2>3. x = [h EXCEPT !.sent = n, !.open = o] /\ n \in Nat /\ o \in SUBSET Int
    BY <1>6, <2>1, <2>2
  <2>4. x \in WaveRecord /\ x.pc = h.pc /\ x.sent = n /\ x.total = h.total /\ x.open = o
    BY <1>3, <2>3 DEF WaveRecord
  <2> QED BY <1>8, <2>2, <2>4
<1>11. wave' \in [Waves -> WaveRecord] /\ wave'[w] = x /\ \A v \in Waves \ {w} : wave'[v] = wave[v]
  BY <1>7, <1>10, WaveMoves
<1>12. Launched(w)'
  BY <1>10, <1>11 DEF Launched
<1>13. LoadTypes'
  BY <1>1, <1>11 DEF LoadTypes
<1>14. /\ Plan(w, 1)' = Plan(w, 1) /\ Halves' = Halves /\ PlaceOf(w)' = PlaceOf(w)
  BY <1>1, PlanKept
<1>15. BatchOf(w)' = b
  BY <1>1, <1>3, <1>4, <1>10, <1>11, <1>14 DEF BatchOf
<1>16. WaveSound(w)'
  <2>1. PICK k \in Nat, n \in Nat : h.sent = k * b /\ h.total = n * b
    BY <1>1, <1>2, <1>3, <1>4 DEF WaveSound
  <2>2. x.sent <= x.total /\ x.sent = (k + 1) * b /\ x.total = n * b
    BY <1>8, <1>10, <2>1, BatchFits
  <2>3. ASSUME NEW c \in x.open PROVE \E q \in 0 .. x.sent - 1 : c = CallOf(w, q)
    <3>1. CASE c \in h.open
      <4>1. PICK q \in 0 .. h.sent - 1 : c = CallOf(w, q)
        BY <1>1, <1>2, <1>3, <3>1 DEF WaveSound
      <4> QED BY <1>8, <1>10, <4>1
    <3>2. CASE c \in cs
      BY <1>5, <1>8, <1>10, <3>2
    <3> QED BY <1>10, <2>3, <3>1, <3>2
  <2>4. k + 1 \in Nat
    OBVIOUS
  <2> QED BY <1>1, <1>2, <1>3, <1>10, <1>11, <1>12, <1>14, <1>15, <2>2, <2>3, <2>4 DEF WaveSound
<1>17. ASSUME test.kind # "random" PROVE CellsSound(w)'
  <2>1. ASSUME NEW q \in Nat PROVE Stored(w, q)' = Stored(w, q)
    <3>1. CallOf(w, q) \in cs <=> q \in h.sent .. h.sent + b - 1
      BY <1>5, <1>8, CallNumbers
    <3> QED BY <1>3, <1>8, <1>10, <1>11, <3>1 DEF Stored
  <2>2. Plan(w, 1).total \in Nat
    BY <1>1, <1>2, PlanFacts DEF LoadTypes, WaveSound, Numbers
  <2>3. Launched(<<w[1], 1>>)
    BY <1>1, LaunchedFacts
  <2> QED BY <1>1, <1>2, <1>14, <1>17, <2>1, <2>2, <2>3 DEF CellsSound
<1>18. /\ \A v \in Waves \ {w} : WaveSound(v)'
       /\ test.kind # "random" => \A v \in Waves \ {w} : v[1] # w[1] => CellsSound(v)'
       /\ \A v \in Waves : Launched(v)' <=> Launched(v)
  BY <1>1, <1>11, <1>12, OneWave
<1>19. ASSUME test.kind # "random", NEW v \in Waves \ {w} PROVE CellsSound(v)'
  <2>1. Launched(<<v[1], 1>>)' => Launched(<<v[1], 1>>)
    BY <1>18, WavePlaces
  <2> QED BY <1>1, <1>11, <1>19, <2>1, CellsKept
<1>20. \A v \in Waves : wave[v].pc = "done" => wave'[v].pc = "done"
  BY <1>1, <1>11
<1> QED BY <1>1, <1>13, <1>16, <1>17, <1>18, <1>19, <1>20, PlanKept DEF SpikeSound

LEMMA CallDoneSound ==
  ASSUME LoadTypes, SpikeSound, test.kind \in Spikes, NEW w \in Waves, NEW q \in 0 .. MaxPerMinute - 1, callDone(w, q)
  PROVE  LoadTypes' /\ SpikeSound'
<1>0. PICK c : c = CallOf(w, q)
  OBVIOUS
<1>1. c \in wave[w].open /\ UNCHANGED <<test, worker>> /\ wave' = [wave EXCEPT ![w].open = @ \ {c}] /\ q \in Nat
  <2>1. q \in Nat
    BY LoadTestAssumption
  <2> QED BY <1>0, <2>1 DEF callDone
<1>2. Launched(w) /\ WaveSound(w)
  BY <1>1 DEF SpikeSound, WaveSound, NoWave
<1>3. /\ w[2] <= Halves /\ wave[w] \in WaveRecord /\ Launched(<<w[1], 1>>)
      /\ test.kind # "cache" => w[1] \in DOMAIN test.rows
      /\ test.kind # "random" => CellsSound(w) /\ wave[w].total = Plan(w, 1).total
      /\ w[1] \in 1 .. Minutes
  BY <1>2, LaunchedFacts, WavePlaces
<1>4. PICK h \in WaveRecord : h = wave[w]
  BY <1>3
<1>5. PICK o : o = h.open \ {c}
  OBVIOUS
<1>6. PICK x : x = [h EXCEPT !.open = o]
  OBVIOUS
<1>7. wave' = [wave EXCEPT ![w] = x]
  BY <1>1, <1>4, <1>5, <1>6 DEF LoadTypes
<1>8. h.open \in SUBSET Int /\ o \in SUBSET Int /\ h.sent \in Nat /\ h.total \in Nat
  BY <1>4, <1>5 DEF WaveRecord
<1>9. /\ x \in WaveRecord /\ x.pc = h.pc /\ x.sent = h.sent /\ x.total = h.total /\ x.open = o /\ x.averaged = h.averaged
  BY <1>4, <1>6, <1>8 DEF WaveRecord
<1>10. wave' \in [Waves -> WaveRecord] /\ wave'[w] = x /\ \A v \in Waves \ {w} : wave'[v] = wave[v]
  BY <1>7, <1>9, WaveMoves
<1>11. Launched(w)'
  BY <1>2, <1>4, <1>9, <1>10 DEF Launched
<1>12. /\ Plan(w, 1)' = Plan(w, 1) /\ Halves' = Halves /\ PlaceOf(w)' = PlaceOf(w)
  BY <1>1, PlanKept
<1>13. q < h.sent /\ h.sent <= h.total
  <2>1. PICK r \in 0 .. h.sent - 1 : c = CallOf(w, r)
    BY <1>1, <1>2, <1>4 DEF WaveSound
  <2>2. r = q
    <3>1. r \in Int /\ q \in Int /\ CallOf(w, r) = CallOf(w, q)
      BY <1>0, <1>1, <1>8, <2>1
    <3> QED BY <3>1, CallNumbers
  <2> QED BY <1>2, <1>4, <1>8, <2>1, <2>2 DEF WaveSound
<1>15. ASSUME main'.at = main.at PROVE WaveSound(w)'
  <2>1. BatchOf(w)' = BatchOf(w)
    BY <1>1, <1>4, <1>9, <1>10, <1>12 DEF BatchOf
  <2>2. h.pc # "done"
    BY <1>1, <1>2, <1>4 DEF WaveSound
  <2>3. \A d \in x.open : \E r \in 0 .. x.sent - 1 : d = CallOf(w, r)
    BY <1>2, <1>4, <1>5, <1>9 DEF WaveSound
  <2> QED BY <1>1, <1>2, <1>4, <1>9, <1>10, <1>11, <1>12, <1>15, <2>1, <2>2, <2>3 DEF WaveSound
<1>16. \A v \in Waves : wave[v].pc = "done" => wave'[v].pc = "done"
  BY <1>4, <1>9, <1>10
<1>17. CASE test.kind = "random"
  <2>1. UNCHANGED <<main, stored>>
    BY <1>17 DEF callDone
  <2>2. \A v \in Waves \ {w} : WaveSound(v)'
    BY <1>1, <1>2, <1>10, <1>11, <2>1, OneWave
  <2>3. LoadTypes'
    BY <1>1, <1>10, <2>1 DEF LoadTypes
  <2> QED BY <1>1, <1>15, <1>16, <1>17, <2>1, <2>2, <2>3, PlanKept DEF SpikeSound
<1>18. CASE test.kind # "random"
  <2>1. PICK p : p = Plan(w, 1)
    OBVIOUS
  <2>2. /\ Numbers(p) /\ p.shift + p.total <= p.cells /\ p.total = h.total
        /\ \E n \in Nat : p.total = n * p.batch
        /\ test.kind \notin {"random", "cache"} => p.shift = 0 /\ p.cells = p.total
        /\ test.kind = "cache" => /\ p.cells = First + Second
                                  /\ w[2] = 1 => p.shift = 0 /\ p.total = First
                                  /\ w[2] = 2 => p.shift = First /\ p.total = Second
    <3>1. test.rows \in Seq(Nat) /\ 1 \in Nat
      BY DEF LoadTypes
    <3> QED BY <1>3, <1>4, <1>18, <2>1, <3>1, PlanFacts
  <2>3. p.batch \in Nat \ {0}
    <3>1. PICK n \in Nat : p.total = n * p.batch
      BY <2>2
    <3>2. p.batch \in Nat /\ p.total > 0
      BY <1>1, <1>8, <1>13, <2>2 DEF Numbers
    <3>3. p.batch = 0 => p.total = 0
      BY <3>1
    <3> QED BY <3>2, <3>3
  <2>4. PICK i \in Nat : i = p.shift + q
    BY <1>1, <2>2 DEF Numbers
  <2>5. cellOf(p, q) = i
    <3>1. ((q \div p.batch) * p.batch) + (q % p.batch) = q /\ p.shift \in Nat
      BY <1>1, <2>2, <2>3, Division DEF Numbers
    <3>2. PICK a \in Int : a = (q \div p.batch) * p.batch
      BY <1>1, <2>3, Division
    <3>3. PICK z \in Int : z = q % p.batch
      BY <1>1, <2>3
    <3>4. cellOf(p, q) = p.shift + a + z /\ a + z = q
      BY <3>1, <3>2, <3>3 DEF cellOf
    <3> QED BY <2>4, <3>1, <3>4
  <2>6. /\ DOMAIN stored[w[1]] = 0 .. p.cells - 1
        /\ \A r \in 0 .. p.total - 1 : stored[w[1]][p.shift + r] = Stored(w, r)
    BY <1>3, <1>18, <2>1 DEF CellsSound
  <2>7. q \in 0 .. p.total - 1 /\ i \in 0 .. p.cells - 1
    BY <1>1, <1>8, <1>13, <2>2, <2>4 DEF Numbers
  <2>8. stored' = [stored EXCEPT ![w[1]][i] = @ + 1] /\ main' = main
    BY <1>18, <2>1, <2>5, <2>6, <2>7 DEF callDone
  <2>9. /\ DOMAIN stored' = DOMAIN stored /\ DOMAIN stored'[w[1]] = 0 .. p.cells - 1
        /\ stored'[w[1]][i] = stored[w[1]][i] + 1
        /\ \A j \in 0 .. p.cells - 1 : j # i => stored'[w[1]][j] = stored[w[1]][j]
        /\ \A m \in 1 .. Minutes \ {w[1]} : stored'[m] = stored[m]
    BY <1>3, <2>6, <2>7, <2>8 DEF LoadTypes
  <2>10. LoadTypes'
    BY <1>1, <1>10, <2>8, <2>9 DEF LoadTypes
  <2>11. /\ \A v \in Waves \ {w} : WaveSound(v)'
         /\ \A v \in Waves \ {w} : v[1] # w[1] => CellsSound(v)'
         /\ \A v \in Waves : Launched(v)' <=> Launched(v)
    BY <1>1, <1>2, <1>10, <1>11, <1>18, <2>8, <2>9, OneWave
  <2>12. CellsSound(w)'
    <3>1. Stored(w, q) = 0 /\ Stored(w, q)' = 1
      BY <1>0, <1>1, <1>4, <1>5, <1>9, <1>10, <1>13 DEF Stored
    <3>2. stored'[w[1]][p.shift + q] = Stored(w, q)'
      BY <2>4, <2>6, <2>7, <2>9, <3>1
    <3>3. ASSUME NEW r \in 0 .. p.total - 1, r # q PROVE stored'[w[1]][p.shift + r] = Stored(w, r)'
      <4>1. CallOf(w, r) # c
        BY <1>0, <1>1, <3>3, CallNumbers
      <4>2. Stored(w, r)' = Stored(w, r)
        BY <1>4, <1>5, <1>9, <1>10, <4>1 DEF Stored
      <4>3. p.shift + r \in 0 .. p.cells - 1 /\ p.shift + r # i
        BY <1>1, <2>2, <2>4, <3>3 DEF Numbers
      <4> QED BY <2>6, <2>9, <4>2, <4>3
    <3> QED BY <1>12, <2>1, <2>9, <3>2, <3>3 DEF CellsSound
  <2>13. ASSUME NEW v \in Waves \ {w}, v[1] = w[1] PROVE CellsSound(v)'
    <3> SUFFICES ASSUME v[2] <= Halves PROVE CellsSound(v)'
      BY <1>12 DEF CellsSound
    <3>1. test.kind = "cache" /\ {v[2], w[2]} = {1, 2}
      <4>1. v[2] # w[2] /\ v[2] \in {1, 2} /\ w[2] \in {1, 2}
        BY <2>13, WavePlaces
      <4> QED BY <1>3, <4>1 DEF Halves
    <3>2. PICK s : s = Plan(v, 1)
      OBVIOUS
    <3>3. /\ Numbers(s) /\ s.cells = First + Second
          /\ v[2] = 1 => s.shift = 0 /\ s.total = First
          /\ v[2] = 2 => s.shift = First /\ s.total = Second
      <4>1. test.rows \in Seq(Nat) /\ 1 \in Nat
        BY DEF LoadTypes
      <4> QED BY <3>1, <3>2, <4>1, PlanFacts
    <3>4. CellsSound(v)
      BY <1>18 DEF SpikeSound
    <3>5. /\ DOMAIN stored[w[1]] = 0 .. s.cells - 1
          /\ \A r \in 0 .. s.total - 1 : stored[w[1]][s.shift + r] = Stored(v, r)
      BY <1>3, <2>13, <3>2, <3>4 DEF CellsSound
    <3>6. Plan(v, 1)' = s
      BY <1>1, <3>2, PlanKept
    <3>7. ASSUME NEW r \in 0 .. s.total - 1 PROVE stored'[w[1]][s.shift + r] = Stored(v, r)'
      <4>1. Stored(v, r)' = Stored(v, r)
        BY <1>10 DEF Stored
      <4>2. First \in Nat /\ Second \in Nat
        BY LoadTestAssumption
      <4>3. s.shift + r \in 0 .. p.cells - 1 /\ s.shift + r # i
        <5>1. v[2] \in {1, 2} /\ w[2] \in {1, 2} /\ v[2] # w[2] /\ p.cells = First + Second
          BY <2>2, <2>13, <3>1, WavePlaces
        <5>2. CASE v[2] = 1
          BY <1>1, <2>2, <2>4, <3>1, <3>3, <3>7, <4>2, <5>1, <5>2
        <5>3. CASE v[2] = 2
          <6>1. w[2] = 1 /\ s.shift = First /\ s.total = Second
            BY <3>3, <5>1, <5>3
          <6>2. p.total = First /\ i = q /\ q < First
            BY <1>1, <2>2, <2>4, <2>7, <3>1, <4>2, <6>1
          <6> QED BY <1>1, <3>7, <4>2, <5>1, <6>1, <6>2
        <5> QED BY <5>1, <5>2, <5>3
      <4> QED BY <2>9, <3>5, <4>1, <4>3
    <3>8. s.cells = p.cells
      BY <2>2, <3>1, <3>3
    <3> QED BY <2>9, <2>13, <3>6, <3>7, <3>8 DEF CellsSound
  <2> QED BY <1>1, <1>15, <1>16, <2>8, <2>10, <2>11, <2>12, <2>13, PlanKept DEF SpikeSound
<1> QED BY <1>17, <1>18

LEMMA WaveEndsSound ==
  ASSUME LoadTypes, SpikeSound, test.kind \in Spikes, NEW w \in Waves, waveEnds(w)
  PROVE  LoadTypes' /\ SpikeSound'
<1>1. Launched(w) /\ wave[w].pc = "sending" /\ ~Unsent(w) /\ wave[w].open = {} /\ UNCHANGED <<test, main, stored, worker>>
  BY DEF waveEnds, Launched, wg2Zero
<1>2. /\ w[2] <= Halves /\ wave[w] \in WaveRecord /\ Launched(<<w[1], 1>>)
      /\ test.kind # "cache" => w[1] \in DOMAIN test.rows
      /\ test.kind # "random" => CellsSound(w) /\ wave[w].total = Plan(w, 1).total
      /\ wave[w].sent <= wave[w].total
      /\ WaveSound(w)
  BY <1>1, LaunchedFacts DEF SpikeSound
<1>3. PICK h \in WaveRecord : h = wave[w]
  BY <1>2
<1>4. PICK a : a = Cardinality({i \in DOMAIN stored[w[1]] : stored[w[1]][i] > 0})
  OBVIOUS
<1>5. PICK x : x = [h EXCEPT !.pc = "done", !.averaged = a]
  OBVIOUS
<1>6. wave' = [wave EXCEPT ![w] = x]
  BY <1>3, <1>4, <1>5 DEF waveEnds, LoadTypes
<1>7. h.sent \in Nat /\ h.total \in Nat /\ h.open = {} /\ h.sent = h.total
  BY <1>1, <1>2, <1>3 DEF WaveRecord, Unsent
<1>8. ASSUME test.kind # "random" PROVE a \in Nat /\ a >= h.total
  <2>1. PICK p : p = Plan(w, 1)
    OBVIOUS
  <2>2. Numbers(p) /\ p.shift + p.total <= p.cells /\ p.total = h.total
    <3>1. test.rows \in Seq(Nat) /\ 1 \in Nat
      BY DEF LoadTypes
    <3> QED BY <1>2, <1>3, <1>8, <2>1, <3>1, PlanFacts
  <2>3. /\ DOMAIN stored[w[1]] = 0 .. p.cells - 1
        /\ \A r \in 0 .. p.total - 1 : stored[w[1]][p.shift + r] = Stored(w, r)
    BY <1>2, <1>8, <2>1 DEF CellsSound
  <2>4. PICK S : S = {i \in DOMAIN stored[w[1]] : stored[w[1]][i] > 0}
    OBVIOUS
  <2>5. PICK T : T = p.shift .. p.shift + p.total - 1
    OBVIOUS
  <2>6. T \subseteq S
    <3> SUFFICES ASSUME NEW i \in T PROVE i \in S
      OBVIOUS
    <3>1. i - p.shift \in 0 .. p.total - 1 /\ i = p.shift + (i - p.shift) /\ i \in 0 .. p.cells - 1
      BY <2>2, <2>5, SMTT(40) DEF Numbers
    <3>2. PICK r \in 0 .. p.total - 1 : i = p.shift + r
      BY <3>1
    <3>3. Stored(w, r) = 1
      BY <1>3, <1>7, <2>2, <3>2 DEF Stored
    <3>4. stored[w[1]][i] = 1
      BY <2>3, <3>2, <3>3
    <3> QED BY <2>3, <2>4, <3>1, <3>4
  <2>7. IsFiniteSet(S)
    <3>1. IsFiniteSet(DOMAIN stored[w[1]])
      BY WavePlaces DEF LoadTypes
    <3> QED BY <2>4, <3>1, FS_Subset
  <2>8. Cardinality(T) = p.total
    <3>1. p.shift \in Int /\ p.shift + p.total - 1 \in Int /\ p.total \in Nat
      BY <2>2 DEF Numbers
    <3>2. PICK lo \in Int, hi \in Int : lo = p.shift /\ hi = p.shift + p.total - 1
      BY <3>1
    <3>3. Cardinality(lo .. hi) = IF lo > hi THEN 0 ELSE hi - lo + 1
      BY FS_Interval
    <3> QED BY <2>5, <3>1, <3>2, <3>3
  <2>9. Cardinality(T) <= Cardinality(S) /\ Cardinality(S) \in Nat
    BY <2>6, <2>7, FS_Subset, FS_CardinalityType
  <2> QED BY <1>4, <2>2, <2>4, <2>8, <2>9
<1>9. a \in Nat
  <2>1. IsFiniteSet(DOMAIN stored[w[1]])
    BY WavePlaces DEF LoadTypes
  <2>2. {i \in DOMAIN stored[w[1]] : stored[w[1]][i] > 0} \subseteq DOMAIN stored[w[1]]
    OBVIOUS
  <2> QED BY <1>4, <2>1, <2>2, FS_Subset, FS_CardinalityType
<1>10. /\ x \in WaveRecord /\ x.pc = "done" /\ x.sent = h.sent /\ x.total = h.total /\ x.open = h.open
       /\ x.averaged = a
  BY <1>3, <1>5, <1>9 DEF WaveRecord
<1>11. wave' \in [Waves -> WaveRecord] /\ wave'[w] = x /\ \A v \in Waves \ {w} : wave'[v] = wave[v]
  BY <1>6, <1>10, WaveMoves
<1>12. Launched(w)'
  BY <1>10, <1>11 DEF Launched
<1>13. LoadTypes'
  BY <1>1, <1>11 DEF LoadTypes
<1>14. /\ Plan(w, 1)' = Plan(w, 1) /\ Halves' = Halves /\ PlaceOf(w)' = PlaceOf(w)
  BY <1>1, PlanKept
<1>15. BatchOf(w)' = BatchOf(w)
  BY <1>1, <1>3, <1>10, <1>11, <1>14 DEF BatchOf
<1>16. WaveSound(w)'
  BY <1>1, <1>2, <1>3, <1>7, <1>8, <1>10, <1>11, <1>12, <1>14, <1>15 DEF WaveSound
<1>17. /\ \A v \in Waves \ {w} : WaveSound(v)'
       /\ \A v \in Waves : Launched(v)' <=> Launched(v)
  BY <1>1, <1>11, <1>12, OneWave
<1>18. ASSUME test.kind # "random", NEW v \in Waves PROVE CellsSound(v)'
  <2>1. CellsSound(v) /\ Plan(v, 1)' = Plan(v, 1)
    BY <1>1, <1>18, PlanKept DEF SpikeSound
  <2>2. \A q : Stored(v, q)' = Stored(v, q)
    <3>1. CASE v = w
      BY <1>3, <1>10, <1>11, <3>1 DEF Stored
    <3>2. CASE v # w
      BY <1>11, <3>2 DEF Stored
    <3> QED BY <3>1, <3>2
  <2>3. Launched(<<v[1], 1>>)' => Launched(<<v[1], 1>>)
    BY <1>17, WavePlaces
  <2> QED BY <1>1, <1>14, <2>1, <2>2, <2>3 DEF CellsSound
<1>19. \A v \in Waves : wave[v].pc = "done" => wave'[v].pc = "done"
  BY <1>10, <1>11
<1> QED BY <1>1, <1>13, <1>16, <1>17, <1>18, <1>19, PlanKept DEF SpikeSound

LEMMA LaunchSound ==
  ASSUME LoadTypes, SpikeSound, test.kind \in Spikes, launch
  PROVE  LoadTypes' /\ SpikeSound'
<1>1. main.pc = "run" /\ main.at <= Launches /\ UNCHANGED <<test, worker>>
      /\ main \in [pc : {"run", "gather", "reported", "error", "panicked", "crashed", "raced"}, at : Nat \ {0}, ok : Nat, bad : Nat]
  BY DEF launch, LoadTypes
<1>2. PICK w : w = WaveAt(main.at)
  OBVIOUS
<1>3. w \in Waves /\ w[2] <= Halves /\ PlaceOf(w) = main.at /\ w[1] \in 1 .. Minutes /\ w[2] \in {1, 2}
      /\ Halves \in {1, 2} /\ main.at \in Nat
  <2>1. Launches \in Nat /\ main.at \in 1 .. Launches
    BY <1>1, WavePlaces, LoadTestAssumption DEF Launches
  <2> QED BY <1>2, <2>1, WavePlaces
<1>4. CASE test.kind # "cache" /\ Len(test.rows) < w[1]
  <2>1. main' = [main EXCEPT !.pc = "crashed"] /\ UNCHANGED <<wave, stored>>
    BY <1>2, <1>4 DEF launch
  <2>2. main'.pc = "crashed" /\ main'.at = main.at
    BY <1>1, <2>1
  <2>3. LoadTypes'
    BY <1>1, <2>1 DEF LoadTypes
  <2>4. \A v \in Waves : WaveSound(v)' /\ (test.kind # "random" => CellsSound(v)')
    <3>1. \A v : Launched(v)' <=> Launched(v)
      BY <2>1 DEF Launched
    <3> QED BY <1>1, <2>1, <2>2, <3>1, WaveKept, CellsKept
  <2> QED BY <1>1, <2>2, <2>3, <2>4 DEF SpikeSound
<1>5. CASE ~(test.kind # "cache" /\ Len(test.rows) < w[1])
  <2>1. PICK noise \in 1 .. MaxNoise :
          /\ test.kind # "random" => noise = 1
          /\ wave' = [wave EXCEPT ![w] = [NoWave EXCEPT !.pc = "sending", !.total = Plan(w, noise).total]]
          /\ stored' = IF w[2] = 2 THEN stored
                       ELSE [stored EXCEPT ![w[1]] = [i \in 0 .. Plan(w, noise).cells - 1 |-> 0]]
          /\ main' = [main EXCEPT !.at = @ + 1]
    BY <1>2, <1>5 DEF launch
  <2>2. noise \in Nat /\ test.rows \in Seq(Nat) /\ 1 \in Nat
    BY LoadTestAssumption DEF LoadTypes
  <2>3. test.kind # "cache" => w[1] \in DOMAIN test.rows
    <3>1. test.kind # "cache" => w[1] \in 1 .. Len(test.rows)
      BY <1>3, <1>5, <2>2
    <3> QED BY <2>2, <3>1
  <2>4. PICK p : p = Plan(w, noise)
    OBVIOUS
  <2>5. /\ Numbers(p)
        /\ \E n \in Nat : p.total = n * p.batch
        /\ test.kind # "random" => p.shift + p.total <= p.cells
        /\ test.kind = "cache" => p.cells = First + Second
    BY <1>3, <2>2, <2>3, <2>4, PlanFacts
  <2>6. PICK x : x = [NoWave EXCEPT !.pc = "sending", !.total = p.total]
    OBVIOUS
  <2>7. /\ x \in WaveRecord /\ x.pc = "sending" /\ x.sent = 0 /\ x.open = {} /\ x.total = p.total
    <3>1. x = [pc |-> "sending", sent |-> 0, open |-> {}, total |-> p.total, averaged |-> 0]
      BY <2>6 DEF NoWave
    <3> QED BY <2>5, <3>1 DEF WaveRecord, Numbers
  <2>8. wave' \in [Waves -> WaveRecord] /\ wave'[w] = x /\ \A v \in Waves \ {w} : wave'[v] = wave[v]
    BY <1>3, <2>1, <2>4, <2>6, <2>7, WaveMoves
  <2>9. main'.at = main.at + 1 /\ main'.pc = "run"
        /\ main' \in [pc : {"run", "gather", "reported", "error", "panicked", "crashed", "raced"}, at : Nat \ {0}, ok : Nat, bad : Nat]
    <3>1. PICK k : k = main.at + 1
      OBVIOUS
    <3>2. k \in Nat \ {0}
      BY <1>3, <3>1
    <3>3. main' = [main EXCEPT !.at = k]
      BY <2>1, <3>1
    <3> QED BY <1>1, <3>1, <3>2, <3>3
  <2>10. /\ DOMAIN stored' = 1 .. Minutes
         /\ \A m \in 1 .. Minutes \ {w[1]} : stored'[m] = stored[m]
         /\ w[2] = 2 => stored' = stored
         /\ w[2] = 1 => /\ DOMAIN stored'[w[1]] = 0 .. p.cells - 1
                        /\ \A i \in 0 .. p.cells - 1 : stored'[w[1]][i] = 0
    BY <1>3, <2>1, <2>4 DEF LoadTypes
  <2>11. LoadTypes'
    <3>1. IsFiniteSet(0 .. p.cells - 1)
      BY <2>5, FS_Interval DEF Numbers
    <3>2. \A m \in 1 .. Minutes : IsFiniteSet(DOMAIN stored'[m])
      <4>1. CASE w[2] = 1
        BY <2>10, <3>1, <4>1 DEF LoadTypes
      <4>2. CASE w[2] = 2
        BY <2>10, <4>2 DEF LoadTypes
      <4> QED BY <1>3, <4>1, <4>2
    <3> QED BY <1>1, <2>8, <2>9, <2>10, <3>2 DEF LoadTypes
  <2>12. ASSUME NEW v \in Waves \ {w} PROVE WaveSound(v)'
    <3>1. v[2] <= Halves => PlaceOf(v) # main.at /\ PlaceOf(v) \in Nat
      BY <1>3, WavePlaces
    <3> QED BY <1>1, <1>3, <2>8, <2>9, <3>1, WaveKept
  <2>13. /\ Plan(w, 1)' = Plan(w, 1) /\ Halves' = Halves /\ PlaceOf(w)' = PlaceOf(w)
    BY <1>1, PlanKept
  <2>14. Launched(w)'
    BY <2>7, <2>8 DEF Launched
  <2>15. WaveSound(w)'
    <3>1. \E n \in Nat : x.total = n * BatchOf(w)'
      <4>1. CASE test.kind = "random"
        <5>1. BatchOf(w)' = x.total /\ x.total \in Nat
          BY <1>1, <2>5, <2>7, <2>8, <4>1 DEF BatchOf, Numbers
        <5>2. x.total = 1 * BatchOf(w)'
          BY <5>1
        <5> QED BY <5>2
      <4>2. CASE test.kind # "random"
        <5>1. BatchOf(w)' = p.batch
          BY <1>1, <2>1, <2>4, <2>13, <4>2 DEF BatchOf
        <5> QED BY <2>5, <2>7, <5>1
      <4> QED BY <4>1, <4>2
    <3>2. BatchOf(w)' \in Int
      <4>1. CASE test.kind = "random"
        BY <1>1, <2>5, <2>7, <2>8, <4>1 DEF BatchOf, Numbers
      <4>2. CASE test.kind # "random"
        BY <1>1, <2>1, <2>4, <2>5, <2>13, <4>2 DEF BatchOf, Numbers
      <4> QED BY <4>1, <4>2
    <3>3. 0 = 0 * BatchOf(w)' /\ 0 <= x.total
      BY <2>5, <2>7, <3>2 DEF Numbers
    <3>4. test.kind # "random" => x.total = Plan(w, 1).total
      BY <2>1, <2>4, <2>7
    <3>5. PlaceOf(w) < main'.at
      BY <1>3, <2>9
    <3> QED BY <1>1, <1>3, <2>3, <2>7, <2>8, <2>13, <2>14, <3>1, <3>3, <3>4, <3>5 DEF WaveSound
  <2>16. ASSUME test.kind # "random", NEW v \in Waves, v[1] # w[1] PROVE CellsSound(v)'
    <3>1. <<v[1], 1>> \in Waves \ {w} /\ v[1] \in 1 .. Minutes \ {w[1]} /\ v # w
      BY <2>16, WavePlaces
    <3>2. Launched(<<v[1], 1>>)' => Launched(<<v[1], 1>>)
      BY <2>8, <3>1 DEF Launched
    <3> QED BY <1>1, <2>8, <2>10, <2>16, <3>1, <3>2, CellsKept
  <2>17. ASSUME test.kind # "random", NEW v \in Waves, v[1] = w[1], v[2] <= Halves PROVE CellsSound(v)'
    <3>1. p = Plan(w, 1) /\ Plan(v, 1)' = Plan(v, 1) /\ v[2] \in {1, 2} /\ v = <<w[1], v[2]>> /\ w = <<w[1], w[2]>>
      BY <1>1, <1>3, <2>1, <2>4, <2>17, PlanKept, WavePlaces
    <3>2. PICK s : s = Plan(v, 1)
      OBVIOUS
    <3>3. Numbers(s) /\ s.shift + s.total <= s.cells /\ (test.kind = "cache" => s.cells = First + Second)
      BY <2>2, <2>3, <2>17, <3>2, PlanFacts
    <3>4. s.cells = p.cells
      <4>1. CASE test.kind = "cache"
        BY <2>5, <3>3, <4>1
      <4>2. CASE test.kind # "cache"
        <5>1. v = w
          BY <1>3, <2>17, <3>1, <4>2 DEF Halves
        <5> QED BY <3>1, <3>2, <5>1
      <4> QED BY <4>1, <4>2
    <3>5. CASE w[2] = 1
      <4>1. wave'[v].sent = 0
        <5>1. CASE v = w
          BY <2>7, <2>8, <5>1
        <5>2. CASE v # w
          <6>1. v[2] = 2 /\ Halves = 2
            BY <1>3, <2>17, <3>1, <3>5, <5>2
          <6>2. PlaceOf(v) = main.at + 1
            BY <1>3, <2>17, <3>5, <6>1 DEF PlaceOf
          <6>3. ~Launched(v)
            BY <1>3, <6>2 DEF SpikeSound, WaveSound
          <6>4. wave[v] = NoWave
            BY <6>3 DEF SpikeSound, WaveSound
          <6> QED BY <2>8, <5>2, <6>4 DEF NoWave
        <5> QED BY <5>1, <5>2
      <4>2. ASSUME NEW q \in 0 .. s.total - 1 PROVE stored'[w[1]][s.shift + q] = Stored(v, q)'
        <5>1. s.shift + q \in 0 .. p.cells - 1
          BY <3>3, <3>4, <4>2 DEF Numbers
        <5>2. Stored(v, q)' = 0
          BY <3>3, <4>1, <4>2 DEF Stored, Numbers
        <5> QED BY <2>10, <3>5, <5>1, <5>2
      <4> QED BY <2>10, <2>17, <3>1, <3>2, <3>4, <3>5, <4>2 DEF CellsSound
    <3>6. CASE w[2] = 2
      <4>1. PICK u \in Waves : u = <<w[1], 1>>
        BY <1>3, WavePlaces
      <4>2. u # w /\ u[1] = w[1] /\ u[2] = 1 /\ Halves = 2
        BY <1>3, <3>6, <4>1
      <4>3. PlaceOf(u) = main.at - 1
        BY <1>3, <3>6, <4>2 DEF PlaceOf
      <4>4. Launched(u)
        BY <1>3, <4>2, <4>3 DEF SpikeSound, WaveSound
      <4>5. CellsSound(v) /\ ~Launched(w)
        BY <1>3, <2>17 DEF SpikeSound, WaveSound
      <4>6. wave[w] = NoWave
        BY <1>3, <4>5 DEF SpikeSound, WaveSound
      <4>7. /\ DOMAIN stored[w[1]] = 0 .. s.cells - 1
            /\ \A q \in 0 .. s.total - 1 : stored[w[1]][s.shift + q] = Stored(v, q)
        BY <2>17, <3>2, <4>1, <4>4, <4>5 DEF CellsSound
      <4>8. ASSUME NEW q \in 0 .. s.total - 1 PROVE Stored(v, q)' = Stored(v, q)
        <5>1. CASE v = w
          BY <2>7, <2>8, <3>3, <4>6, <4>8, <5>1 DEF Stored, NoWave, Numbers
        <5>2. CASE v # w
          BY <2>8, <5>2 DEF Stored
        <5> QED BY <5>1, <5>2
      <4> QED BY <2>10, <2>17, <3>1, <3>2, <3>6, <4>7, <4>8 DEF CellsSound
    <3> QED BY <1>3, <3>5, <3>6
  <2>18. \A v \in Waves : test.kind # "random" => CellsSound(v)'
    <3>1. ASSUME NEW v \in Waves, ~(v[2] <= Halves) PROVE CellsSound(v)'
      BY <2>13, <3>1 DEF CellsSound
    <3> QED BY <2>16, <2>17, <3>1
  <2> QED BY <1>1, <2>9, <2>11, <2>12, <2>15, <2>18 DEF SpikeSound
<1> QED BY <1>4, <1>5

LEMMA ReportSound ==
  ASSUME LoadTypes, SpikeSound, test.kind \in Spikes, report
  PROVE  LoadTypes' /\ SpikeSound'
<1>0. PICK p \in {"reported", "error"} : main' = [main EXCEPT !.pc = p]
  BY DEF report
<1>1. /\ main' = [main EXCEPT !.pc = p] /\ UNCHANGED <<test, wave, stored, worker>>
      /\ \A w \in Waves : Counted(w) => wave[w].pc = "done"
  BY <1>0 DEF report
<1>2. LoadTypes' /\ main'.pc = p /\ main'.at = main.at
  BY <1>1 DEF LoadTypes
<1>3. \A v : Launched(v)' <=> Launched(v)
  BY <1>1 DEF Launched
<1>4. \A v \in Waves : WaveSound(v)' /\ (test.kind # "random" => CellsSound(v)')
  BY <1>1, <1>2, <1>3, WaveKept, CellsKept
<1> QED BY <1>1, <1>2, <1>4, PlanKept DEF SpikeSound

LEMMA HeadersRaceSound ==
  ASSUME LoadTypes, SpikeSound, headersRace
  PROVE  LoadTypes' /\ SpikeSound'
<1>1. main' = [main EXCEPT !.pc = "raced"] /\ UNCHANGED <<test, wave, stored, worker>>
  BY DEF headersRace
<1>2. LoadTypes' /\ main'.pc = "raced" /\ main'.at = main.at
  BY <1>1 DEF LoadTypes
<1>3. \A v : Launched(v)' <=> Launched(v)
  BY <1>1 DEF Launched
<1>4. \A v \in Waves : WaveSound(v)' /\ (test.kind # "random" => CellsSound(v)')
  BY <1>1, <1>2, <1>3, WaveKept, CellsKept
<1> QED BY <1>1, <1>2, <1>4, PlanKept DEF SpikeSound

(* What concerns neither the waves nor the handler. *)
LEMMA SpikeKept ==
  ASSUME SpikeSound, UNCHANGED <<test, main, wave, stored>>
  PROVE  SpikeSound'
<1>1. \A v : Launched(v)' <=> Launched(v)
  BY DEF Launched
<1>2. \A v \in Waves : WaveSound(v)' /\ (test.kind # "random" => CellsSound(v)')
  BY <1>1, WaveKept, CellsKept
<1> QED BY <1>2, PlanKept DEF SpikeSound

-----------------------------------------------------------------------------
(* The steps of a benchmark                                                 *)

LEMMA NobodyCounted ==
  ASSUME NEW f
  PROVE  Cardinality(CountedBy(f, 1)) = 0
<1>1. CountedBy(f, 1) = {}
  BY DEF CountedBy
<1> QED BY <1>1, FS_EmptySet

LEMMA CountsSame ==
  ASSUME NEW f, NEW g, NEW k \in Nat, \A w \in 1 .. k - 1 : f[w] = g[w]
  PROVE  CountedBy(f, k) = CountedBy(g, k)
<1>1. \A u \in (1 .. k - 1) \X (1 .. MaxLoops) : f[u[1]] = g[u[1]]
  OBVIOUS
<1> QED BY <1>1 DEF CountedBy

(* One worker more adds what it has counted. *)
LEMMA CountsAdd ==
  ASSUME NEW f, NEW k \in Nat \ {0}, f[k] \in 0 .. MaxLoops
  PROVE  Cardinality(CountedBy(f, k + 1)) = Cardinality(CountedBy(f, k)) + f[k]
<1>1. MaxLoops \in Nat
  BY LoadTestAssumption
<1>2. PICK A, B : A = CountedBy(f, k) /\ B = {k} \X (1 .. f[k])
  OBVIOUS
<1>3. CountedBy(f, k + 1) = A \cup B
  <2>1. ASSUME NEW u \in CountedBy(f, k + 1) PROVE u \in A \cup B
    <3>1. u \in (1 .. k) \X (1 .. MaxLoops) /\ u[2] <= f[u[1]]
      BY DEF CountedBy
    <3>2. CASE u[1] = k
      <4>1. u[2] \in 1 .. f[k] /\ u = <<u[1], u[2]>>
        BY <1>1, <3>1, <3>2
      <4> QED BY <1>2, <3>2, <4>1
    <3>3. CASE u[1] # k
      <4>1. u[1] \in 1 .. k - 1 /\ u[2] \in 1 .. MaxLoops /\ u = <<u[1], u[2]>>
        BY <3>1, <3>3
      <4>2. u \in (1 .. k - 1) \X (1 .. MaxLoops)
        BY <4>1
      <4> QED BY <1>2, <3>1, <4>2 DEF CountedBy
    <3> QED BY <3>2, <3>3
  <2>2. ASSUME NEW u \in A PROVE u \in CountedBy(f, k + 1)
    BY <1>2, <2>2 DEF CountedBy
  <2>3. ASSUME NEW u \in B PROVE u \in CountedBy(f, k + 1)
    BY <1>1, <1>2, <2>3 DEF CountedBy
  <2> QED BY <2>1, <2>2, <2>3
<1>4. A \cap B = {}
  BY <1>2 DEF CountedBy
<1>5. IsFiniteSet(B) /\ Cardinality(B) = f[k]
  <2>1. IsFiniteSet({k}) /\ Cardinality({k}) = 1
    BY FS_Singleton
  <2>2. IsFiniteSet(1 .. f[k]) /\ Cardinality(1 .. f[k]) = f[k]
    <3>1. PICK n \in Nat : n = f[k]
      BY <1>1
    <3>2. 1 \in Int /\ n \in Int
      BY <3>1
    <3>3. IsFiniteSet(1 .. n) /\ Cardinality(1 .. n) = IF 1 > n THEN 0 ELSE n - 1 + 1
      BY <3>2, FS_Interval, Zenon
    <3> QED BY <3>1, <3>3
  <2>3. IsFiniteSet({k} \X (1 .. f[k])) /\ Cardinality({k} \X (1 .. f[k])) = Cardinality({k}) * Cardinality(1 .. f[k])
    BY <2>1, <2>2, FS_Product, Zenon
  <2> QED BY <1>1, <1>2, <2>1, <2>2, <2>3
<1>6. IsFiniteSet(A)
  <2>1. IsFiniteSet(1 .. k - 1) /\ IsFiniteSet(1 .. MaxLoops)
    BY <1>1, FS_Interval
  <2>2. IsFiniteSet((1 .. k - 1) \X (1 .. MaxLoops))
    BY <2>1, FS_Product, Zenon
  <2>3. A \subseteq (1 .. k - 1) \X (1 .. MaxLoops)
    BY <1>2 DEF CountedBy
  <2> QED BY <2>2, <2>3, FS_Subset
<1>7. Cardinality(A \cup B) = Cardinality(A) + Cardinality(B) - Cardinality(A \cap B)
  BY <1>5, <1>6, FS_Union
<1>8. Cardinality(A \cap B) = 0 /\ Cardinality(A) \in Nat
  <2>1. Cardinality({}) = 0
    BY FS_EmptySet
  <2> QED BY <1>4, <1>6, <2>1, FS_CardinalityType
<1>9. Cardinality(A \cup B) = Cardinality(A) + f[k]
  <2>1. PICK a \in Nat, n \in Nat : a = Cardinality(A) /\ n = f[k]
    BY <1>1, <1>8
  <2>2. Cardinality(A \cup B) = a + n - 0
    BY <1>5, <1>7, <1>8, <2>1
  <2> QED BY <2>1, <2>2
<1> QED BY <1>2, <1>3, <1>9

LEMMA CountersTyped ==
  ASSUME LoadTypes
  PROVE  /\ DOMAIN worker = 1 .. test.count
         /\ \A w \in 1 .. test.count : Oks[w] = worker[w].ok /\ Bads[w] = worker[w].bad
BY DEF LoadTypes, Oks, Bads

(* What the handler has added up does not depend on the workers it has not  *)
(* gathered.                                                                *)
LEMMA SumsKept ==
  ASSUME LoadTypes, LoadTypes', test' = test, main'.at = main.at, main.at <= test.count + 1,
         \A w \in 1 .. main.at - 1 : worker'[w].ok = worker[w].ok /\ worker'[w].bad = worker[w].bad
  PROVE  /\ CountedBy(Oks, main.at)' = CountedBy(Oks, main.at)
         /\ CountedBy(Bads, main.at)' = CountedBy(Bads, main.at)
<1>1. main.at \in Nat /\ test.count \in Nat
  BY DEF LoadTypes
<1>2. \A w \in 1 .. main.at - 1 : w \in 1 .. test.count
  BY <1>1
<1>3. DOMAIN worker = 1 .. test.count /\ DOMAIN worker' = 1 .. test.count
  BY DEF LoadTypes
<1>4. \A w \in 1 .. main.at - 1 : Oks'[w] = Oks[w] /\ Bads'[w] = Bads[w]
  BY <1>2, <1>3 DEF Oks, Bads
<1>5. CountedBy(Oks', main.at) = CountedBy(Oks, main.at) /\ CountedBy(Bads', main.at) = CountedBy(Bads, main.at)
  BY <1>1, <1>4, CountsSame
<1>6. CountedBy(Oks, main.at)' = CountedBy(Oks', main.at) /\ CountedBy(Bads, main.at)' = CountedBy(Bads', main.at)
  BY DEF CountedBy
<1> QED BY <1>5, <1>6

LEMMA StartWorkersSound ==
  ASSUME LoadTypes, BenchSound, startWorkers
  PROVE  LoadTypes' /\ BenchSound' /\ UNCHANGED <<test, wave>>
<1>1. /\ main.pc = "run" /\ UNCHANGED <<test, wave, stored>>
      /\ worker' = [w \in DOMAIN worker |-> [worker[w] EXCEPT !.pc = "loop"]]
      /\ main' = [main EXCEPT !.pc = "gather"]
  BY DEF startWorkers
<1>2. main'.pc = "gather" /\ main'.at = main.at /\ main'.ok = main.ok /\ main'.bad = main.bad /\ main.at = 1
  BY <1>1 DEF LoadTypes, BenchSound
<1>3. \A w \in 1 .. test.count : worker'[w].pc = "loop" /\ worker'[w].ok = 0 /\ worker'[w].bad = 0 /\ worker'[w] \in WorkerRecord
  BY <1>1 DEF LoadTypes, BenchSound, WorkerSound, WorkerRecord
<1>4. LoadTypes'
  <2>1. worker' \in [1 .. test.count -> WorkerRecord]
    BY <1>1, <1>3 DEF LoadTypes
  <2> QED BY <1>1, <2>1 DEF LoadTypes, Waves
<1>5. \A w \in 1 .. test.count : WorkerSound(w)'
  BY <1>2, <1>3, LoadTestAssumption DEF WorkerSound
<1>6. CountedBy(Oks, main.at)' = CountedBy(Oks, main.at) /\ CountedBy(Bads, main.at)' = CountedBy(Bads, main.at)
  BY <1>1, <1>2, <1>4, SumsKept DEF BenchSound
<1> QED BY <1>1, <1>2, <1>4, <1>5, <1>6 DEF BenchSound

LEMMA LoopSound ==
  ASSUME LoadTypes, BenchSound, NEW w \in 1 .. test.count, loop(w)
  PROVE  LoadTypes' /\ BenchSound' /\ UNCHANGED <<test, wave>>
<1>1. worker[w].pc = "loop" /\ UNCHANGED <<test, main, wave, stored>> /\ worker[w] \in WorkerRecord
  BY DEF loop, LoadTypes
<1>2. PICK x : x = IF call[w].pc = "ok" THEN [worker[w] EXCEPT !.ok = @ + 1] ELSE [worker[w] EXCEPT !.bad = @ + 1]
  OBVIOUS
<1>3. x \in WorkerRecord /\ x.pc = "loop" /\ x.ok + x.bad = worker[w].ok + worker[w].bad + 1
  BY <1>1, <1>2 DEF WorkerRecord
<1>4. PICK y : worker' = [worker EXCEPT ![w] = y]
               /\ (y = [x EXCEPT !.pc = "send"] \/ (y = x /\ x.ok + x.bad < MaxLoops))
  BY <1>2 DEF loop
<1>5. /\ y \in WorkerRecord /\ y.pc \in {"loop", "send"} /\ y.ok + y.bad = worker[w].ok + worker[w].bad + 1
      /\ y.pc = "loop" => y.ok + y.bad < MaxLoops
  BY <1>3, <1>4 DEF WorkerRecord
<1>6. /\ worker' \in [1 .. test.count -> WorkerRecord] /\ worker'[w] = y
      /\ \A v \in 1 .. test.count : v # w => worker'[v] = worker[v]
  BY <1>4, <1>5 DEF LoadTypes
<1>7. LoadTypes'
  BY <1>1, <1>6 DEF LoadTypes, Waves
<1>8. WorkerSound(w)
  BY DEF BenchSound
<1>9. main.pc # "run" /\ ~(w < main.at) /\ worker[w].ok + worker[w].bad < MaxLoops
  BY <1>1, <1>8 DEF WorkerSound
<1>10. WorkerSound(w)'
  <2>1. worker[w].ok + worker[w].bad + 1 <= MaxLoops
    BY <1>1, <1>9, LoadTestAssumption DEF WorkerRecord
  <2>2. y.pc # "gone"
    BY <1>5
  <2> QED BY <1>1, <1>5, <1>6, <1>9, <2>1, <2>2 DEF WorkerSound
<1>11. \A v \in 1 .. test.count : v # w => WorkerSound(v)'
  BY <1>1, <1>6 DEF BenchSound, WorkerSound
<1>12. CountedBy(Oks, main.at)' = CountedBy(Oks, main.at) /\ CountedBy(Bads, main.at)' = CountedBy(Bads, main.at)
  <2>1. main.at \in Nat /\ test.count \in Nat /\ main.at <= test.count + 1
    BY DEF LoadTypes, BenchSound
  <2>2. \A v \in 1 .. main.at - 1 : worker'[v].ok = worker[v].ok /\ worker'[v].bad = worker[v].bad
    BY <1>6, <1>9, <2>1
  <2> QED BY <1>1, <1>7, <2>1, <2>2, SumsKept
<1> QED BY <1>1, <1>7, <1>10, <1>11, <1>12 DEF BenchSound

LEMMA GatherSound ==
  ASSUME LoadTypes, BenchSound, NEW w \in 1 .. test.count, gather(w)
  PROVE  LoadTypes' /\ BenchSound' /\ UNCHANGED <<test, wave>>
<1>1. /\ main.pc = "gather" /\ main.at = w /\ worker[w].pc = "send" /\ main' = adds(worker[w])
      /\ worker' = [worker EXCEPT ![w].pc = "gone"] /\ UNCHANGED <<test, wave, stored>>
      /\ worker[w] \in WorkerRecord /\ WorkerSound(w) /\ test.count \in Nat
      /\ main \in [pc : {"run", "gather", "reported", "error", "panicked", "crashed", "raced"}, at : Nat \ {0}, ok : Nat, bad : Nat]
  BY DEF gather, LoadTypes, BenchSound
<1>2. /\ worker[w].ok \in 0 .. MaxLoops /\ worker[w].bad \in 0 .. MaxLoops
  BY <1>1, LoadTestAssumption DEF WorkerSound, WorkerRecord
<1>3. /\ main'.at = w + 1 /\ main'.pc = "gather" /\ main'.ok = main.ok + worker[w].ok /\ main'.bad = main.bad + worker[w].bad
      /\ main' \in [pc : {"run", "gather", "reported", "error", "panicked", "crashed", "raced"}, at : Nat \ {0}, ok : Nat, bad : Nat]
  <2>1. PICK a, o, b : a = w + 1 /\ o = main.ok + worker[w].ok /\ b = main.bad + worker[w].bad
    OBVIOUS
  <2>0. a \in Nat \ {0} /\ o \in Nat /\ b \in Nat
    BY <1>1, <1>2, <2>1, LoadTestAssumption
  <2>2. main' = [main EXCEPT !.at = a, !.ok = o, !.bad = b]
    BY <1>1, <2>1 DEF adds
  <2> QED BY <1>1, <2>0, <2>1, <2>2
<1>4. /\ worker' \in [1 .. test.count -> WorkerRecord]
      /\ \A v \in 1 .. test.count : /\ worker'[v].ok = worker[v].ok /\ worker'[v].bad = worker[v].bad
                                    /\ worker'[v].pc = IF v = w THEN "gone" ELSE worker[v].pc
  BY <1>1 DEF LoadTypes, WorkerRecord
<1>5. LoadTypes'
  BY <1>1, <1>3, <1>4 DEF LoadTypes, Waves
<1>6. \A v \in 1 .. test.count : WorkerSound(v)'
  <2> SUFFICES ASSUME NEW v \in 1 .. test.count PROVE WorkerSound(v)'
    OBVIOUS
  <2>1. WorkerSound(v)
    BY DEF BenchSound
  <2>2. v = w \/ (worker[v].pc = "gone" <=> v < w)
    BY <1>1, <2>1 DEF WorkerSound
  <2>3. worker'[v].pc = "gone" <=> v < w + 1
    BY <1>4, <2>2
  <2> QED BY <1>3, <1>4, <2>1, <2>3 DEF WorkerSound
<1>7. /\ Oks' = Oks /\ Bads' = Bads
  BY <1>4 DEF LoadTypes, Oks, Bads
<1>8. Oks[w] = worker[w].ok /\ Bads[w] = worker[w].bad
  BY CountersTyped
<1>9. /\ Cardinality(CountedBy(Oks, w + 1)) = Cardinality(CountedBy(Oks, w)) + worker[w].ok
      /\ Cardinality(CountedBy(Bads, w + 1)) = Cardinality(CountedBy(Bads, w)) + worker[w].bad
  BY <1>1, <1>2, <1>8, CountsAdd
<1>10. /\ Cardinality(CountedBy(Oks, main.at)') = Cardinality(CountedBy(Oks, w + 1))
       /\ Cardinality(CountedBy(Bads, main.at)') = Cardinality(CountedBy(Bads, w + 1))
  BY <1>3, <1>7 DEF CountedBy
<1>11. main.ok = Cardinality(CountedBy(Oks, w)) /\ main.bad = Cardinality(CountedBy(Bads, w))
  BY <1>1 DEF BenchSound
<1>12. main'.ok = Cardinality(CountedBy(Oks, main.at))' /\ main'.bad = Cardinality(CountedBy(Bads, main.at))'
  BY <1>3, <1>9, <1>10, <1>11
<1> QED BY <1>1, <1>3, <1>5, <1>6, <1>12 DEF BenchSound

LEMMA BenchmarkEndsSound ==
  ASSUME LoadTypes, BenchSound, benchmarkEnds
  PROVE  LoadTypes' /\ BenchSound' /\ UNCHANGED <<test, wave>>
<1>1. PICK p : p \in {"panicked", "error", "reported"} /\ main' = [main EXCEPT !.pc = p]
  BY DEF benchmarkEnds
<1>2. main.at > test.count /\ main.pc = "gather" /\ UNCHANGED <<test, wave, stored, worker>>
  BY DEF benchmarkEnds
<1>3. main'.at = main.at /\ main'.ok = main.ok /\ main'.bad = main.bad /\ main'.pc = p
  BY <1>1 DEF LoadTypes
<1>4. LoadTypes'
  BY <1>1, <1>2 DEF LoadTypes, Waves
<1>5. main.at = test.count + 1
  BY <1>2 DEF LoadTypes, BenchSound
<1>6. \A w \in 1 .. test.count : WorkerSound(w)'
  BY <1>1, <1>2, <1>3 DEF BenchSound, WorkerSound
<1>7. CountedBy(Oks, main.at)' = CountedBy(Oks, main.at) /\ CountedBy(Bads, main.at)' = CountedBy(Bads, main.at)
  <2>1. main.at <= test.count + 1
    BY DEF BenchSound
  <2>2. \A w \in 1 .. main.at - 1 : worker'[w].ok = worker[w].ok /\ worker'[w].bad = worker[w].bad
    BY <1>2
  <2>3. test' = test
    BY <1>2
  <2> QED BY <1>3, <1>4, <2>1, <2>2, <2>3, SumsKept
<1> QED BY <1>1, <1>2, <1>3, <1>4, <1>5, <1>6, <1>7 DEF BenchSound

LEMMA BenchKept ==
  ASSUME BenchSound, UNCHANGED <<test, main, worker>>
  PROVE  BenchSound'
BY DEF BenchSound, WorkerSound, CountedBy, Oks, Bads

-----------------------------------------------------------------------------
(* A test from its start to its report                                      *)

LEMMA NoTestNoWave ==
  ASSUME OthersIdle, test.kind \notin Spikes, NEW w \in Waves
  PROVE  ~WaveStep(w)
<1>1. wave[w].pc = "off" /\ wave[w].open = {}
  BY DEF OthersIdle, NoWave
<1> QED BY <1>1 DEF WaveStep, sendBatch, waveEnds, callDone

LEMMA LoadBegins ==
  ASSUME NEW t, t.rows \in Seq(Nat), t.count \in Nat, LTInit(t)
  PROVE  LoadSound
<1>1. /\ test = t /\ main = [pc |-> "run", at |-> 1, ok |-> 0, bad |-> 0]
      /\ wave = [w \in Waves |-> NoWave] /\ stored = [m \in 1 .. Minutes |-> <<>>]
      /\ worker = [w \in 1 .. t.count |-> [pc |-> "new", ok |-> 0, bad |-> 0]]
  BY DEF LTInit
<1>2. LoadTypes
  <2>1. NoWave \in WaveRecord
    BY DEF NoWave, WaveRecord
  <2>2. \A m \in 1 .. Minutes : IsFiniteSet(DOMAIN stored[m])
    <3>1. DOMAIN <<>> = {}
      OBVIOUS
    <3>2. IsFiniteSet({})
      BY FS_EmptySet
    <3>3. \A m \in 1 .. Minutes : stored[m] = <<>>
      BY <1>1
    <3> QED BY <3>1, <3>2, <3>3
  <2>3. main \in [pc : {"run", "gather", "reported", "error", "panicked", "crashed", "raced"}, at : Nat \ {0}, ok : Nat, bad : Nat]
    BY <1>1
  <2>4. worker \in [1 .. test.count -> WorkerRecord]
    BY <1>1 DEF WorkerRecord
  <2>5. DOMAIN stored = 1 .. Minutes /\ wave \in [Waves -> WaveRecord]
    BY <1>1, <2>1
  <2> QED BY <1>1, <2>2, <2>3, <2>4, <2>5 DEF LoadTypes
<1>3. OthersIdle
  BY <1>1 DEF OthersIdle
<1>4. \A w \in Waves : ~Launched(w) /\ wave[w] = NoWave
  BY <1>1 DEF Launched, NoWave
<1>5. SpikeSound
  <2>1. \A w \in Waves : WaveSound(w)
    <3> SUFFICES ASSUME NEW w \in Waves PROVE WaveSound(w)
      OBVIOUS
    <3>1. PlaceOf(w) \in Nat \ {0} /\ main.at = 1
      BY <1>1, WavePlaces
    <3>2. ~(PlaceOf(w) < main.at) /\ wave[w].pc = "off"
      BY <1>4, <3>1 DEF NoWave
    <3> QED BY <1>4, <3>2 DEF WaveSound
  <2>2. \A w \in Waves : CellsSound(w)
    <3>1. \A w \in Waves : <<w[1], 1>> \in Waves
      BY WavePlaces
    <3> QED BY <1>4, <3>1 DEF CellsSound
  <2> QED BY <1>1, <2>1, <2>2 DEF SpikeSound
<1>6. BenchSound
  <2>1. \A w \in 1 .. test.count : WorkerSound(w)
    BY <1>1, LoadTestAssumption DEF WorkerSound
  <2>2. Cardinality(CountedBy(Oks, 1)) = 0 /\ Cardinality(CountedBy(Bads, 1)) = 0
    BY NobodyCounted
  <2>3. main.at = 1 /\ main.ok = 0 /\ main.bad = 0 /\ main.pc = "run" /\ 1 <= test.count + 1
    BY <1>1
  <2> QED BY <2>1, <2>2, <2>3 DEF BenchSound
<1> QED BY <1>2, <1>3, <1>5, <1>6 DEF LoadSound

LEMMA SpikeStep ==
  ASSUME LoadSound, LTNext, test.kind \in Spikes
  PROVE  LoadSound'
<1>1. LoadTypes /\ SpikeSound /\ OthersIdle /\ DOMAIN worker = 1 .. test.count /\ test.kind # "benchmark"
  BY DEF LoadSound, LoadTypes, Spikes
<1>2. main.pc # "gather" /\ \A w \in 1 .. test.count : worker[w].pc = "new"
  BY <1>1 DEF OthersIdle
<1>3. launch \/ report \/ headersRace \/ \E w \in Waves : WaveStep(w)
  <2>1. ~startWorkers /\ ~benchmarkEnds
    BY <1>1, <1>2 DEF startWorkers, benchmarkEnds
  <2>2. \A w \in 1 .. test.count : ~WorkerStep(w)
    BY <1>2 DEF WorkerStep, loop, gather
  <2> QED BY <1>1, <2>1, <2>2 DEF LTNext
<1>4. LoadTypes' /\ SpikeSound'
  <2>1. CASE launch
    BY <1>1, <2>1, LaunchSound
  <2>2. CASE report
    BY <1>1, <2>2, ReportSound
  <2>4. CASE headersRace
    BY <1>1, <2>4, HeadersRaceSound
  <2>3. ASSUME NEW w \in Waves, WaveStep(w) PROVE LoadTypes' /\ SpikeSound'
    <3>1. CASE sendBatch(w)
      BY <1>1, <3>1, SendBatchSound
    <3>2. CASE waveEnds(w)
      BY <1>1, <3>2, WaveEndsSound
    <3>3. ASSUME NEW q \in 0 .. MaxPerMinute - 1, callDone(w, q) PROVE LoadTypes' /\ SpikeSound'
      BY <1>1, <3>3, CallDoneSound, Zenon
    <3> QED BY <2>3, <3>1, <3>2, <3>3 DEF WaveStep
  <2> QED BY <1>3, <2>1, <2>2, <2>3, <2>4
<1>5. UNCHANGED <<test, worker>>
  BY <1>3, ZenonT(40) DEF launch, report, headersRace, WaveStep, sendBatch, waveEnds, callDone
<1>6. OthersIdle'
  <2>1. main'.pc # "gather"
    BY <1>4 DEF SpikeSound
  <2> QED BY <1>1, <1>2, <1>5, <2>1 DEF OthersIdle
<1> QED BY <1>1, <1>4, <1>5, <1>6 DEF LoadSound

LEMMA OtherStep ==
  ASSUME LoadSound, LTNext, test.kind \notin Spikes
  PROVE  LoadSound'
<1>1. LoadTypes /\ OthersIdle /\ DOMAIN worker = 1 .. test.count
  BY DEF LoadSound, LoadTypes
<1>2. ~launch /\ ~report /\ ~headersRace /\ \A w \in Waves : ~WaveStep(w)
  BY <1>1, NoTestNoWave DEF launch, report, headersRace
<1>3. startWorkers \/ benchmarkEnds \/ \E w \in 1 .. test.count : WorkerStep(w)
  BY <1>1, <1>2 DEF LTNext
<1>4. test.kind = "benchmark"
  BY <1>1, <1>3 DEF startWorkers, benchmarkEnds, WorkerStep, loop, gather, OthersIdle
<1>5. BenchSound
  BY <1>4 DEF LoadSound
<1>6. LoadTypes' /\ BenchSound' /\ UNCHANGED <<test, wave>>
  <2>1. CASE startWorkers
    BY <1>1, <1>5, <2>1, StartWorkersSound
  <2>2. CASE benchmarkEnds
    BY <1>1, <1>5, <2>2, BenchmarkEndsSound
  <2>3. ASSUME NEW w \in 1 .. test.count, WorkerStep(w) PROVE LoadTypes' /\ BenchSound' /\ UNCHANGED <<test, wave>>
    <3>1. CASE loop(w)
      BY <1>1, <1>5, <3>1, LoopSound
    <3>2. CASE gather(w)
      BY <1>1, <1>5, <3>2, GatherSound
    <3> QED BY <2>3, <3>1, <3>2 DEF WorkerStep
  <2> QED BY <1>3, <2>1, <2>2, <2>3
<1>7. OthersIdle'
  BY <1>1, <1>4, <1>6 DEF OthersIdle
<1> QED BY <1>4, <1>6, <1>7 DEF LoadSound

LEMMA LoadKept ==
  ASSUME LoadSound, UNCHANGED ltVars
  PROVE  LoadSound'
<1>1. UNCHANGED <<test, main, wave, stored, worker>>
  BY DEF ltVars
<1>2. LoadTypes' /\ OthersIdle'
  BY <1>1 DEF LoadSound, LoadTypes, OthersIdle
<1>3. test.kind \in Spikes => SpikeSound'
  BY <1>1, SpikeKept DEF LoadSound
<1>4. test.kind = "benchmark" => BenchSound'
  BY <1>1, BenchKept DEF LoadSound
<1> QED BY <1>1, <1>2, <1>3, <1>4 DEF LoadSound

LEMMA SpikeReports ==
  ASSUME LoadTypes, SpikeSound, test.kind \in Spikes, main.pc \in {"reported", "error"}, NEW w \in Waves, Counted(w)
  PROVE  /\ wave[w].open = {} /\ wave[w].sent = wave[w].total
         /\ test.kind # "random" =>
              /\ \A i \in DOMAIN stored[w[1]] : stored[w[1]][i] = 1 \/ (test.kind = "cache" /\ i < First)
              /\ wave[w].averaged >= wave[w].total
<1>1. wave[w].pc = "done" /\ WaveSound(w) /\ w[2] = Halves
  BY DEF SpikeSound, Counted
<1>2. /\ wave[w].open = {} /\ wave[w].sent = wave[w].total /\ Launched(w)
      /\ test.kind # "random" => wave[w].averaged >= wave[w].total
  BY <1>1 DEF WaveSound, Launched
<1>3. ASSUME test.kind # "random", NEW i \in DOMAIN stored[w[1]]
      PROVE  stored[w[1]][i] = 1 \/ (test.kind = "cache" /\ i < First)
  <2>1. PICK p : p = Plan(w, 1)
    OBVIOUS
  <2>2. /\ wave[w].total = p.total /\ (test.kind # "cache" => w[1] \in DOMAIN test.rows)
    BY <1>1, <1>2, <1>3, <2>1 DEF WaveSound
  <2>3. Launched(<<w[1], 1>>) /\ w[2] <= Halves
    BY <1>2, LaunchedFacts
  <2>4. /\ DOMAIN stored[w[1]] = 0 .. p.cells - 1
        /\ \A q \in 0 .. p.total - 1 : stored[w[1]][p.shift + q] = Stored(w, q)
    BY <1>3, <2>1, <2>3 DEF SpikeSound, CellsSound
  <2>5. /\ Numbers(p)
        /\ test.kind = "cache" => p.shift = First /\ p.cells = p.shift + p.total
        /\ test.kind # "cache" => p.shift = 0 /\ p.cells = p.total
    <3>1. CASE test.kind = "cache"
      <4>1. p = handleCache(2)
        BY <1>1, <2>1, <3>1 DEF Plan, Halves
      <4>2. First \in Nat /\ Second \in Nat
        BY LoadTestAssumption
      <4> QED BY <3>1, <4>1, <4>2 DEF handleCache, Numbers
    <3>2. CASE test.kind # "cache"
      BY <1>3, <2>1, <2>2, <3>2, PlanFacts DEF LoadTypes
    <3> QED BY <3>1, <3>2
  <2>6. CASE test.kind = "cache" /\ i < First
    BY <2>6
  <2>7. CASE ~(test.kind = "cache" /\ i < First)
    <3>1. PICK q : q = i - p.shift
      OBVIOUS
    <3>2. q \in 0 .. p.total - 1 /\ i = p.shift + q
      <4>1. p.total \in Nat /\ p.shift \in Nat /\ p.cells = p.shift + p.total
        BY <2>5 DEF Numbers
      <4>2. i \in 0 .. p.cells - 1 /\ i >= p.shift
        <5>1. i \in 0 .. p.cells - 1
          BY <1>3, <2>4
        <5>2. First \in Nat /\ i \in Int
          BY <4>1, <5>1, LoadTestAssumption
        <5> QED BY <2>5, <2>7, <5>1, <5>2
      <4> QED BY <3>1, <4>1, <4>2
    <3>3. Stored(w, q) = 1
      BY <1>2, <2>2, <2>5, <3>2 DEF Stored, Numbers
    <3> QED BY <2>4, <3>2, <3>3
  <2> QED BY <2>6, <2>7
<1> QED BY <1>2, <1>3

LEMMA BenchmarkReports ==
  ASSUME LoadTypes, BenchSound, main.pc \in {"reported", "error"}
  PROVE  /\ \A w \in DOMAIN worker : worker[w].pc = "gone"
         /\ main.ok = Cardinality(Completed) /\ main.bad = Cardinality(Failures)
<1>1. DOMAIN worker = 1 .. test.count /\ test.count \in Nat /\ main.at = test.count + 1
  BY DEF LoadTypes, BenchSound
<1>2. \A w \in DOMAIN worker : worker[w].pc = "gone"
  BY <1>1 DEF BenchSound, WorkerSound
<1>3. main.at - 1 = test.count
  BY <1>1
<1>4. \A w \in 1 .. test.count : Oks[w] = worker[w].ok /\ Bads[w] = worker[w].bad
  BY CountersTyped
<1>5. \A u \in (1 .. test.count) \X (1 .. MaxLoops) : Oks[u[1]] = worker[u[1]].ok /\ Bads[u[1]] = worker[u[1]].bad
  BY <1>4
<1>6. CountedBy(Oks, main.at) = Completed
  BY <1>1, <1>3, <1>5 DEF CountedBy, Completed
<1>7. CountedBy(Bads, main.at) = Failures
  BY <1>1, <1>3, <1>5 DEF CountedBy, Failures
<1> QED BY <1>2, <1>6, <1>7 DEF BenchSound

LEMMA SoundLoadReports ==
  ASSUME LoadSound
  PROVE  ReportComplete
<1>1. ASSUME main.pc \in {"reported", "error"}, test.kind \in Spikes, NEW w \in {v \in Waves : Counted(v)}
      PROVE  /\ wave[w].open = {} /\ wave[w].sent = wave[w].total
             /\ test.kind # "random" =>
                  /\ \A i \in DOMAIN stored[w[1]] :
                       stored[w[1]][i] = 1 \/ (test.kind = "cache" /\ i < First)
                  /\ wave[w].averaged >= wave[w].total
  BY <1>1, SpikeReports DEF LoadSound
<1>2. ASSUME main.pc \in {"reported", "error"}, test.kind = "benchmark"
      PROVE  /\ \A w \in DOMAIN worker : worker[w].pc = "gone"
             /\ main.ok = Cardinality(Completed) /\ main.bad = Cardinality(Failures)
  BY <1>2, BenchmarkReports DEF LoadSound
<1> QED BY <1>1, <1>2 DEF ReportComplete

(* A report is about all of the test, for every number of minutes, every    *)
(* file of counts, every number of workers and every bound: when the        *)
(* handlers of runner_fninvoke.go write the result of a spike test, every   *)
(* call of a minute that wg counts is over, has stored its latency once in  *)
(* a cell of its own and is in the average; when benchmark answers, every   *)
(* worker has stopped and its counts were added once.                       *)
THEOREM ReportsAlwaysComplete == FrontSpec => []ReportComplete
<1>1. FrontInit => LoadSound
  <2> SUFFICES ASSUME FrontInit PROVE LoadSound
    OBVIOUS
  <2>1. scene \in Scenes /\ LTInit(scene.test)
    BY DEF FrontInit
  <2>2. scene.test.rows \in Seq(Nat) /\ scene.test.count \in Nat
    BY <2>1, FrontEndAssumption
  <2> QED BY <2>1, <2>2, LoadBegins
<1>2. LoadSound /\ [FrontNext]_frontVars => LoadSound'
  <2> SUFFICES ASSUME LoadSound, [FrontNext]_frontVars PROVE LoadSound'
    OBVIOUS
  <2>1. UNCHANGED ltVars \/ LTNext
    BY DEF FrontNext, frontVars
  <2>2. CASE UNCHANGED ltVars
    BY <2>2, LoadKept
  <2>3. CASE LTNext
    BY <2>3, SpikeStep, OtherStep
  <2> QED BY <2>1, <2>2, <2>3
<1>3. LoadSound => ReportComplete
  BY SoundLoadReports
<1> QED BY <1>1, <1>2, <1>3, PTL DEF FrontSpec

-----------------------------------------------------------------------------
(* Opening the database                                                      *)

Latest(d) == SchemaAt(d, latestVersion)
FirstDb ==
  IF conf.base = Fresh THEN [schema |-> << >>, version |-> NilVersion, dirty |-> FALSE]
  ELSE [schema |-> SchemaAt(conf.driver, conf.base), version |-> conf.base, dirty |-> FALSE]

(* The database is as it was, or has the latest version and schema. *)
LatestDb == db.version = latestVersion /\ db.schema = IF conf.base = Fresh THEN tables ELSE Latest(conf.driver)
DbSound ==
  /\ db = [schema |-> db.schema, version |-> db.version, dirty |-> FALSE]
  /\ db = FirstDb \/ LatestDb

IsRow(x) == x = [schema |-> x.schema, version |-> x.version, dirty |-> x.dirty]

Places == {"off", "ping", "fresh", "create", "next", "run", "up", "serving", "failed"}

MigTypes ==
  /\ conf \in Confs
  /\ pc \in [Starters -> Places] /\ wrote \in [Starters -> BOOLEAN]
  /\ DOMAIN view = Starters /\ DOMAIN todo = Starters
  /\ view = [s \in Starters |-> view[s]] /\ todo = [s \in Starters |-> todo[s]]
  /\ DOMAIN running = Starters /\ running = [s \in Starters |-> running[s]]
  /\ IsRow(db) /\ \A s \in Starters : IsRow(view[s])

(* Migration v is running: k of its statements are done. *)
Midway(s) ==
  /\ wrote[s] /\ running[s] \in 1 .. latestVersion
  /\ LET ups == Up(conf.driver)[running[s]] IN
     \E k \in 0 .. Len(ups) :
       /\ view[s].schema = Partial(conf.driver, running[s], k)
       /\ todo[s] = SubSeq(ups, k + 1, Len(ups))

(* A migration is done, the next one not begun. *)
Between(s) ==
  \/ /\ wrote[s] /\ view[s].version \in 1 .. latestVersion
     /\ view[s].schema = SchemaAt(conf.driver, view[s].version) /\ view[s].dirty = FALSE
  \/ /\ ~wrote[s] /\ view[s].version \in {FirstDb.version, latestVersion}
     /\ view[s].version = latestVersion => db.version = latestVersion

StarterSound(s) ==
  /\ wrote[s] => /\ pc[s] \in {"create", "next", "run", "up"}
                 /\ \A r \in Starters : wrote[r] => r = s
  /\ pc[s] = "fresh" => conf.base = Fresh
  /\ pc[s] = "create" => /\ conf.base = Fresh /\ wrote[s] /\ PartOfTables(view[s].schema)
                         /\ view[s].version = latestVersion /\ view[s].dirty = FALSE
  /\ pc[s] \in {"next", "run"} => Between(s)
  /\ pc[s] \in {"next", "run", "up"} => (conf.base = Fresh => LatestDb /\ ~wrote[s] /\ view[s].version = latestVersion)
  /\ pc[s] = "run" => view[s].version < latestVersion
  /\ pc[s] = "up" => Midway(s)
  /\ pc[s] = "serving" => LatestDb

MigInv == MigTypes /\ (Transactional => DbSound /\ \A s \in Starters : StarterSound(s))

Frame(s) ==
  /\ conf' = conf
  /\ \A r \in Starters \ {s} : /\ pc'[r] = pc[r] /\ view'[r] = view[r]
                               /\ wrote'[r] = wrote[r] /\ todo'[r] = todo[r] /\ running'[r] = running[r]

LEMMA ConfFacts ==
  ASSUME MigInv
  PROVE  /\ conf.driver \in Drivers /\ conf.base \in {Fresh, NilVersion} \cup 0 .. latestVersion
         /\ latestVersion \in Nat \ {0} /\ NilVersion = -1 /\ Fresh = -2
BY ConfsAssumption, SchemasAssumption DEF MigInv, MigTypes, NilVersion, Fresh

(* Nobody else minds a step that leaves the database alone or that commits  *)
(* the latest version while no other transaction has written.               *)
LEMMA OthersSound ==
  ASSUME MigInv, Transactional, NEW s \in Starters, Frame(s),
         db' = db \/ (LatestDb' /\ \A r \in Starters \ {s} : ~wrote[r]),
         wrote'[s] => \A r \in Starters \ {s} : ~wrote[r]
  PROVE  \A r \in Starters \ {s} : StarterSound(r)'
<1> SUFFICES ASSUME NEW r \in Starters \ {s} PROVE StarterSound(r)'
  OBVIOUS
<1>1. /\ conf' = conf /\ pc'[r] = pc[r] /\ view'[r] = view[r] /\ wrote'[r] = wrote[r] /\ todo'[r] = todo[r]
      /\ running'[r] = running[r] /\ StarterSound(r)
  BY DEF Frame, MigInv
<1>2. FirstDb' = FirstDb
  BY <1>1 DEF FirstDb
<1>3. /\ wrote[r] => db' = db
      /\ LatestDb => LatestDb'
      /\ db.version = latestVersion => db'.version = latestVersion
  BY <1>1 DEF LatestDb
<1>4. wrote'[r] => \A q \in Starters : wrote'[q] => q = r
  BY <1>1 DEF StarterSound, Frame
<1>5. Between(r) => Between(r)'
  BY <1>1, <1>2, <1>3 DEF Between
<1>6. Midway(r) => Midway(r)'
  BY <1>1 DEF Midway
<1> QED BY <1>1, <1>3, <1>4, <1>5, <1>6 DEF StarterSound

LEMMA DbKept ==
  ASSUME MigInv, Transactional, conf' = conf, db' = db
  PROVE  DbSound'
<1>1. FirstDb' = FirstDb
  BY DEF FirstDb
<1> QED BY <1>1 DEF MigInv, DbSound, LatestDb

(* A starter that has written nothing and is at no special place. *)
LEMMA PlainPlace ==
  ASSUME NEW s \in Starters, ~wrote'[s], pc'[s] \in {"off", "ping", "failed"}
  PROVE  StarterSound(s)'
BY DEF StarterSound

LEMMA MigTypesNext ==
  ASSUME MigInv, NEW s \in Starters,
         \/ New(s) \/ pingFails(s) \/ runMigrations(s) \/ setFresh(s) \/ lock(s) \/ run(s)
         \/ runUnmarked(s) \/ statement(s) \/ unlock(s) \/ createTable(s) \/ opened(s) \/ crash(s)
  PROVE  MigTypes' /\ Frame(s)
<1>0. /\ conf \in Confs /\ pc \in [Starters -> Places] /\ wrote \in [Starters -> BOOLEAN]
      /\ DOMAIN view = Starters /\ DOMAIN todo = Starters
      /\ view = [r \in Starters |-> view[r]] /\ todo = [r \in Starters |-> todo[r]]
      /\ DOMAIN running = Starters /\ running = [r \in Starters |-> running[r]]
      /\ IsRow(db) /\ \A r \in Starters : IsRow(view[r])
  BY DEF MigInv, MigTypes
<1>1. IsRow(NoTx)
  BY DEF IsRow, NoTx
<1>17. PICK w : running' = [running EXCEPT ![s] = w]
  <2>1. running = [running EXCEPT ![s] = running[s]]
    BY <1>0
  <2> QED BY <2>1 DEF New, pingFails, runMigrations, setFresh, lock, run, runUnmarked, StartMigration,
                      statement, unlock, createTable, opened, crash
<1>2. ASSUME NEW x, NEW y \in Places, NEW z \in BOOLEAN, NEW u, IsRow(x),
             conf' = conf, IsRow(db)', pc' = [pc EXCEPT ![s] = y], wrote' = [wrote EXCEPT ![s] = z],
             view' = [view EXCEPT ![s] = x], todo' = [todo EXCEPT ![s] = u]
      PROVE  MigTypes' /\ Frame(s)
  BY <1>0, <1>2, <1>17 DEF MigTypes, Frame, IsRow
<1>3. /\ view = [view EXCEPT ![s] = view[s]] /\ todo = [todo EXCEPT ![s] = todo[s]]
      /\ wrote = [wrote EXCEPT ![s] = wrote[s]] /\ pc = [pc EXCEPT ![s] = pc[s]]
  BY <1>0
<1>4. IsRow(Committed(s))
  <2>1. CASE ~wrote[s]
    BY <1>0, <2>1 DEF Committed
  <2>2. CASE wrote[s]
    <3>1. PICK h : h = db
      OBVIOUS
    <3>2. h = [schema |-> h.schema, version |-> h.version, dirty |-> h.dirty]
      BY <1>0, <3>1 DEF IsRow
    <3>3. Committed(s) = [h EXCEPT !.version = view[s].version, !.dirty = view[s].dirty]
      BY <2>2, <3>1 DEF Committed
    <3>4. Committed(s) = [schema |-> h.schema, version |-> view[s].version, dirty |-> view[s].dirty]
      BY <3>2, <3>3
    <3> QED BY <3>4 DEF IsRow
  <2> QED BY <1>0, <2>1, <2>2
<1>5. ASSUME NEW h, NEW v, IsRow(h)
      PROVE  IsRow([h EXCEPT !.schema = v])
  BY <1>5 DEF IsRow
<1>16. db' = db => IsRow(db)'
  BY <1>0 DEF IsRow
<1>6. CASE New(s) \/ pingFails(s)
  <2>1. PICK y \in Places : pc' = [pc EXCEPT ![s] = y]
    BY <1>6 DEF New, pingFails, Places
  <2>2. UNCHANGED <<conf, db, view, wrote, todo>>
    BY <1>6 DEF New, pingFails
  <2>3. /\ view' = [view EXCEPT ![s] = view[s]] /\ todo' = [todo EXCEPT ![s] = todo[s]]
        /\ wrote' = [wrote EXCEPT ![s] = wrote[s]] /\ wrote[s] \in BOOLEAN /\ IsRow(view[s])
    BY <1>0, <1>3, <2>2
  <2> QED BY <1>2, <1>16, <2>1, <2>2, <2>3
<1>7. CASE runMigrations(s)
  <2>1. PICK y \in Places : pc' = [pc EXCEPT ![s] = y]
    BY <1>7 DEF runMigrations, Places
  <2>2. PICK x : IsRow(x) /\ view' = [view EXCEPT ![s] = x]
    BY <1>0, <1>1, <1>7 DEF runMigrations
  <2>3. UNCHANGED <<conf, db, wrote, todo>>
    BY <1>7 DEF runMigrations
  <2>4. /\ todo' = [todo EXCEPT ![s] = todo[s]]
        /\ wrote' = [wrote EXCEPT ![s] = wrote[s]] /\ wrote[s] \in BOOLEAN
    BY <1>0, <1>3, <2>3
  <2> QED BY <1>2, <1>16, <2>1, <2>2, <2>3, <2>4
<1>8. ASSUME NEW row, SetVersion(s, row)
      PROVE  /\ wrote' = [wrote EXCEPT ![s] = TRUE] /\ IsRow(db)'
             /\ \E x : IsRow(x) /\ view' = [view EXCEPT ![s] = x]
  <2>1. ASSUME NEW x, NEW v, x = [schema |-> v, version |-> row.version, dirty |-> row.dirty] PROVE IsRow(x)
    BY <2>1 DEF IsRow
  <2>2. CASE Transactional
    <3>1. PICK x : x = [schema |-> IF wrote[s] THEN view[s].schema ELSE db.schema,
                        version |-> row.version, dirty |-> row.dirty]
      OBVIOUS
    <3>2. view' = [view EXCEPT ![s] = x]
      BY <1>0, <1>8, <2>2, <3>1 DEF SetVersion
    <3> QED BY <1>0, <1>8, <2>1, <2>2, <3>1, <3>2 DEF SetVersion
  <2>3. CASE ~Transactional
    <3>1. PICK x : x = [schema |-> db.schema, version |-> row.version, dirty |-> row.dirty]
      OBVIOUS
    <3>2. view' = [view EXCEPT ![s] = x]
      BY <1>8, <2>3, <3>1 DEF SetVersion
    <3>3. db' = Committed(s)
      BY <1>8, <2>3 DEF SetVersion
    <3> QED BY <1>4, <1>8, <2>1, <3>1, <3>2, <3>3 DEF SetVersion, IsRow
  <2> QED BY <2>2, <2>3
<1>9. CASE setFresh(s)
  <2>1. SetVersion(s, Clean(latestVersion)) /\ pc' = [pc EXCEPT ![s] = "create"] /\ UNCHANGED <<conf, todo>>
    BY <1>9 DEF setFresh
  <2>2. PICK x : IsRow(x) /\ view' = [view EXCEPT ![s] = x]
    BY <1>8, <2>1
  <2>3. wrote' = [wrote EXCEPT ![s] = TRUE] /\ IsRow(db)'
    BY <1>8, <2>1
  <2> QED BY <1>2, <1>3, <2>1, <2>2, <2>3 DEF Places
<1>10. CASE lock(s)
  <2>1. PICK y \in Places : pc' = [pc EXCEPT ![s] = y]
    BY <1>10 DEF lock, Places
  <2>2. PICK x : IsRow(x) /\ view' = [view EXCEPT ![s] = x]
    BY <1>0, <1>1, <1>3, <1>10 DEF lock
  <2>3. PICK z \in BOOLEAN : wrote' = [wrote EXCEPT ![s] = z]
    <3>1. wrote' = [wrote EXCEPT ![s] = FALSE] \/ wrote' = [wrote EXCEPT ![s] = wrote[s]]
      BY <1>3, <1>10 DEF lock
    <3>2. wrote[s] \in BOOLEAN /\ FALSE \in BOOLEAN
      BY <1>0
    <3> QED BY <3>1, <3>2, Zenon
  <2> QED BY <1>0, <1>2, <1>3, <1>10, <2>1, <2>2, <2>3 DEF lock
<1>18. ASSUME NEW row, StartMigration(s, row), conf' = conf
       PROVE  MigTypes' /\ Frame(s)
  <2>1. /\ SetVersion(s, row) /\ pc' = [pc EXCEPT ![s] = "up"]
        /\ todo' = [todo EXCEPT ![s] = Up(conf.driver)[following(s)]]
    BY <1>18 DEF StartMigration
  <2>2. PICK x : IsRow(x) /\ view' = [view EXCEPT ![s] = x]
    BY <1>8, <2>1
  <2>3. wrote' = [wrote EXCEPT ![s] = TRUE] /\ IsRow(db)'
    BY <1>8, <2>1
  <2> QED BY <1>2, <1>18, <2>1, <2>2, <2>3 DEF Places
<1>11. CASE run(s) \/ runUnmarked(s)
  <2>1. CASE \E row : StartMigration(s, row)
    BY <1>11, <1>18, <2>1 DEF run, runUnmarked
  <2>2. CASE /\ pc' = [pc EXCEPT ![s] = "failed"] /\ wrote' = [wrote EXCEPT ![s] = FALSE]
             /\ view' = [view EXCEPT ![s] = NoTx] /\ UNCHANGED <<conf, db, todo>>
    BY <1>0, <1>1, <1>2, <1>3, <2>2 DEF Places
  <2>3. ASSUME run(s) PROVE \/ \E row : StartMigration(s, row)
                            \/ /\ pc' = [pc EXCEPT ![s] = "failed"] /\ wrote' = [wrote EXCEPT ![s] = FALSE]
                               /\ view' = [view EXCEPT ![s] = NoTx] /\ UNCHANGED <<conf, db, todo>>
    BY <2>3 DEF run
  <2>4. ASSUME runUnmarked(s) PROVE \E row : StartMigration(s, row)
    BY <2>4 DEF runUnmarked
  <2> QED BY <1>11, <2>1, <2>2, <2>3, <2>4
<1>12. CASE statement(s)
  <2>1. PICK y \in Places : pc' = [pc EXCEPT ![s] = y]
    BY <1>0, <1>3, <1>12 DEF statement, Places
  <2>2. PICK z \in BOOLEAN : wrote' = [wrote EXCEPT ![s] = z]
    <3>1. wrote' = [wrote EXCEPT ![s] = FALSE] \/ wrote' = [wrote EXCEPT ![s] = wrote[s]]
      BY <1>3, <1>12 DEF statement
    <3>2. wrote[s] \in BOOLEAN /\ FALSE \in BOOLEAN
      BY <1>0
    <3> QED BY <3>1, <3>2, Zenon
  <2>3. PICK u : todo' = [todo EXCEPT ![s] = u]
    BY <1>0, <1>12 DEF statement
  <2>4. PICK x : IsRow(x) /\ view' = [view EXCEPT ![s] = x]
    <3>1. CASE view' = [view EXCEPT ![s] = NoTx]
      BY <1>1, <3>1
    <3>2. ASSUME NEW v, view' = [view EXCEPT ![s].schema = v] PROVE \E x : IsRow(x) /\ view' = [view EXCEPT ![s] = x]
      <4>1. PICK x : x = [view[s] EXCEPT !.schema = v]
        OBVIOUS
      <4>2. IsRow(x)
        BY <1>0, <1>5, <4>1
      <4>3. view' = [view EXCEPT ![s] = x]
        BY <1>0, <3>2, <4>1
      <4> QED BY <4>2, <4>3
    <3>3. \/ view' = [view EXCEPT ![s] = NoTx]
          \/ \E v : view' = [view EXCEPT ![s].schema = v]
      BY <1>12 DEF statement
    <3> QED BY <3>1, <3>2, <3>3
  <2>5. IsRow(db)'
    <3>1. \/ db' = db \/ db' = Committed(s)
          \/ \E v : db' = [db EXCEPT !.schema = v] \/ db' = [Committed(s) EXCEPT !.schema = v]
      BY <1>12 DEF statement
    <3>2. ASSUME NEW v, db' = [db EXCEPT !.schema = v] PROVE IsRow(db')
      BY <1>0, <1>5, <3>2
    <3>3. ASSUME NEW v, db' = [Committed(s) EXCEPT !.schema = v] PROVE IsRow(db')
      BY <1>4, <1>5, <3>3
    <3>4. IsRow(db')
      BY <1>0, <1>4, <3>1, <3>2, <3>3
    <3> QED BY <3>4 DEF IsRow
  <2>6. conf' = conf
    BY <1>12 DEF statement
  <2> QED BY <1>2, <2>1, <2>2, <2>3, <2>4, <2>5, <2>6
<1>13. CASE unlock(s)
  <2>1. SetVersion(s, Clean(running[s])) /\ pc' = [pc EXCEPT ![s] = "next"] /\ UNCHANGED <<conf, todo>>
    BY <1>13 DEF unlock
  <2>2. PICK x : IsRow(x) /\ view' = [view EXCEPT ![s] = x]
    BY <1>8, <2>1
  <2>3. wrote' = [wrote EXCEPT ![s] = TRUE] /\ IsRow(db)'
    BY <1>8, <2>1
  <2> QED BY <1>2, <1>3, <2>1, <2>2, <2>3 DEF Places
<1>14. CASE opened(s)
  <2>1. PICK v : db' = [Committed(s) EXCEPT !.schema = v]
    BY <1>14 DEF opened
  <2>2. IsRow(db')
    BY <1>4, <1>5, <2>1
  <2>3. IsRow(db)'
    BY <2>2 DEF IsRow
  <2> QED BY <1>1, <1>2, <1>3, <1>14, <2>3 DEF opened, Places
<1>19. CASE createTable(s)
  <2>1. /\ UNCHANGED <<conf, pc, todo>>
        /\ \/ \E v : view' = [view EXCEPT ![s].schema = v] /\ wrote' = [wrote EXCEPT ![s] = TRUE] /\ db' = db
           \/ \E v : /\ db' = [Committed(s) EXCEPT !.schema = v] /\ wrote' = [wrote EXCEPT ![s] = FALSE]
                     /\ view' = view
    BY <1>19 DEF createTable
  <2>2. pc' = [pc EXCEPT ![s] = pc[s]] /\ todo' = [todo EXCEPT ![s] = todo[s]] /\ pc[s] \in Places
    BY <1>0, <1>3, <2>1
  <2>3. ASSUME NEW v, view' = [view EXCEPT ![s].schema = v], wrote' = [wrote EXCEPT ![s] = TRUE], db' = db
        PROVE  MigTypes' /\ Frame(s)
    <3>1. PICK x : x = [view[s] EXCEPT !.schema = v]
      OBVIOUS
    <3>2. IsRow(x)
      BY <1>0, <1>5, <3>1
    <3>3. view' = [view EXCEPT ![s] = x]
      BY <1>0, <2>3, <3>1
    <3> QED BY <1>2, <1>16, <2>1, <2>2, <2>3, <3>2, <3>3
  <2>4. ASSUME NEW v, db' = [Committed(s) EXCEPT !.schema = v], wrote' = [wrote EXCEPT ![s] = FALSE], view' = view
        PROVE  MigTypes' /\ Frame(s)
    <3>1. IsRow(db')
      BY <1>4, <1>5, <2>4
    <3>2. IsRow(db)'
      BY <3>1 DEF IsRow
    <3>3. view' = [view EXCEPT ![s] = view[s]] /\ IsRow(view[s]) /\ FALSE \in BOOLEAN /\ conf' = conf
      BY <1>0, <1>3, <2>1, <2>4
    <3> QED BY <1>2, <2>2, <2>4, <3>2, <3>3
  <2> QED BY <2>1, <2>3, <2>4
<1>15. CASE crash(s)
  <2>1. PICK p \in Places : pc' = [pc EXCEPT ![s] = p]
    BY <1>15 DEF crash, Places
  <2> QED BY <1>0, <1>1, <1>2, <1>15, <2>1 DEF crash
<1> QED BY <1>6, <1>7, <1>9, <1>10, <1>11, <1>12, <1>13, <1>14, <1>15, <1>19

MigSound == DbSound /\ \A s \in Starters : StarterSound(s)

(* What is left to show of a step of s. *)
LEMMA StarterMoves ==
  ASSUME MigInv, Transactional, NEW s \in Starters, Frame(s), StarterSound(s)', DbSound',
         db' = db \/ (LatestDb' /\ \A r \in Starters \ {s} : ~wrote[r]),
         wrote'[s] => \A r \in Starters \ {s} : ~wrote[r]
  PROVE  MigSound'
BY OthersSound DEF MigSound

LEMMA WrittenFacts ==
  ASSUME MigInv, Transactional, NEW s \in Starters
  PROVE  /\ StarterSound(s) /\ DbSound
         /\ pc[s] \in {"off", "ping", "fresh", "serving", "failed"} => ~wrote[s]
         /\ wrote[s] => \A r \in Starters \ {s} : ~wrote[r]
BY DEF MigInv, StarterSound

LEMMA NewSound ==
  ASSUME MigInv, Transactional, NEW s \in Starters, Frame(s), New(s) \/ pingFails(s)
  PROVE  MigSound'
<1>1. pc \in [Starters -> Places] /\ conf' = conf
  BY DEF MigInv, MigTypes, Frame
<1>2. ~wrote'[s] /\ db' = db /\ pc'[s] \in {"off", "ping", "failed"}
  BY <1>1, WrittenFacts DEF New, pingFails
<1> QED BY <1>1, <1>2, PlainPlace, DbKept, StarterMoves

LEMMA HasApps ==
  ASSUME MigInv, Transactional, conf.base # Fresh \/ LatestDb
  PROVE  "apps" \in DOMAIN db.schema
<1>1. /\ conf.driver \in Drivers /\ conf.base \in {Fresh, NilVersion} \cup 0 .. latestVersion
      /\ latestVersion \in Nat \ {0}
  BY ConfFacts
<1>2. \A v \in {NilVersion} \cup 0 .. latestVersion : "apps" \in DOMAIN SchemaAt(conf.driver, v)
  BY <1>1, SchemasAssumption
<1>3. "apps" \in DOMAIN tables
  BY DEF tables
<1>4. CASE LatestDb
  BY <1>1, <1>2, <1>3, <1>4 DEF LatestDb, Latest
<1>5. CASE ~LatestDb
  <2>1. db = FirstDb /\ conf.base # Fresh
    BY <1>5 DEF MigInv, DbSound
  <2>2. db.schema = SchemaAt(conf.driver, conf.base)
    BY <2>1 DEF FirstDb
  <2> QED BY <1>1, <1>2, <2>1, <2>2
<1> QED BY <1>4, <1>5

LEMMA RunMigrationsSound ==
  ASSUME MigInv, Transactional, NEW s \in Starters, Frame(s), runMigrations(s)
  PROVE  MigSound'
<1>1. /\ pc \in [Starters -> Places] /\ DOMAIN view = Starters /\ view = [r \in Starters |-> view[r]]
      /\ conf' = conf /\ IsRow(db)
  BY DEF MigInv, MigTypes, Frame
<1>2. db' = db /\ ~wrote[s] /\ wrote' = wrote /\ FirstDb' = FirstDb
  BY <1>1, WrittenFacts DEF runMigrations, FirstDb
<1>3. CASE "apps" \notin DOMAIN db.schema
  <2>1. pc'[s] = "fresh" /\ conf.base = Fresh
    BY <1>1, <1>3, HasApps DEF runMigrations
  <2>2. StarterSound(s)'
    BY <1>1, <1>2, <2>1 DEF StarterSound
  <2> QED BY <1>1, <1>2, <2>2, DbKept, StarterMoves
<1>4. CASE pc'[s] = "failed"
  BY <1>1, <1>2, <1>4, PlainPlace, DbKept, StarterMoves
<1>5. CASE "apps" \in DOMAIN db.schema /\ pc'[s] # "failed"
  <2>1. pc'[s] = "next" /\ view'[s] = db
    BY <1>1, <1>5 DEF runMigrations
  <2>2. db = FirstDb \/ LatestDb
    BY DEF MigInv, DbSound
  <2>3. conf.base = Fresh => LatestDb
    <3>1. conf.base = Fresh /\ db = FirstDb => db.schema = << >>
      BY DEF FirstDb
    <3>2. DOMAIN << >> = {}
      OBVIOUS
    <3> QED BY <1>5, <2>2, <3>1, <3>2
  <2>4. db.version \in {FirstDb.version, latestVersion}
    BY <2>2 DEF LatestDb
  <2>5. Between(s)'
    BY <1>2, <2>1, <2>4 DEF Between
  <2>6. LatestDb => LatestDb' /\ db.version = latestVersion
    BY <1>1, <1>2 DEF LatestDb
  <2>7. StarterSound(s)'
    BY <1>1, <1>2, <2>1, <2>3, <2>5, <2>6 DEF StarterSound
  <2> QED BY <1>1, <1>2, <2>7, DbKept, StarterMoves
<1> QED BY <1>3, <1>4, <1>5

LEMMA SetVersionView ==
  ASSUME MigInv, Transactional, NEW s \in Starters, NEW row, SetVersion(s, row)
  PROVE  /\ db' = db /\ wrote'[s] /\ \A r \in Starters \ {s} : ~wrote[r]
         /\ view'[s] = [schema |-> IF wrote[s] THEN view[s].schema ELSE db.schema,
                        version |-> row.version, dirty |-> row.dirty]
<1>1. DOMAIN view = Starters /\ wrote \in [Starters -> BOOLEAN]
  BY DEF MigInv, MigTypes
<1> QED BY <1>1 DEF SetVersion, Writable

LEMMA SetFreshSound ==
  ASSUME MigInv, Transactional, NEW s \in Starters, Frame(s), setFresh(s)
  PROVE  MigSound'
<1>1. pc \in [Starters -> Places] /\ conf' = conf
  BY DEF MigInv, MigTypes, Frame
<1>2. pc[s] = "fresh" /\ SetVersion(s, Clean(latestVersion)) /\ pc'[s] = "create"
  BY <1>1 DEF setFresh
<1>3. ~wrote[s] /\ conf.base = Fresh
  BY <1>2, WrittenFacts DEF StarterSound
<1>4. /\ db' = db /\ wrote'[s] /\ \A r \in Starters \ {s} : ~wrote[r]
      /\ view'[s] = [schema |-> db.schema, version |-> latestVersion, dirty |-> FALSE]
  <2>1. PICK row : row = Clean(latestVersion) /\ SetVersion(s, row)
    BY <1>2
  <2>2. row.version = latestVersion /\ row.dirty = FALSE
    BY <2>1 DEF Clean
  <2>3. /\ db' = db /\ wrote'[s] /\ \A r \in Starters \ {s} : ~wrote[r]
        /\ view'[s] = [schema |-> IF wrote[s] THEN view[s].schema ELSE db.schema,
                       version |-> row.version, dirty |-> row.dirty]
    BY <2>1, SetVersionView
  <2> QED BY <1>3, <2>2, <2>3
<1>5. \A r \in Starters : wrote'[r] => r = s
  BY <1>4 DEF Frame
<1>6. PartOfTables(db.schema)
  <2>1. db.schema = << >> \/ db.schema = tables
    BY <1>3 DEF MigInv, DbSound, FirstDb, LatestDb
  <2>2. tables = [t \in DOMAIN tables |-> tables[t]]
    BY DEF tables
  <2>3. << >> = [t \in {} |-> tables[t]]
    OBVIOUS
  <2>4. {} \in SUBSET DOMAIN tables /\ DOMAIN tables \in SUBSET DOMAIN tables
    OBVIOUS
  <2> QED BY <2>1, <2>2, <2>3, <2>4 DEF PartOfTables
<1>7. StarterSound(s)'
  <2>1. view'[s].schema = db.schema /\ view'[s].version = latestVersion /\ view'[s].dirty = FALSE
    BY <1>4
  <2> QED BY <1>1, <1>2, <1>3, <1>4, <1>5, <1>6, <2>1 DEF StarterSound
<1> QED BY <1>1, <1>4, <1>7, DbKept, StarterMoves

LEMMA LockSound ==
  ASSUME MigInv, Transactional, NEW s \in Starters, Frame(s), lock(s)
  PROVE  MigSound'
<1>1. /\ pc \in [Starters -> Places] /\ DOMAIN view = Starters /\ view = [r \in Starters |-> view[r]]
      /\ conf' = conf /\ wrote \in [Starters -> BOOLEAN]
  BY DEF MigInv, MigTypes, Frame
<1>2. db' = db /\ FirstDb' = FirstDb /\ pc[s] = "next" /\ view[s].version < latestVersion
  BY <1>1 DEF lock, FirstDb
<1>3. CASE pc'[s] = "failed"
  <2>1. ~wrote'[s]
    BY <1>1, <1>3 DEF lock
  <2> QED BY <1>1, <1>2, <1>3, <2>1, PlainPlace, DbKept, StarterMoves
<1>4. CASE pc'[s] # "failed"
  <2>1. pc'[s] = "run" /\ view' = view /\ wrote' = wrote
    BY <1>1, <1>4 DEF lock
  <2>2. /\ Between(s) /\ conf.base # Fresh
        /\ wrote[s] => \A r \in Starters : wrote[r] => r = s
    <3>1. latestVersion \in Nat
      BY ConfFacts
    <3>2. StarterSound(s)
      BY WrittenFacts
    <3>3. /\ Between(s) /\ (conf.base = Fresh => view[s].version = latestVersion)
          /\ wrote[s] => \A r \in Starters : wrote[r] => r = s
      BY <1>2, <3>2 DEF StarterSound
    <3> QED BY <1>2, <3>1, <3>3
  <2>3. Between(s)'
    BY <1>1, <1>2, <2>1, <2>2 DEF Between
  <2>4. StarterSound(s)'
    BY <1>1, <1>2, <2>1, <2>2, <2>3 DEF StarterSound
  <2> QED BY <1>1, <1>2, <2>1, <2>4, WrittenFacts, DbKept, StarterMoves
<1> QED BY <1>3, <1>4

(* Only who has the database as he read it, or has migrated it himself,     *)
(* begins a migration.                                                      *)
LEMMA RunSound ==
  ASSUME MigInv, Transactional, NEW s \in Starters, Frame(s), run(s) \/ runUnmarked(s)
  PROVE  MigSound'
<1>1. /\ pc \in [Starters -> Places] /\ DOMAIN view = Starters /\ view = [r \in Starters |-> view[r]]
      /\ conf' = conf /\ wrote \in [Starters -> BOOLEAN] /\ DOMAIN todo = Starters
      /\ DOMAIN running = Starters
  BY DEF MigInv, MigTypes, Frame
<1>2. /\ conf.driver \in Drivers /\ conf.base \in {Fresh, NilVersion} \cup 0 .. latestVersion
      /\ latestVersion \in Nat \ {0} /\ NilVersion = -1 /\ Fresh = -2
  BY ConfFacts
<1>3. pc[s] = "run"
  BY DEF run, runUnmarked
<1>4. /\ Between(s) /\ conf.base # Fresh /\ view[s].version < latestVersion
  <2>1. StarterSound(s)
    BY WrittenFacts
  <2>2. /\ Between(s) /\ (conf.base = Fresh => view[s].version = latestVersion)
        /\ view[s].version < latestVersion
    BY <1>3, <2>1 DEF StarterSound
  <2> QED BY <1>2, <2>2
<1>5. CASE run(s) /\ refused(s)
  <2>1. ~wrote'[s] /\ db' = db /\ pc'[s] = "failed"
    BY <1>1, <1>5 DEF run
  <2> QED BY <1>1, <2>1, PlainPlace, DbKept, StarterMoves
<1>6. CASE ~refused(s)
  <2>1. PICK row : StartMigration(s, row)
    BY <1>6 DEF run, runUnmarked
  <2>11. /\ SetVersion(s, row) /\ pc'[s] = "up" /\ running'[s] = following(s)
         /\ todo'[s] = Up(conf.driver)[following(s)]
    BY <1>1, <2>1 DEF StartMigration
  <2>2. PICK sch : sch = IF wrote[s] THEN view[s].schema ELSE db.schema
    OBVIOUS
  <2>3. /\ db' = db /\ wrote'[s] /\ \A r \in Starters \ {s} : ~wrote[r]
        /\ view'[s] = [schema |-> sch, version |-> row.version, dirty |-> row.dirty]
    BY <2>2, <2>11, SetVersionView
  <2>4. following(s) \in 1 .. latestVersion /\ sch = SchemaAt(conf.driver, following(s) - 1)
    <3>1. CASE wrote[s]
      <4>1. view[s].version \in 1 .. latestVersion /\ sch = SchemaAt(conf.driver, view[s].version)
        BY <1>4, <2>2, <3>1 DEF Between
      <4>2. following(s) = view[s].version + 1
        BY <1>2, <4>1 DEF following
      <4> QED BY <1>2, <1>4, <4>1, <4>2
    <3>2. CASE ~wrote[s]
      <4>1. view[s].version = FirstDb.version
        BY <1>2, <1>4, <3>2 DEF Between
      <4>2. FirstDb.version = conf.base /\ FirstDb.schema = SchemaAt(conf.driver, conf.base)
        BY <1>4 DEF FirstDb
      <4>3. seen(s) = db
        BY <3>2 DEF seen
      <4>4. following(s) = IF conf.base = NilVersion THEN 1 ELSE conf.base + 1
        BY <1>2, <1>4, <4>1, <4>2 DEF following
      <4>5. conf.base \in {NilVersion} \cup 0 .. latestVersion /\ conf.base < latestVersion
        BY <1>2, <1>4, <4>1, <4>2
      <4>6. db.version = NilVersion \/ following(s) = db.version + 1
        BY <1>6, <4>3 DEF refused
      <4>7. db = FirstDb
        <5>1. db = FirstDb \/ db.version = latestVersion
          BY DEF MigInv, DbSound, LatestDb
        <5> QED BY <1>2, <4>4, <4>5, <4>6, <5>1
      <4>8. sch = SchemaAt(conf.driver, conf.base)
        BY <2>2, <3>2, <4>2, <4>7
      <4>9. SchemaAt(conf.driver, NilVersion) = SchemaAt(conf.driver, 0)
        BY <1>2, SchemasAssumption
      <4> QED BY <1>2, <4>4, <4>5, <4>8, <4>9
    <3> QED BY <1>1, <3>1, <3>2
  <2>5. PICK ups : ups = Up(conf.driver)[following(s)]
    OBVIOUS
  <2>6. /\ ups \in Seq([op : STRING, t : STRING, cols : SUBSET STRING])
        /\ Partial(conf.driver, following(s), 0) = sch
    BY <1>2, <2>4, <2>5, SchemasAssumption
  <2>7. SubSeq(ups, 1, Len(ups)) = ups /\ Len(ups) \in Nat
    BY <2>6
  <2>8. Midway(s)'
    <3>1. running'[s] = following(s) /\ view'[s].schema = sch /\ todo'[s] = ups
      BY <2>3, <2>5, <2>11
    <3>2. Up(conf'.driver)[running'[s]] = ups
      BY <1>1, <2>5, <3>1
    <3>3. 0 \in 0 .. Len(ups) /\ SubSeq(ups, 0 + 1, Len(ups)) = ups
      BY <2>7
    <3> QED BY <1>1, <2>3, <2>4, <2>6, <3>1, <3>2, <3>3 DEF Midway
  <2>9. \A r \in Starters : wrote'[r] => r = s
    BY <2>3 DEF Frame
  <2>10. StarterSound(s)'
    BY <1>1, <1>4, <2>8, <2>9, <2>11 DEF StarterSound
  <2> QED BY <1>1, <2>3, <2>10, DbKept, StarterMoves
<1>7. run(s) \/ ~refused(s)
  BY DEF runUnmarked
<1> QED BY <1>5, <1>6, <1>7

LEMMA StatementSound ==
  ASSUME MigInv, Transactional, NEW s \in Starters, Frame(s), statement(s)
  PROVE  MigSound'
<1>1. /\ pc \in [Starters -> Places] /\ DOMAIN view = Starters /\ view = [r \in Starters |-> view[r]]
      /\ conf' = conf /\ wrote \in [Starters -> BOOLEAN] /\ DOMAIN todo = Starters /\ IsRow(view[s])
  BY DEF MigInv, MigTypes, Frame
<1>2. conf.driver \in Drivers /\ latestVersion \in Nat \ {0}
  BY ConfFacts
<1>3. pc[s] = "up" /\ todo[s] # << >> /\ db' = db
  BY DEF statement
<1>4. Midway(s) /\ conf.base # Fresh /\ wrote[s]
  BY <1>3, WrittenFacts DEF StarterSound, Midway
<1>5. CASE pc'[s] = "failed"
  <2>1. ~wrote'[s]
    BY <1>1, <1>3, <1>5 DEF statement
  <2> QED BY <1>1, <1>3, <1>5, <2>1, PlainPlace, DbKept, StarterMoves
<1>6. CASE pc'[s] # "failed"
  <2>1. /\ pc' = pc /\ wrote' = wrote /\ running' = running /\ todo'[s] = Tail(todo[s])
        /\ view' = [view EXCEPT ![s].schema = Exec(view[s].schema, Head(todo[s]))]
    BY <1>1, <1>3, <1>6 DEF statement
  <2>2. PICK v \in 1 .. latestVersion : v = running[s]
    BY <1>4 DEF Midway
  <2>3. PICK ups : ups = Up(conf.driver)[v]
    OBVIOUS
  <2>4. PICK k \in 0 .. Len(ups) : /\ view[s].schema = Partial(conf.driver, v, k)
                                   /\ todo[s] = SubSeq(ups, k + 1, Len(ups))
    BY <1>4, <2>2, <2>3 DEF Midway
  <2>5. /\ ups \in Seq([op : STRING, t : STRING, cols : SUBSET STRING])
        /\ \A j \in 1 .. Len(ups) : Partial(conf.driver, v, j) = Exec(Partial(conf.driver, v, j - 1), ups[j])
    BY <1>2, <2>3, SchemasAssumption
  <2>6. Len(ups) \in Nat /\ k \in Nat /\ k < Len(ups)
    BY <1>3, <2>4, <2>5
  <2>7. Head(todo[s]) = ups[k + 1] /\ Tail(todo[s]) = SubSeq(ups, (k + 1) + 1, Len(ups))
    <3>1. k + 1 \in 1 .. Len(ups) /\ Len(ups) \in k + 1 .. Len(ups)
      BY <2>6
    <3> QED BY <2>4, <2>5, <3>1, HeadTailOfSubSeq
  <2>8. Partial(conf.driver, v, k + 1) = Exec(view[s].schema, Head(todo[s]))
    <3>1. k + 1 \in 1 .. Len(ups) /\ (k + 1) - 1 = k
      BY <2>6
    <3> QED BY <2>4, <2>5, <2>7, <3>1
  <2>9. running'[s] = v /\ view'[s].schema = Exec(view[s].schema, Head(todo[s]))
    BY <1>1, <2>1, <2>2, SMTT(40) DEF IsRow
  <2>10. Midway(s)'
    <3>1. k + 1 \in 0 .. Len(ups)
      BY <2>6
    <3> QED BY <1>1, <1>4, <2>1, <2>3, <2>7, <2>8, <2>9, <3>1, ZenonT(40) DEF Midway
  <2>11. StarterSound(s)'
    BY <1>1, <1>3, <1>4, <2>1, <2>10, WrittenFacts DEF StarterSound
  <2> QED BY <1>1, <1>3, <2>1, <2>11, WrittenFacts, DbKept, StarterMoves
<1> QED BY <1>5, <1>6

LEMMA UnlockSound ==
  ASSUME MigInv, Transactional, NEW s \in Starters, Frame(s), unlock(s)
  PROVE  MigSound'
<1>1. pc \in [Starters -> Places] /\ conf' = conf
  BY DEF MigInv, MigTypes, Frame
<1>2. conf.driver \in Drivers /\ latestVersion \in Nat \ {0}
  BY ConfFacts
<1>3. pc[s] = "up" /\ todo[s] = << >> /\ pc'[s] = "next" /\ SetVersion(s, Clean(running[s]))
  BY <1>1 DEF unlock
<1>4. Midway(s) /\ conf.base # Fresh /\ wrote[s]
  BY <1>3, WrittenFacts DEF StarterSound, Midway
<1>5. PICK v \in 1 .. latestVersion : v = running[s]
  BY <1>4 DEF Midway
<1>6. PICK ups : ups = Up(conf.driver)[v]
  OBVIOUS
<1>7. PICK k \in 0 .. Len(ups) : /\ view[s].schema = Partial(conf.driver, v, k)
                                 /\ todo[s] = SubSeq(ups, k + 1, Len(ups))
  BY <1>4, <1>5, <1>6 DEF Midway
<1>8. /\ ups \in Seq([op : STRING, t : STRING, cols : SUBSET STRING])
      /\ Partial(conf.driver, v, Len(ups)) = SchemaAt(conf.driver, v)
  BY <1>2, <1>6, SchemasAssumption
<1>9. k = Len(ups)
  BY <1>3, <1>7, <1>8
<1>10. /\ db' = db /\ wrote'[s] /\ \A r \in Starters \ {s} : ~wrote[r]
       /\ view'[s] = [schema |-> view[s].schema, version |-> v, dirty |-> FALSE]
  <2>1. PICK row : row = Clean(v) /\ SetVersion(s, row)
    BY <1>3, <1>5
  <2>2. row.version = v /\ row.dirty = FALSE
    BY <2>1 DEF Clean
  <2>3. /\ db' = db /\ wrote'[s] /\ \A r \in Starters \ {s} : ~wrote[r]
        /\ view'[s] = [schema |-> IF wrote[s] THEN view[s].schema ELSE db.schema,
                       version |-> row.version, dirty |-> row.dirty]
    BY <2>1, SetVersionView
  <2> QED BY <1>4, <2>2, <2>3
<1>11. Between(s)'
  BY <1>1, <1>7, <1>8, <1>9, <1>10 DEF Between
<1>12. \A r \in Starters : wrote'[r] => r = s
  BY <1>10 DEF Frame
<1>13. StarterSound(s)'
  BY <1>1, <1>3, <1>4, <1>11, <1>12 DEF StarterSound
<1> QED BY <1>1, <1>10, <1>13, DbKept, StarterMoves

FinalSchema == IF conf.base = Fresh THEN tables ELSE Latest(conf.driver)

LEMMA LatestIsFinal == LatestDb <=> db.version = latestVersion /\ db.schema = FinalSchema
BY DEF LatestDb, FinalSchema

(* What a starter that creates tables has in front of it: a part of them in  *)
(* a new database, else the complete schema.                                *)
LEMMA PresentTables ==
  ASSUME MigInv, Transactional, NEW s \in Starters, Creating(s)
  PROVE  /\ Present(s) = IF wrote[s] THEN view[s].schema ELSE db.schema
         /\ \A r \in Starters \ {s} : ~wrote[r]
         /\ \/ pc[s] = "create" /\ wrote[s] /\ conf.base = Fresh /\ PartOfTables(Present(s))
            \/ pc[s] = "next" /\ Present(s) = FinalSchema
         /\ Committed(s) = [schema |-> db.schema, version |-> latestVersion, dirty |-> FALSE]
<1>1. /\ pc \in [Starters -> Places] /\ wrote \in [Starters -> BOOLEAN] /\ IsRow(db)
  BY DEF MigInv, MigTypes
<1>2. /\ conf.driver \in Drivers /\ conf.base \in {Fresh, NilVersion} \cup 0 .. latestVersion
      /\ latestVersion \in Nat \ {0} /\ NilVersion = -1 /\ Fresh = -2
  BY ConfFacts
<1>3. StarterSound(s) /\ DbSound
  BY WrittenFacts
<1>4. PICK sch : sch = Present(s) /\ sch = IF wrote[s] THEN view[s].schema ELSE db.schema
  BY DEF Present
<1>5. /\ wrote[s] \/ Writable(s)
      /\ pc[s] = "create" \/ (pc[s] = "next" /\ view[s].version >= latestVersion)
  BY DEF Creating
<1>6. \A r \in Starters \ {s} : ~wrote[r]
  BY <1>5, WrittenFacts DEF Writable
<1>8. FirstDb = IF conf.base = Fresh THEN [schema |-> << >>, version |-> NilVersion, dirty |-> FALSE]
                ELSE [schema |-> SchemaAt(conf.driver, conf.base), version |-> conf.base, dirty |-> FALSE]
  BY DEF FirstDb
<1>9. /\ \/ pc[s] = "create" /\ wrote[s] /\ conf.base = Fresh /\ PartOfTables(sch)
         \/ pc[s] = "next" /\ sch = FinalSchema
      /\ Committed(s) = [schema |-> db.schema, version |-> latestVersion, dirty |-> FALSE]
  <2>1. PICK h : h = db /\ h = [schema |-> h.schema, version |-> h.version, dirty |-> FALSE]
    BY <1>3 DEF DbSound
  <2>2. wrote[s] => Committed(s) = [h EXCEPT !.version = view[s].version, !.dirty = view[s].dirty]
    BY <2>1 DEF Committed
  <2>3. ~wrote[s] => Committed(s) = h
    BY <2>1 DEF Committed
  <2>4. db = FirstDb \/ LatestDb
    BY <1>3 DEF DbSound
  <2>5. CASE pc[s] = "create"
    <3>1. /\ conf.base = Fresh /\ wrote[s] /\ PartOfTables(view[s].schema)
          /\ view[s].version = latestVersion /\ view[s].dirty = FALSE
      BY <1>3, <2>5 DEF StarterSound
    <3>2. Committed(s) = [h EXCEPT !.version = latestVersion, !.dirty = FALSE]
      BY <2>2, <3>1
    <3> QED BY <1>4, <2>1, <2>5, <3>1, <3>2
  <2>6. CASE pc[s] = "next" /\ wrote[s]
    <3>1. /\ conf.base # Fresh /\ view[s].version \in 1 .. latestVersion
          /\ view[s].schema = SchemaAt(conf.driver, view[s].version) /\ view[s].dirty = FALSE
      <4>1. Between(s) /\ conf.base # Fresh
        BY <1>3, <2>6 DEF StarterSound
      <4> QED BY <2>6, <4>1 DEF Between
    <3>2. view[s].version = latestVersion
      BY <1>2, <1>5, <2>6, <3>1
    <3>3. sch = FinalSchema
      BY <1>4, <2>6, <3>1, <3>2 DEF FinalSchema, Latest
    <3> QED BY <2>1, <2>2, <2>6, <3>1, <3>2, <3>3
  <2>7. CASE pc[s] = "next" /\ ~wrote[s]
    <3>1. /\ view[s].version \in {FirstDb.version, latestVersion}
          /\ view[s].version = latestVersion => db.version = latestVersion
          /\ conf.base = Fresh => LatestDb
      BY <1>3, <2>7 DEF StarterSound, Between
    <3>2. FirstDb.version = (IF conf.base = Fresh THEN NilVersion ELSE conf.base)
      BY <1>8
    <3>3. db.version = latestVersion
      BY <1>2, <1>5, <2>7, <3>1, <3>2
    <3>4. LatestDb
      <4>1. db = FirstDb /\ conf.base # Fresh => conf.base = latestVersion /\ db.schema = SchemaAt(conf.driver, conf.base)
        BY <1>8, <3>2, <3>3
      <4> QED BY <2>4, <3>1, <3>3, <4>1 DEF LatestDb, Latest
    <3>5. sch = FinalSchema
      BY <1>4, <2>7, <3>4 DEF FinalSchema, LatestDb
    <3> QED BY <2>1, <2>3, <2>7, <3>3, <3>5
  <2> QED BY <1>1, <1>5, <2>5, <2>6, <2>7
<1> QED BY <1>4, <1>6, <1>9

LEMMA FinalHasTables ==
  ASSUME MigInv
  PROVE  DOMAIN tables \subseteq DOMAIN FinalSchema
<1>1. conf.driver \in Drivers
  BY ConfFacts
<1>2. \A t \in DOMAIN tables : t \in DOMAIN Latest(conf.driver)
  BY <1>1, SchemasAssumption DEF Latest
<1> QED BY <1>2 DEF FinalSchema

LEMMA CreateTableSound ==
  ASSUME MigInv, Transactional, NEW s \in Starters, Frame(s), createTable(s)
  PROVE  MigSound'
<1>1. /\ pc \in [Starters -> Places] /\ conf' = conf /\ wrote \in [Starters -> BOOLEAN]
      /\ DOMAIN view = Starters /\ IsRow(view[s])
  BY DEF MigInv, MigTypes, Frame
<1>2. /\ Creating(s) /\ pc' = pc
      /\ \E t \in DOMAIN tables \ DOMAIN Present(s) :
           /\ view' = [view EXCEPT ![s].schema = Exec(Present(s), CreateTable(t, tables[t]))]
           /\ wrote' = [wrote EXCEPT ![s] = TRUE] /\ db' = db
  BY DEF createTable
<1>3. PICK t \in DOMAIN tables \ DOMAIN Present(s) :
           /\ view' = [view EXCEPT ![s].schema = Exec(Present(s), CreateTable(t, tables[t]))]
           /\ wrote' = [wrote EXCEPT ![s] = TRUE] /\ db' = db
  BY <1>2
<1>4. /\ pc[s] = "create" /\ wrote[s] /\ conf.base = Fresh /\ PartOfTables(Present(s))
      /\ \A r \in Starters \ {s} : ~wrote[r]
  BY <1>2, <1>3, PresentTables, FinalHasTables
<1>5. PICK T \in SUBSET DOMAIN tables : Present(s) = [u \in T |-> tables[u]]
  BY <1>4 DEF PartOfTables
<1>6. PICK more : more = Exec(Present(s), CreateTable(t, tables[t]))
  OBVIOUS
<1>7. more = [u \in T \cup {t} |-> tables[u]]
  <2>1. t \notin DOMAIN Present(s) /\ DOMAIN Present(s) = T
    BY <1>3, <1>5
  <2>2. PICK st : st = CreateTable(t, tables[t])
    OBVIOUS
  <2>4. st.op = "create" /\ st.t = t /\ st.cols = tables[t]
    BY <2>2 DEF CreateTable
  <2>3. more = [u \in T \cup {t} |-> IF u = t THEN tables[t] ELSE Present(s)[u]]
    BY <1>6, <2>1, <2>2, <2>4 DEF Exec
  <2> QED BY <1>5, <2>3
<1>8. PartOfTables(more)
  BY <1>3, <1>7 DEF PartOfTables
<1>9. view'[s].schema = more /\ view'[s].version = view[s].version /\ view'[s].dirty = view[s].dirty
  BY <1>1, <1>3, <1>6 DEF IsRow
<1>10. view[s].version = latestVersion /\ view[s].dirty = FALSE
  BY <1>4, WrittenFacts DEF StarterSound
<1>11. wrote'[s] /\ \A r \in Starters : wrote'[r] => r = s
  BY <1>1, <1>3, <1>4
<1>12. StarterSound(s)'
  BY <1>1, <1>2, <1>4, <1>8, <1>9, <1>10, <1>11 DEF StarterSound
<1> QED BY <1>1, <1>3, <1>4, <1>12, DbKept, StarterMoves

LEMMA OpenedSound ==
  ASSUME MigInv, Transactional, NEW s \in Starters, Frame(s), opened(s)
  PROVE  MigSound'
<1>1. /\ pc \in [Starters -> Places] /\ conf' = conf /\ wrote \in [Starters -> BOOLEAN]
  BY DEF MigInv, MigTypes, Frame
<1>2. /\ Creating(s) /\ DOMAIN tables \subseteq DOMAIN Present(s)
      /\ db' = [Committed(s) EXCEPT !.schema = Present(s)]
  BY DEF opened
<1>3. ~wrote'[s] /\ pc'[s] = "serving"
  BY <1>1 DEF opened
<1>4. /\ \A r \in Starters \ {s} : ~wrote[r]
      /\ \/ conf.base = Fresh /\ PartOfTables(Present(s))
         \/ Present(s) = FinalSchema
      /\ Committed(s) = [schema |-> db.schema, version |-> latestVersion, dirty |-> FALSE]
  BY <1>2, PresentTables
<1>5. Present(s) = FinalSchema
  <2>1. CASE conf.base = Fresh /\ PartOfTables(Present(s))
    <3>1. PICK T \in SUBSET DOMAIN tables : Present(s) = [u \in T |-> tables[u]]
      BY <2>1 DEF PartOfTables
    <3>2. T = DOMAIN tables
      BY <1>2, <3>1
    <3>3. tables = [u \in DOMAIN tables |-> tables[u]]
      BY DEF tables
    <3> QED BY <2>1, <3>1, <3>2, <3>3 DEF FinalSchema
  <2> QED BY <1>4, <2>1
<1>10. db' = [schema |-> FinalSchema, version |-> latestVersion, dirty |-> FALSE]
  <2>1. PICK h : h = Committed(s)
    OBVIOUS
  <2>2. db' = [h EXCEPT !.schema = FinalSchema]
    BY <1>2, <1>5, <2>1
  <2>3. h = [schema |-> db.schema, version |-> latestVersion, dirty |-> FALSE]
    BY <1>4, <2>1
  <2> QED BY <2>2, <2>3
<1>11. FinalSchema' = FinalSchema
  BY <1>1 DEF FinalSchema
<1>12. LatestDb' /\ DbSound'
  <2>1. LatestDb' <=> db'.version = latestVersion /\ db'.schema = FinalSchema'
    BY DEF LatestDb, FinalSchema
  <2>2. LatestDb'
    BY <1>10, <1>11, <2>1
  <2> QED BY <1>10, <2>2 DEF DbSound
<1>13. StarterSound(s)'
  BY <1>3, <1>12 DEF StarterSound
<1> QED BY <1>3, <1>4, <1>12, <1>13, StarterMoves

LEMMA CrashSound ==
  ASSUME MigInv, Transactional, NEW s \in Starters, Frame(s), crash(s)
  PROVE  MigSound'
<1>1. pc \in [Starters -> Places] /\ conf' = conf /\ wrote \in [Starters -> BOOLEAN]
  BY DEF MigInv, MigTypes, Frame
<1>2. ~wrote'[s] /\ db' = db /\ pc'[s] \in {"off", "failed"}
  BY <1>1 DEF crash
<1> QED BY <1>1, <1>2, PlainPlace, DbKept, StarterMoves

LEMMA MigInvInit == MigInit => MigInv
<1> SUFFICES ASSUME MigInit PROVE MigInv
  OBVIOUS
<1>1. MigTypes
  <2>1. IsRow(NoTx)
    BY DEF IsRow, NoTx
  <2>2. IsRow(db)
    BY DEF MigInit, IsRow
  <2> QED BY <2>1, <2>2 DEF MigInit, MigTypes, Places
<1>2. db = FirstDb /\ db = [schema |-> db.schema, version |-> db.version, dirty |-> FALSE]
  BY DEF MigInit, FirstDb
<1>3. \A s \in Starters : StarterSound(s)
  BY DEF MigInit, StarterSound
<1> QED BY <1>1, <1>2, <1>3 DEF MigInv, DbSound

LEMMA StepOfMigrations == [Next]_vars => UNCHANGED migVars \/ MigNext
<1> SUFFICES ASSUME [Next]_vars PROVE UNCHANGED migVars \/ MigNext
  OBVIOUS
<1>1. ASSUME NEW c \in Clients, Accept(c) PROVE UNCHANGED migVars
  <2>1. PICK r : Take(c, r)
    BY <1>1 DEF Accept, handleAppCreate, handleAppUpdate, handleFnCreate, handleFnGet, handleFnUpdate,
       handleTriggerUpdate, handleTriggerGet, handleTriggerCreate, handleAppDelete, handleFnDelete,
       handleTriggerDelete, handleList, Create
  <2> QED BY <2>1 DEF Take
<1>2. ASSUME NEW c \in Clients, Handle(c) PROVE UNCHANGED migVars
  BY <1>2 DEF Handle, beforeListeners, txReads, queryFails, txFails, UpdateApp, InsertFn, UpdateFn, RemoveFn,
     InsertTrigger, UpdateTrigger, InsertApp, RemoveApp, RemoveTrigger, getRow, GetAppByID, afterListeners,
     getPage, respond, Writes, Single
<1> QED BY <1>1, <1>2 DEF Next, vars

LEMMA MigInvNext == MigInv /\ [Next]_vars => MigInv'
<1> SUFFICES ASSUME MigInv, [Next]_vars PROVE MigInv'
  OBVIOUS
<1>1. CASE UNCHANGED migVars
  BY <1>1 DEF migVars, MigInv, MigTypes, DbSound, StarterSound, Between, Midway, LatestDb, FirstDb, IsRow,
              Transactional
<1>2. CASE MigNext
  <2>1. PICK s \in Starters :
          \/ New(s) \/ pingFails(s) \/ runMigrations(s) \/ setFresh(s) \/ lock(s) \/ run(s)
          \/ runUnmarked(s) \/ statement(s) \/ unlock(s) \/ createTable(s) \/ opened(s) \/ crash(s)
    BY <1>2 DEF MigNext
  <2>2. MigTypes' /\ Frame(s)
    BY <2>1, MigTypesNext
  <2>3. Transactional' <=> Transactional
    BY <2>2 DEF Frame, Transactional
  <2>4. Transactional => MigSound'
    BY <2>1, <2>2, NewSound, RunMigrationsSound, SetFreshSound, LockSound, RunSound, StatementSound,
       UnlockSound, CreateTableSound, OpenedSound, CrashSound
  <2> QED BY <2>2, <2>3, <2>4 DEF MigInv, MigSound
<1>3. UNCHANGED migVars \/ MigNext
  BY StepOfMigrations
<1> QED BY <1>1, <1>2, <1>3

LEMMA MigInvMeaning == MigInv => (Transactional => SchemaMatchesVersion)
<1> SUFFICES ASSUME MigInv, Transactional PROVE SchemaMatchesVersion
  OBVIOUS
<1>1. /\ conf.driver \in Drivers /\ conf.base \in {Fresh, NilVersion} \cup 0 .. latestVersion
      /\ latestVersion \in Nat \ {0} /\ NilVersion = -1 /\ Fresh = -2
  BY ConfFacts
<1>2. DbSound /\ \A s \in Starters : pc[s] = "serving" => LatestDb
  BY DEF MigInv, StarterSound
<1>3. RedoRestores
  BY SchemasAssumption
<1>4. LatestDb => \A t \in DOMAIN tables :
                    t \in DOMAIN db.schema /\ tables[t] \ Constraints = db.schema[t] \ Constraints
  <2>1. \A t \in DOMAIN tables :
          /\ t \in DOMAIN Latest(conf.driver)
          /\ tables[t] \ Constraints = Latest(conf.driver)[t] \ Constraints
    BY <1>1, SchemasAssumption DEF Latest
  <2>2. LatestDb => db.schema = tables \/ db.schema = Latest(conf.driver)
    BY DEF LatestDb
  <2> QED BY <2>1, <2>2
<1>5. ServesLatest
  <2>1. LatestDb => db.version = latestVersion
    BY DEF LatestDb
  <2> QED BY <1>2, <1>4, <2>1 DEF ServesLatest
<1>6. ~db.dirty
  BY <1>2 DEF DbSound
<1>7. CASE LatestDb
  <2>1. db.version = latestVersion /\ db.schema \in {SchemaAt(conf.driver, latestVersion), tables}
    BY <1>7 DEF LatestDb, Latest
  <2>2. db.schema \in Expected(conf.driver, db.version)
    BY <2>1 DEF Expected
  <2> QED BY <1>3, <1>5, <1>6, <2>1, <2>2 DEF SchemaMatchesVersion
<1>8. CASE db = FirstDb
  <2>1. conf.base # Fresh => /\ db.version = conf.base
                             /\ db.schema = SchemaAt(conf.driver, db.version)
    BY <1>8 DEF FirstDb
  <2>2. conf.base = Fresh => db.schema = << >>
    BY <1>8 DEF FirstDb
  <2>3. conf.base # Fresh => db.schema \in Expected(conf.driver, db.version)
    BY <2>1 DEF Expected
  <2> QED BY <1>3, <1>5, <1>6, <2>1, <2>2, <2>3 DEF SchemaMatchesVersion
<1> QED BY <1>2, <1>7, <1>8 DEF DbSound

(* Where DDL is transactional, the version row always tells the schema: for  *)
(* any number of servers opening the database at once, any of them failing   *)
(* or being killed after any statement, and any age of the database, what    *)
(* is committed is the database as it was or the one all migrations lead to, *)
(* and a server that serves has every table and column (sql.go newDS and     *)
(* runMigrations, migratex run).                                             *)
THEOREM SchemaAlwaysMatches == Spec => [](Transactional => SchemaMatchesVersion)
<1>1. Init => MigInv
  BY MigInvInit DEF Init
<1> QED BY <1>1, MigInvNext, MigInvMeaning, PTL DEF Spec

-----------------------------------------------------------------------------
(* The rows                                                                  *)

IsApp(x) == x = [name |-> x.name, conf |-> x.conf]
IsFn(x) == x = [app |-> x.app, name |-> x.name, mem |-> x.mem]
IsTrigger(x) == x = [app |-> x.app, fn |-> x.fn, name |-> x.name, src |-> x.src]

RowShapes ==
  /\ \A a \in DOMAIN apps : IsApp(apps[a]) /\ a \in issued /\ a \in DOMAIN want
  /\ \A f \in DOMAIN fns : IsFn(fns[f]) /\ f \in issued
  /\ \A t \in DOMAIN triggers : IsTrigger(triggers[t]) /\ t \in issued

AppNamesUnique == \A a, b \in DOMAIN apps : apps[a].name = apps[b].name => a = b

(* What the reads of a transaction found still holds when it writes. *)
Written(c) ==
  LET r == req[c] IN
  /\ r.op = "UpdateApp" /\ Serial => /\ r.id \in DOMAIN apps /\ r.body.row.name = apps[r.id].name
                                     /\ r.body.row.conf = MergeChange(apps[r.id].conf, r.body.patch)
  /\ r.op = "InsertFn" => IsFn(r.body.row) /\ (Serial /\ r.body.checked => r.body.row.app \in DOMAIN apps)
  /\ r.op = "UpdateFn" => /\ IsFn(r.body.row) /\ r.id \in issued
                          /\ r.id \in DOMAIN fns => /\ r.body.row.app = fns[r.id].app
                                                    /\ r.body.row.name = fns[r.id].name
  /\ r.op = "InsertTrigger" => /\ IsTrigger(r.body.row)
                               /\ Serial => /\ r.body.row.app \in DOMAIN apps /\ r.body.row.fn \in DOMAIN fns
                                            /\ fns[r.body.row.fn].app = r.body.row.app
                                            /\ ~SourceTaken(r.body.row)
  /\ r.op = "UpdateTrigger" => IsTrigger(r.body.row)
  /\ Serial => conn = c

Begun(r) ==
  /\ r.op = "InsertApp" => IsApp(r.body)
  /\ r.op = "InsertFn" => IsFn(r.body)
  /\ r.op = "InsertTrigger" => IsTrigger(r.body)

Fields(r) == IF r.op \in {"idle", "List"} THEN {"op", "step"} ELSE {"op", "step", "id", "body"}

ReqSound(c) ==
  /\ Fields(req[c]) \subseteq DOMAIN req[c]
  /\ req[c].step # "idle" => Serving
  /\ req[c].step = "begin" => Begun(req[c])
  /\ req[c].step = "write" => req[c].op \in Transactions /\ Written(c)

RowsSound == RowShapes /\ AppNamesUnique /\ TablesConsistent /\ PatchesSurvive

DsInv == DOMAIN req = Clients /\ RowsSound /\ \A c \in Clients : ReqSound(c)

Inv == MigInv /\ (Transactional => DsInv)

FnsHaveApps == \A f \in DOMAIN fns \ unchecked : fns[f].app \in DOMAIN apps
TriggersHaveApps == \A t \in DOMAIN triggers : triggers[t].app \in DOMAIN apps
TriggersHaveFns ==
  \A t \in DOMAIN triggers : Unmoved(t) => triggers[t].fn \in DOMAIN fns /\ fns[triggers[t].fn].app = triggers[t].app
SourcesUnique ==
  \A t, u \in DOMAIN triggers :
    (t # u /\ triggers[t].app = triggers[u].app /\ triggers[t].src = triggers[u].src) => ~Unmoved(t) \/ ~Unmoved(u)
FnNamesUnique ==
  \A f, g \in DOMAIN fns : (fns[f].app = fns[g].app /\ fns[f].name = fns[g].name) => f = g

LEMMA ConsistentParts ==
  TablesConsistent <=> /\ Serial => FnsHaveApps /\ TriggersHaveApps /\ TriggersHaveFns /\ SourcesUnique
                       /\ FnNamesKept => FnNamesUnique
BY DEF TablesConsistent, FnsHaveApps, TriggersHaveApps, TriggersHaveFns, SourcesUnique, FnNamesKept, FnNamesUnique

LEMMA ConsistentPartsNext ==
  TablesConsistent' <=> /\ Serial' => FnsHaveApps' /\ TriggersHaveApps' /\ TriggersHaveFns' /\ SourcesUnique'
                        /\ FnNamesKept' => FnNamesUnique'
BY DEF TablesConsistent, FnsHaveApps, TriggersHaveApps, TriggersHaveFns, SourcesUnique, FnNamesKept, FnNamesUnique,
       Serial, Unmoved

LEMMA ServingStays ==
  ASSUME MigInv, MigNext, Serving PROVE Serving'
<1>1. PICK s \in Starters :
        \/ New(s) \/ pingFails(s) \/ runMigrations(s) \/ setFresh(s) \/ lock(s) \/ run(s)
        \/ runUnmarked(s) \/ statement(s) \/ unlock(s) \/ createTable(s) \/ opened(s) \/ crash(s)
  BY DEF MigNext
<1>2. Frame(s)
  BY <1>1, MigTypesNext
<1>3. PICK q \in Starters : pc[q] = "serving"
  BY DEF Serving
<1>4. pc[s] # "serving"
  <2>1. ~(createTable(s) \/ opened(s)) => pc[s] # "serving"
    BY <1>1 DEF New, pingFails, runMigrations, setFresh, lock, run, runUnmarked, statement, unlock, crash, Settled
  <2>2. createTable(s) \/ opened(s) => pc[s] # "serving"
    BY DEF createTable, opened, Creating
  <2> QED BY <2>1, <2>2
<1> QED BY <1>2, <1>3, <1>4 DEF Frame, Serving

LEMMA ServingSchema ==
  ASSUME MigInv, Transactional, Serving
  PROVE  Has("apps", "UNIQUE name") /\ (FnNamesKept => Has("fns", "UNIQUE app_id name"))
<1>1. LatestDb
  BY DEF Serving, MigInv, StarterSound
<1>2. conf.driver \in Drivers
  BY ConfFacts
<1>3. /\ "UNIQUE name" \in Latest(conf.driver)["apps"]
      /\ conf.driver # "postgres" => "UNIQUE app_id name" \in Latest(conf.driver)["fns"]
  BY <1>2, SchemasAssumption DEF Latest
<1>4. "UNIQUE name" \in tables["apps"] /\ "UNIQUE app_id name" \in tables["fns"]
  BY DEF tables
<1> QED BY <1>1, <1>3, <1>4 DEF LatestDb, Has, FnNamesKept

LEMMA DsInvInit == Init => DsInv
<1> SUFFICES ASSUME Init PROVE DsInv
  OBVIOUS
<1>1. conn = Free /\ req = [c \in Clients |-> Idle] /\ patched = {}
      /\ issued = DOMAIN apps \cup DOMAIN fns \cup DOMAIN triggers /\ want = [a \in DOMAIN apps |-> apps[a].conf]
  BY DEF Init
<1>2. \A c \in Clients : ReqSound(c)
  BY <1>1 DEF ReqSound, Fields, Idle
<1>3. CASE apps = << >> /\ fns = << >> /\ triggers = << >>
  <2>1. DOMAIN apps = {} /\ DOMAIN fns = {} /\ DOMAIN triggers = {}
    BY <1>3
  <2>2. RowsSound
    BY <2>1 DEF RowsSound, RowShapes, AppNamesUnique, TablesConsistent, PatchesSurvive
  <2> QED BY <1>1, <1>2, <2>2 DEF DsInv
<1>4. CASE apps = FirstApps /\ fns = FirstFns /\ triggers = FirstTriggers
  <2>1. RowShapes
    <3>1. \A a \in DOMAIN apps : apps[a] \in [name : Names, conf : SUBSET Keys]
      BY <1>4, FirstRowsAssumption
    <3>2. \A f \in DOMAIN fns : fns[f] \in [app : DOMAIN FirstApps, name : Names, mem : 1 .. MaxMemory]
      BY <1>4, FirstRowsAssumption
    <3>3. \A t \in DOMAIN triggers :
            triggers[t] \in [app : DOMAIN FirstApps, fn : DOMAIN FirstFns, name : Names, src : Sources]
      BY <1>4, FirstRowsAssumption
    <3>4. \A a \in DOMAIN apps : IsApp(apps[a])
      BY <3>1 DEF IsApp
    <3>5. \A f \in DOMAIN fns : IsFn(fns[f])
      BY <3>2 DEF IsFn
    <3>6. \A t \in DOMAIN triggers : IsTrigger(triggers[t])
      BY <3>3 DEF IsTrigger
    <3> QED BY <1>1, <3>4, <3>5, <3>6 DEF RowShapes
  <2>2. AppNamesUnique
    BY <1>4, FirstRowsAssumption DEF AppNamesUnique
  <2>3. PatchesSurvive
    BY <1>1 DEF PatchesSurvive
  <2>4. TablesConsistent
    <3>1. FnsHaveApps
      BY <1>4, FirstRowsAssumption DEF FnsHaveApps
    <3>2. TriggersHaveApps
      BY <1>4, FirstRowsAssumption DEF TriggersHaveApps
    <3>3. TriggersHaveFns
      BY <1>4, FirstRowsAssumption DEF TriggersHaveFns
    <3>4. SourcesUnique
      BY <1>4, FirstRowsAssumption DEF SourcesUnique
    <3>5. FnNamesUnique
      BY <1>4, FirstRowsAssumption DEF FnNamesUnique
    <3> QED BY <3>1, <3>2, <3>3, <3>4, <3>5, ConsistentParts
  <2> QED BY <1>1, <1>2, <2>1, <2>2, <2>3, <2>4 DEF DsInv, RowsSound
<1> QED BY <1>3, <1>4 DEF Init

(* Rows nobody touched. *)
LEMMA RowsKept ==
  ASSUME RowsSound, UNCHANGED <<apps, fns, triggers, issued, patched, unchecked, want, conf>>
  PROVE  RowsSound'
BY DEF RowsSound, RowShapes, AppNamesUnique, TablesConsistent, PatchesSurvive, Serial, Unmoved, FnNamesKept

LEMMA MigKeepsDs ==
  ASSUME MigInv, DsInv, MigNext \/ UNCHANGED migVars, UNCHANGED dsVars
  PROVE  DsInv'
<1>1. UNCHANGED <<apps, fns, triggers, conn, req, issued, patched, unchecked, want>>
  BY DEF dsVars
<1>2. conf' = conf /\ (Serving => Serving')
  <2>1. CASE MigNext
    BY <2>1, ServingStays, MigTypesNext DEF MigNext, Frame
  <2>2. CASE UNCHANGED migVars
    BY <2>2 DEF migVars, Serving
  <2> QED BY <2>1, <2>2
<1>3. RowsSound'
  BY <1>1, <1>2, RowsKept DEF DsInv
<1>4. ASSUME NEW c \in Clients PROVE ReqSound(c)'
  <2>1. Written(c) => Written(c)'
    BY <1>1, <1>2 DEF Written, Serial, SourceTaken
  <2> QED BY <1>1, <1>2, <2>1 DEF DsInv, ReqSound
<1> QED BY <1>1, <1>3, <1>4 DEF DsInv

-----------------------------------------------------------------------------
(* Requests                                                                  *)

(* A function keeps its app and its name; its id is not used again. *)
FnsKeep == \A f \in issued : f \in DOMAIN fns' => /\ f \in DOMAIN fns /\ fns'[f].app = fns[f].app
                                                  /\ fns'[f].name = fns[f].name

Alone(c) == Serial => \A d \in Clients : req[d].step = "write" => d = c

(* With sqlite3 no other transaction is between its reads and its writes. *)
LEMMA HasConnection ==
  ASSUME DsInv, NEW c \in Clients, Connected(c) \/ req[c].step = "write"
  PROVE  Alone(c)
<1>1. \A d \in Clients : Serial /\ req[d].step = "write" => conn = d
  BY DEF DsInv, ReqSound, Written
<1> QED BY <1>1, ClientsAssumption DEF Alone, Connected

LEMMA OthersReady ==
  ASSUME DsInv, UNCHANGED migVars, NEW c \in Clients, NEW r, req' = [req EXCEPT ![c] = r],
         issued \subseteq issued', FnsKeep,
         UNCHANGED <<apps, fns, triggers, conn>> \/ Alone(c)
  PROVE  \A d \in Clients \ {c} : ReqSound(d)'
<1> SUFFICES ASSUME NEW d \in Clients \ {c} PROVE ReqSound(d)'
  OBVIOUS
<1>1. req'[d] = req[d] /\ ReqSound(d)
  BY DEF DsInv
<1>2. conf' = conf /\ (Serving' <=> Serving)
  BY DEF migVars, Serving
<1>3. (Serial' <=> Serial) /\ (Serial /\ req[d].step = "write" => UNCHANGED <<apps, fns, triggers, conn>>)
  BY <1>2 DEF Serial, Alone
<1>4. ASSUME req[d].step = "write", Written(d) PROVE Written(d)'
  <2>1. CASE Serial
    BY <1>1, <1>2, <1>3, <1>4, <2>1 DEF Written, SourceTaken
  <2>2. CASE ~Serial
    BY <1>1, <1>3, <1>4, <2>2 DEF Written, FnsKeep
  <2> QED BY <2>1, <2>2
<1> QED BY <1>1, <1>2, <1>4 DEF ReqSound

LEMMA RequestMoves ==
  ASSUME DsInv, UNCHANGED migVars, NEW c \in Clients, NEW r, req' = [req EXCEPT ![c] = r],
         issued \subseteq issued', FnsKeep,
         UNCHANGED <<apps, fns, triggers, conn>> \/ Alone(c),
         RowsSound', ReqSound(c)'
  PROVE  DsInv'
<1>1. DOMAIN req' = Clients
  BY DEF DsInv
<1>2. \A d \in Clients : ReqSound(d)'
  BY OthersReady
<1> QED BY <1>1, <1>2 DEF DsInv

(* Where a request waits that will neither read nor write any more. *)
Quiet(r) == /\ Fields(r) \subseteq DOMAIN r /\ r.step # "write"
            /\ r.step # "idle" => Serving
            /\ r.step = "begin" => r.op = "List"

LEMMA QuietSound ==
  ASSUME DsInv, UNCHANGED migVars, NEW c \in Clients, NEW r, req' = [req EXCEPT ![c] = r], Quiet(r)
  PROVE  ReqSound(c)'
<1>1. req'[c] = r
  BY DEF DsInv
<1>2. Serving => Serving'
  BY DEF migVars, Serving
<1> QED BY <1>1, <1>2 DEF ReqSound, Quiet, Begun

LEMMA QuietMoves ==
  ASSUME DsInv, UNCHANGED migVars, NEW c \in Clients, NEW r, req' = [req EXCEPT ![c] = r], Quiet(r),
         tablesKept, conn' = conn \/ Alone(c)
  PROVE  DsInv'
<1>1. UNCHANGED <<apps, fns, triggers, issued, patched, unchecked, want>> /\ conf' = conf
  BY DEF tablesKept, migVars
<1>2. RowsSound'
  BY <1>1, RowsKept DEF DsInv
<1>3. FnsKeep
  BY <1>1 DEF FnsKeep
<1>4. ReqSound(c)'
  BY QuietSound
<1>5. issued \subseteq issued' /\ (UNCHANGED <<apps, fns, triggers, conn>> \/ Alone(c))
  BY <1>1
<1> QED BY <1>2, <1>3, <1>4, <1>5, RequestMoves

LEMMA Responses ==
  ASSUME DsInv, NEW c \in Clients, req[c].step # "idle"
  PROVE  /\ Quiet(handleErrorResponse(req[c])) /\ Quiet(handled(req[c]))
         /\ Quiet([req[c] EXCEPT !.step = "after"])
<1>1. PICK r : r = req[c]
  OBVIOUS
<1>2. Fields(r) \subseteq DOMAIN r /\ Serving /\ {"op", "step"} \subseteq DOMAIN r
  BY <1>1 DEF DsInv, ReqSound, Fields
<1>3. ASSUME NEW x, DOMAIN x = DOMAIN r, x.op = r.op, x.step \in {"done", "after"} PROVE Quiet(x)
  BY <1>2, <1>3 DEF Quiet, Fields
<1>4. ASSUME NEW y PROVE LET x == [r EXCEPT !.step = "done", !.told = y] IN
                         DOMAIN x = DOMAIN r /\ x.op = r.op /\ x.step = "done"
  BY <1>2
<1>5. Quiet(handleErrorResponse(r))
  BY <1>3, <1>4 DEF handleErrorResponse
<1>6. Quiet(handled(r))
  BY <1>3, <1>4 DEF handled
<1>7. Quiet([r EXCEPT !.step = "after"])
  BY <1>2, <1>3
<1> QED BY <1>1, <1>5, <1>6, <1>7

Acceptable(r) == /\ Fields(r) \subseteq DOMAIN r /\ r.step \in {"begin", "done"}
                 /\ r.step = "begin" => Begun(r)

LEMMA NewRequests ==
  ASSUME NEW op, NEW id, NEW body, op \notin {"idle", "List"}
  PROVE  LET r == Request(op, id, body) IN
         /\ Begun(r) => Acceptable(r)
         /\ Acceptable(handleErrorResponse(r))
         /\ Begun(r) => Acceptable(mismatch(r))
         /\ r.op = op /\ r.body = body
<1>1. PICK r : r = Request(op, id, body)
  OBVIOUS
<1>2. r = [op |-> op, step |-> "begin", id |-> id, body |-> body, told |-> None]
  BY <1>1 DEF Request
<1>3. DOMAIN r = {"op", "step", "id", "body", "told"} /\ r.op = op /\ r.step = "begin" /\ r.body = body
  BY <1>2
<1>4. Begun(r) => Acceptable(r)
  BY <1>3 DEF Acceptable, Fields
<1>5. Acceptable(handleErrorResponse(r))
  <2>1. PICK x : x = handleErrorResponse(r)
    OBVIOUS
  <2>2. DOMAIN x = DOMAIN r /\ x.op = op /\ x.step = "done"
    BY <1>3, <2>1 DEF handleErrorResponse
  <2> QED BY <1>3, <2>1, <2>2 DEF Acceptable, Fields
<1>6. Begun(r) => Acceptable(mismatch(r))
  <2>1. PICK x : x = mismatch(r)
    OBVIOUS
  <2>2. DOMAIN x = DOMAIN r /\ x.op = op /\ x.step = "begin" /\ x.body = body
    BY <1>3, <2>1 DEF mismatch
  <2>3. Begun(r) => Begun(x)
    BY <1>3, <2>2 DEF Begun
  <2> QED BY <1>3, <2>1, <2>2, <2>3 DEF Acceptable, Fields
<1> QED BY <1>1, <1>3, <1>4, <1>5, <1>6

LEMMA AcceptSound ==
  ASSUME DsInv, NEW c \in Clients, Accept(c)
  PROVE  DsInv'
<1>1. PICK r : Acceptable(r) /\ Take(c, r)
  <2>1. ASSUME NEW op \in {"UpdateApp", "UpdateFn", "UpdateTrigger", "RemoveApp", "RemoveFn", "RemoveTrigger",
                           "GetFn", "GetTrigger"}, NEW id, NEW body
        PROVE  LET r == Request(op, id, body)
               IN  Acceptable(r) /\ Acceptable(handleErrorResponse(r)) /\ Acceptable(mismatch(r))
    <3>1. PICK r : r = Request(op, id, body)
      OBVIOUS
    <3>2. r.op = op
      BY <3>1, NewRequests
    <3>3. Begun(r)
      BY <3>2 DEF Begun
    <3> QED BY <3>1, <3>3, NewRequests
  <2>2. ASSUME NEW op, NEW body, NEW ids, Create(c, op, body, ids),
               \/ op = "InsertApp" /\ IsApp(body)
               \/ op = "InsertFn" /\ IsFn(body)
               \/ op = "InsertTrigger" /\ IsTrigger(body)
        PROVE  \E r : Acceptable(r) /\ Take(c, r)
    <3>1. PICK r : r = Request(op, None, body)
      OBVIOUS
    <3>2. r.op = op /\ r.body = body
      BY <2>2, <3>1, NewRequests
    <3>3. Begun(r)
      BY <2>2, <3>2 DEF Begun
    <3>4. Acceptable(r) /\ Acceptable(handleErrorResponse(r))
      BY <2>2, <3>1, <3>3, NewRequests
    <3>5. Take(c, r) \/ Take(c, handleErrorResponse(r))
      BY <2>2, <3>1 DEF Create
    <3> QED BY <3>4, <3>5
  <2>3. CASE handleAppCreate(c)
    <3>1. PICK n : Create(c, "InsertApp", [name |-> n, conf |-> {}], AppIds)
      BY <2>3 DEF handleAppCreate
    <3>2. IsApp([name |-> n, conf |-> {}])
      BY DEF IsApp
    <3> QED BY <2>2, <3>1, <3>2
  <2>4. CASE handleFnCreate(c)
    <3>1. PICK f \in NewFns : Create(c, "InsertFn", f, FnIds)
      BY <2>4 DEF handleFnCreate
    <3>2. IsFn(f)
      BY DEF IsFn, NewFns
    <3> QED BY <2>2, <3>1, <3>2
  <2>5. CASE handleTriggerCreate(c)
    <3>1. PICK t \in NewTriggers : Create(c, "InsertTrigger", t, TriggerIds)
      BY <2>5 DEF handleTriggerCreate
    <3>2. IsTrigger(t)
      BY DEF IsTrigger, NewTriggers, NoPatch
    <3> QED BY <2>2, <3>1, <3>2
  <2>6. CASE handleAppUpdate(c)
    BY <2>1, <2>6 DEF handleAppUpdate
  <2>7. CASE handleFnUpdate(c)
    BY <2>1, <2>7 DEF handleFnUpdate
  <2>8. CASE handleTriggerUpdate(c)
    BY <2>1, <2>8 DEF handleTriggerUpdate
  <2>9. CASE handleAppDelete(c) \/ handleFnDelete(c) \/ handleTriggerDelete(c) \/ handleFnGet(c) \/ handleTriggerGet(c)
    BY <2>1, <2>9 DEF handleAppDelete, handleFnDelete, handleTriggerDelete, handleFnGet, handleTriggerGet
  <2>10. CASE handleList(c)
    <3>1. PICK k, app : Take(c, [op |-> "List", step |-> "begin", kind |-> k, app |-> app, cursor |-> Empty,
             start |-> Selected(k, app), seen |-> {}, twice |-> {}, cut |-> FALSE, told |-> None])
      BY <2>10 DEF handleList
    <3>2. PICK r : r = [op |-> "List", step |-> "begin", kind |-> k, app |-> app, cursor |-> Empty,
             start |-> Selected(k, app), seen |-> {}, twice |-> {}, cut |-> FALSE, told |-> None]
      OBVIOUS
    <3>3. r.op = "List" /\ r.step = "begin" /\ {"op", "step"} \subseteq DOMAIN r
      BY <3>2
    <3>4. Acceptable(r)
      BY <3>3 DEF Acceptable, Begun, Fields
    <3> QED BY <3>1, <3>2, <3>4
  <2> QED BY <2>3, <2>4, <2>5, <2>6, <2>7, <2>8, <2>9, <2>10 DEF Accept
<1>2. /\ Serving /\ req' = [req EXCEPT ![c] = r] /\ UNCHANGED <<apps, fns, triggers, conn, issued, patched, unchecked, want>>
      /\ UNCHANGED migVars
  BY <1>1 DEF Take
<1>3. conf' = conf /\ Serving'
  BY <1>2 DEF migVars, Serving
<1>4. RowsSound' /\ FnsKeep
  BY <1>2, <1>3, RowsKept DEF DsInv, FnsKeep
<1>5. ReqSound(c)'
  <2>1. req'[c] = r
    BY <1>2 DEF DsInv
  <2> QED BY <1>1, <1>3, <2>1 DEF ReqSound, Acceptable
<1> QED BY <1>2, <1>4, <1>5, RequestMoves

(* A page: the rows it selects, those of them it shows, and the request after it. *)
Shows(c, r, page, items, got) ==
  /\ got = [r EXCEPT !.seen = r.seen \cup items, !.twice = r.twice \cup (r.seen \cap items),
                     !.cut = items # page, !.cursor = nextCursor(r.kind, items)]
  /\ req' = [req EXCEPT ![c] =
               IF r.kind # "apps" /\ items # {} /\ r.app \notin DOMAIN apps
               THEN handleErrorResponse(r)
               ELSE IF nextCursor(r.kind, items) = Empty THEN handled(got) ELSE got]

LEMMA PageStep ==
  ASSUME NEW c \in Clients, getPage(c)
  PROVE  \E page \in FirstOf(req[c].kind, After(req[c].kind, req[c].app, req[c].cursor), PerPage) :
           \E items \in SUBSET page : \E got : Shows(c, req[c], page, items, got)
<1>1. PICK page \in FirstOf(req[c].kind, After(req[c].kind, req[c].app, req[c].cursor), PerPage) :
        \E items \in SUBSET page :
          LET next == nextCursor(req[c].kind, items)
              got == [req[c] EXCEPT !.seen = @ \cup items, !.twice = @ \cup (req[c].seen \cap items),
                                    !.cut = items # page, !.cursor = next]
          IN  /\ req[c].kind = "apps" => items = page
              /\ req' = [req EXCEPT ![c] =
                           IF req[c].kind # "apps" /\ items # {} /\ req[c].app \notin DOMAIN apps
                           THEN handleErrorResponse(req[c])
                           ELSE IF next = Empty THEN handled(got) ELSE got]
  BY Zenon DEF getPage
<1>2. PICK items \in SUBSET page :
          LET next == nextCursor(req[c].kind, items)
              got == [req[c] EXCEPT !.seen = @ \cup items, !.twice = @ \cup (req[c].seen \cap items),
                                    !.cut = items # page, !.cursor = next]
          IN  req' = [req EXCEPT ![c] =
                           IF req[c].kind # "apps" /\ items # {} /\ req[c].app \notin DOMAIN apps
                           THEN handleErrorResponse(req[c])
                           ELSE IF next = Empty THEN handled(got) ELSE got]
  BY <1>1, Zenon
<1>3. PICK got :
        got = [req[c] EXCEPT !.seen = @ \cup items, !.twice = @ \cup (req[c].seen \cap items),
                             !.cut = items # page, !.cursor = nextCursor(req[c].kind, items)]
  OBVIOUS
<1>4. req' = [req EXCEPT ![c] =
                IF req[c].kind # "apps" /\ items # {} /\ req[c].app \notin DOMAIN apps
                THEN handleErrorResponse(req[c])
                ELSE IF nextCursor(req[c].kind, items) = Empty THEN handled(got) ELSE got]
  BY <1>2, <1>3
<1>5. got = [req[c] EXCEPT !.seen = req[c].seen \cup items, !.twice = req[c].twice \cup (req[c].seen \cap items),
                           !.cut = items # page, !.cursor = nextCursor(req[c].kind, items)]
  BY <1>3
<1>6. Shows(c, req[c], page, items, got)
  BY <1>4, <1>5 DEF Shows
<1> QED BY <1>6

LEMMA CalmSteps ==
  ASSUME DsInv, NEW c \in Clients,
         \/ beforeListeners(c) \/ txFails(c) \/ getRow(c) \/ GetAppByID(c) \/ afterListeners(c)
         \/ getPage(c) \/ respond(c) \/ (txReads(c) /\ ~Finds(req[c])) \/ (queryFails(c) /\ ~errorDropped(req[c]))
  PROVE  DsInv'
<1>1. UNCHANGED migVars /\ tablesKept
  BY DEF beforeListeners, txFails, getRow, GetAppByID, afterListeners, getPage, respond, txReads, queryFails, Single
<1>2. conn' = conn \/ Alone(c)
  BY HasConnection DEF beforeListeners, txFails, getRow, GetAppByID, afterListeners, getPage, respond, txReads,
                       queryFails, Single
<1>3. \E r : Quiet(r) /\ req' = [req EXCEPT ![c] = r]
  <2>1. PICK r : r = req[c]
    OBVIOUS
  <2>2. Fields(r) \subseteq DOMAIN r /\ {"op", "step"} \subseteq DOMAIN r /\ (r.step # "idle" => Serving)
    BY <2>1 DEF DsInv, ReqSound, Fields
  <2>3. r.step # "idle" => Quiet(handleErrorResponse(r)) /\ Quiet(handled(r))
    BY <2>1, Responses
  <2>4. CASE beforeListeners(c) \/ txFails(c) \/ afterListeners(c) \/ GetAppByID(c) \/ (txReads(c) /\ ~Finds(r))
    BY <2>1, <2>3, <2>4 DEF beforeListeners, txFails, afterListeners, GetAppByID, txReads
  <2>8. CASE queryFails(c) /\ ~errorDropped(r)
    BY <2>1, <2>3, <2>8 DEF queryFails, errorDropped
  <2>5. CASE respond(c)
    <3>1. Quiet(Idle)
      BY DEF Quiet, Fields, Idle
    <3> QED BY <2>5, <3>1 DEF respond
  <2>6. CASE getRow(c)
    <3>1. r.step = "begin" /\ r.op \in {"GetFn", "GetTrigger"}
      BY <2>1, <2>6 DEF getRow, Single
    <3>2. PICK row : req' = [req EXCEPT ![c] = [r EXCEPT !.step = "app", !.body = row]]
                     \/ req' = [req EXCEPT ![c] = handleErrorResponse(r)]
      BY <2>1, <2>6 DEF getRow
    <3>3. PICK x : x = [r EXCEPT !.step = "app", !.body = row]
      OBVIOUS
    <3>4. DOMAIN x = DOMAIN r /\ x.op = r.op /\ x.step = "app"
      BY <2>2, <3>3
    <3>5. Quiet(x)
      BY <2>2, <3>1, <3>4 DEF Quiet, Fields
    <3> QED BY <2>3, <3>1, <3>2, <3>3, <3>5
  <2>7. CASE getPage(c)
    <3>1. r.step = "begin" /\ r.op = "List"
      BY <2>1, <2>7 DEF getPage, Single
    <3>6. PICK page, items, got : Shows(c, r, page, items, got)
      BY <2>1, <2>7, PageStep
    <3>7. got = [r EXCEPT !.seen = r.seen \cup items, !.twice = r.twice \cup (r.seen \cap items),
                          !.cut = items # page, !.cursor = nextCursor(r.kind, items)]
      BY <3>6 DEF Shows
    <3>2. \/ req' = [req EXCEPT ![c] = handleErrorResponse(r)]
          \/ req' = [req EXCEPT ![c] = handled(got)]
          \/ req' = [req EXCEPT ![c] = got]
      BY <3>6, <3>7 DEF Shows
    <3>3. DOMAIN got = DOMAIN r /\ got.op = "List" /\ got.step = "begin"
      BY <2>2, <3>1, <3>7
    <3>4. Quiet(got)
      BY <2>2, <3>1, <3>3 DEF Quiet, Fields
    <3>5. Quiet(handled(got))
      <4>1. PICK x : x = handled(got)
        OBVIOUS
      <4>2. DOMAIN x = DOMAIN r /\ x.op = "List" /\ x.step = "done"
        BY <2>2, <3>3, <4>1 DEF handled
      <4> QED BY <2>2, <3>1, <4>1, <4>2 DEF Quiet, Fields
    <3> QED BY <2>3, <3>1, <3>2, <3>4, <3>5
  <2> QED BY <2>1, <2>4, <2>5, <2>6, <2>7, <2>8
<1> QED BY <1>1, <1>2, <1>3, QuietMoves

(* The rows a transaction is about to write. *)
LEMMA MergedRows ==
  ASSUME DsInv, NEW c \in Clients, NEW r, r = req[c], r.step = "begin", Finds(r)
  PROVE  /\ r.op = "UpdateApp" => /\ r.id \in DOMAIN apps /\ Merged(r).name = apps[r.id].name
                                  /\ Merged(r).conf = MergeChange(apps[r.id].conf, r.body)
         /\ r.op = "InsertFn" => IsFn(Merged(r)) /\ Merged(r).app \in DOMAIN apps
         /\ r.op = "UpdateFn" => /\ IsFn(Merged(r)) /\ r.id \in issued
                                 /\ Merged(r).app = fns[r.id].app /\ Merged(r).name = fns[r.id].name
         /\ r.op = "InsertTrigger" => /\ IsTrigger(Merged(r))
                                      /\ Merged(r).app \in DOMAIN apps /\ Merged(r).fn \in DOMAIN fns
                                      /\ fns[Merged(r).fn].app = Merged(r).app
                                      /\ ~SourceTaken(Merged(r))
         /\ r.op = "UpdateTrigger" => IsTrigger(Merged(r))
<1>1. RowShapes /\ Begun(r)
  BY DEF DsInv, RowsSound, ReqSound
<1>2. ASSUME r.op = "UpdateApp"
      PROVE  /\ r.id \in DOMAIN apps /\ Merged(r).name = apps[r.id].name
             /\ Merged(r).conf = MergeChange(apps[r.id].conf, r.body)
  <2>1. r.id \in DOMAIN apps /\ Merged(r) = [apps[r.id] EXCEPT !.conf = MergeChange(apps[r.id].conf, r.body)]
    BY <1>2 DEF Finds, Merged, UpdateAppRow
  <2>2. IsApp(apps[r.id])
    BY <1>1, <2>1 DEF RowShapes
  <2>3. PICK x : x = apps[r.id]
    OBVIOUS
  <2>4. x = [name |-> x.name, conf |-> x.conf]
    BY <2>2, <2>3 DEF IsApp
  <2>5. Merged(r) = [x EXCEPT !.conf = MergeChange(x.conf, r.body)]
    BY <2>1, <2>3
  <2>6. Merged(r).name = x.name /\ Merged(r).conf = MergeChange(x.conf, r.body)
    BY <2>4, <2>5
  <2> QED BY <2>1, <2>3, <2>6
<1>3. ASSUME r.op = "InsertFn" PROVE IsFn(Merged(r)) /\ Merged(r).app \in DOMAIN apps
  <2>1. PICK x : x = r.body /\ x = [app |-> x.app, name |-> x.name, mem |-> x.mem]
    BY <1>1, <1>3 DEF Begun, IsFn
  <2>2. Merged(r) = SetDefaults(x)
    BY <1>3, <2>1 DEF Merged
  <2>3. Merged(r) = x \/ Merged(r) = [x EXCEPT !.mem = DefaultMemory]
    BY <2>2 DEF SetDefaults
  <2>4. x.app \in DOMAIN apps
    BY <1>3, <2>1 DEF Finds
  <2> QED BY <2>1, <2>3, <2>4 DEF IsFn
<1>4. ASSUME r.op = "UpdateFn"
      PROVE  /\ IsFn(Merged(r)) /\ r.id \in issued
             /\ Merged(r).app = fns[r.id].app /\ Merged(r).name = fns[r.id].name
  <2>1. r.id \in DOMAIN fns /\ Merged(r) = [fns[r.id] EXCEPT !.mem = Or(r.body.mem, fns[r.id].mem, 0)]
    BY <1>4 DEF Finds, Merged, UpdateFnRow
  <2>2. r.id \in issued /\ IsFn(fns[r.id])
    BY <1>1, <2>1 DEF RowShapes
  <2>3. PICK x, y : x = fns[r.id] /\ y = Or(r.body.mem, fns[r.id].mem, 0)
    OBVIOUS
  <2>4. x = [app |-> x.app, name |-> x.name, mem |-> x.mem]
    BY <2>2, <2>3 DEF IsFn
  <2>5. Merged(r) = [x EXCEPT !.mem = y]
    BY <2>1, <2>3
  <2>6. Merged(r) = [app |-> x.app, name |-> x.name, mem |-> y]
    BY <2>4, <2>5
  <2> QED BY <2>2, <2>3, <2>6 DEF IsFn
<1>5. ASSUME r.op = "InsertTrigger"
      PROVE  /\ IsTrigger(Merged(r))
             /\ Merged(r).app \in DOMAIN apps /\ Merged(r).fn \in DOMAIN fns
             /\ fns[Merged(r).fn].app = Merged(r).app
             /\ ~SourceTaken(Merged(r))
  <2>1. Merged(r) = r.body /\ IsTrigger(r.body)
    BY <1>1, <1>5 DEF Merged, Begun
  <2> QED BY <1>5, <2>1 DEF Finds
<1>6. ASSUME r.op = "UpdateTrigger" PROVE IsTrigger(Merged(r))
  <2>1. Merged(r) = UpdateTriggerRow(triggers[r.id], r.body)
    BY <1>6 DEF Merged
  <2> QED BY <2>1 DEF UpdateTriggerRow, IsTrigger
<1> QED BY <1>2, <1>3, <1>4, <1>5, <1>6

LEMMA ReadsSound ==
  ASSUME DsInv, NEW c \in Clients, txReads(c), Finds(req[c])
  PROVE  DsInv'
<1>1. PICK r : r = req[c]
  OBVIOUS
<1>2. /\ r.step = "begin" /\ r.op \in Transactions /\ Connected(c) /\ Beginx(c) /\ tablesKept /\ UNCHANGED migVars
      /\ req' = [req EXCEPT ![c].step = "write", ![c].body = [row |-> Merged(r), patch |-> r.body, checked |-> TRUE]]
  BY <1>1 DEF txReads
<1>3. PICK bd : bd = [row |-> Merged(r), patch |-> r.body, checked |-> TRUE]
  OBVIOUS
<1>4. PICK x : x = [r EXCEPT !.step = "write", !.body = bd]
  OBVIOUS
<1>5. req' = [req EXCEPT ![c] = x]
  BY <1>1, <1>2, <1>3, <1>4 DEF DsInv
<1>6. {"op", "step", "id", "body"} \subseteq DOMAIN r /\ Serving
  BY <1>1, <1>2 DEF DsInv, ReqSound, Fields, Transactions
<1>7. /\ DOMAIN x = DOMAIN r /\ x.op = r.op /\ x.id = r.id /\ x.step = "write" /\ x.body = bd
      /\ bd.row = Merged(r) /\ bd.patch = r.body
  BY <1>3, <1>4, <1>6
<1>8. req'[c] = x
  BY <1>5 DEF DsInv
<1>9. UNCHANGED <<apps, fns, triggers, issued, patched, unchecked, want>> /\ conf' = conf /\ Serving'
  BY <1>2, <1>6 DEF tablesKept, migVars, Serving
<1>10. Serial' <=> Serial
  BY <1>9 DEF Serial
<1>11. Serial => conn' = c
  BY <1>2 DEF Beginx, Serial
<1>13. Written(c)'
  <2>1. /\ r.op = "UpdateApp" => /\ r.id \in DOMAIN apps /\ bd.row.name = apps[r.id].name
                                 /\ bd.row.conf = MergeChange(apps[r.id].conf, bd.patch)
        /\ r.op = "InsertFn" => IsFn(bd.row) /\ bd.row.app \in DOMAIN apps
        /\ r.op = "UpdateFn" => /\ IsFn(bd.row) /\ r.id \in issued
                                /\ bd.row.app = fns[r.id].app /\ bd.row.name = fns[r.id].name
        /\ r.op = "InsertTrigger" => /\ IsTrigger(bd.row)
                                     /\ bd.row.app \in DOMAIN apps /\ bd.row.fn \in DOMAIN fns
                                     /\ fns[bd.row.fn].app = bd.row.app
                                     /\ ~SourceTaken(bd.row)
        /\ r.op = "UpdateTrigger" => IsTrigger(bd.row)
    BY <1>1, <1>2, <1>7, MergedRows
  <2>2. PICK row : row = bd.row
    OBVIOUS
  <2>3. ~SourceTaken(row) => ~SourceTaken(row)'
    BY <1>9 DEF SourceTaken
  <2> QED BY <1>7, <1>8, <1>9, <1>10, <1>11, <2>1, <2>2, <2>3 DEF Written, SourceTaken
<1>14. ReqSound(c)'
  <2>1. Fields(x) \subseteq DOMAIN x
    BY <1>6, <1>7 DEF Fields
  <2> QED BY <1>2, <1>7, <1>8, <1>9, <1>13, <2>1 DEF ReqSound
<1>15. RowsSound' /\ FnsKeep
  BY <1>9, RowsKept DEF DsInv, FnsKeep
<1>16. Alone(c)
  BY <1>2, HasConnection
<1> QED BY <1>2, <1>5, <1>9, <1>14, <1>15, <1>16, RequestMoves

(* What is left to show of a step that changes the tables. *)
(* What InsertFn and RemoveFn write after a failed read. *)
LEMMA BlindSound ==
  ASSUME DsInv, NEW c \in Clients, queryFails(c), errorDropped(req[c])
  PROVE  DsInv'
<1>1. PICK r : r = req[c]
  OBVIOUS
<1>2. /\ r.step = "begin" /\ r.op \in {"InsertFn", "RemoveFn"} /\ Connected(c) /\ Beginx(c) /\ tablesKept
      /\ UNCHANGED migVars
      /\ req' = [req EXCEPT ![c].step = "write", ![c].body = [row |-> Merged(r), patch |-> r.body, checked |-> FALSE]]
  BY <1>1 DEF queryFails, errorDropped
<1>3. PICK bd : bd = [row |-> Merged(r), patch |-> r.body, checked |-> FALSE]
  OBVIOUS
<1>4. PICK x : x = [r EXCEPT !.step = "write", !.body = bd]
  OBVIOUS
<1>5. req' = [req EXCEPT ![c] = x]
  BY <1>1, <1>2, <1>3, <1>4 DEF DsInv
<1>6. {"op", "step", "id", "body"} \subseteq DOMAIN r /\ Serving /\ Begun(r)
  BY <1>1, <1>2 DEF DsInv, ReqSound, Fields
<1>7. /\ DOMAIN x = DOMAIN r /\ x.op = r.op /\ x.id = r.id /\ x.step = "write" /\ x.body = bd
      /\ bd.row = Merged(r) /\ bd.checked = FALSE
  BY <1>3, <1>4, <1>6
<1>8. req'[c] = x
  BY <1>5 DEF DsInv
<1>9. UNCHANGED <<apps, fns, triggers, issued, patched, unchecked, want>> /\ conf' = conf /\ Serving'
  BY <1>2, <1>6 DEF tablesKept, migVars, Serving
<1>10. Serial' <=> Serial
  BY <1>9 DEF Serial
<1>11. Serial => conn' = c
  BY <1>2 DEF Beginx, Serial
<1>12. r.op = "InsertFn" => IsFn(Merged(r))
  <2>1. r.op = "InsertFn" => Merged(r) = SetDefaults(r.body) /\ IsFn(r.body)
    BY <1>6 DEF Merged, Begun
  <2> QED BY <2>1 DEF SetDefaults, IsFn
<1>13. Written(c)'
  BY <1>2, <1>7, <1>8, <1>9, <1>10, <1>11, <1>12 DEF Written, IsFn
<1>14. ReqSound(c)'
  <2>1. Fields(x) \subseteq DOMAIN x
    BY <1>6, <1>7 DEF Fields
  <2> QED BY <1>2, <1>7, <1>8, <1>9, <1>13, <2>1 DEF ReqSound, Transactions
<1>15. RowsSound' /\ FnsKeep
  BY <1>9, RowsKept DEF DsInv, FnsKeep
<1>16. Alone(c)
  BY <1>2, HasConnection
<1> QED BY <1>2, <1>5, <1>9, <1>14, <1>15, <1>16, RequestMoves

LEMMA TablesMove ==
  ASSUME DsInv, NEW c \in Clients, UNCHANGED migVars, Done(c), req[c].step # "idle",
         Connected(c) \/ req[c].step = "write",
         issued \subseteq issued', FnsKeep, RowsSound'
  PROVE  DsInv'
<1>1. PICK x : x = [req[c] EXCEPT !.step = "after"]
  OBVIOUS
<1>2. req' = [req EXCEPT ![c] = x]
  BY <1>1 DEF Done, DsInv
<1>3. Quiet(x)
  BY <1>1, Responses
<1>4. ReqSound(c)'
  BY <1>2, <1>3, QuietSound
<1>5. Alone(c)
  BY HasConnection
<1> QED BY <1>2, <1>4, <1>5, RequestMoves

LEMMA RefusedMove ==
  ASSUME DsInv, NEW c \in Clients, UNCHANGED migVars, req' = [req EXCEPT ![c] = handleErrorResponse(req[c])],
         req[c].step # "idle", Connected(c) \/ req[c].step = "write", tablesKept
  PROVE  DsInv'
<1>1. Quiet(handleErrorResponse(req[c]))
  BY Responses
<1>2. Alone(c)
  BY HasConnection
<1> QED BY <1>1, <1>2, QuietMoves

-----------------------------------------------------------------------------
(* The statements                                                            *)

LEMMA ConsistentKept ==
  ASSUME RowsSound, UNCHANGED <<fns, triggers, patched, unchecked, conf>>, DOMAIN apps \subseteq DOMAIN apps'
  PROVE  TablesConsistent'
BY DEF RowsSound, TablesConsistent, Serial, Unmoved, FnNamesKept

(* The name is unique, so the statement meets the row that was read. *)
LEMMA UpdateAppSound ==
  ASSUME DsInv, NEW c \in Clients, UpdateApp(c)
  PROVE  DsInv'
<1>1. PICK r, nm, cf : r = req[c] /\ nm = r.body.row.name /\ cf = r.body.row.conf
  OBVIOUS
<1>2. /\ r.step = "write" /\ r.op = "UpdateApp" /\ UNCHANGED migVars /\ Done(c)
      /\ UNCHANGED <<fns, triggers, issued, patched, unchecked>>
      /\ apps' = [a \in DOMAIN apps |-> IF apps[a].name = nm THEN [apps[a] EXCEPT !.conf = cf] ELSE apps[a]]
      /\ want' = [a \in DOMAIN want |-> IF a = r.id THEN MergeChange(want[a], r.body.patch) ELSE want[a]]
  BY <1>1 DEF UpdateApp, Writes
<1>3. conf' = conf /\ RowsSound /\ RowShapes /\ AppNamesUnique /\ PatchesSurvive /\ Written(c)
  BY <1>1, <1>2 DEF migVars, DsInv, RowsSound, ReqSound
<1>4. ASSUME NEW a \in DOMAIN apps
      PROVE  /\ IsApp(apps'[a]) /\ apps'[a].name = apps[a].name
             /\ apps'[a].conf = IF apps[a].name = nm THEN cf ELSE apps[a].conf
  <2>1. PICK x : x = apps[a] /\ x = [name |-> x.name, conf |-> x.conf]
    BY <1>3 DEF RowShapes, IsApp
  <2>2. apps'[a] = IF x.name = nm THEN [x EXCEPT !.conf = cf] ELSE x
    BY <1>2, <2>1
  <2>3. apps'[a] = [name |-> x.name, conf |-> IF x.name = nm THEN cf ELSE x.conf]
    BY <2>1, <2>2
  <2> QED BY <2>1, <2>3 DEF IsApp
<1>5. DOMAIN apps' = DOMAIN apps /\ DOMAIN want' = DOMAIN want
  BY <1>2
<1>6. RowShapes'
  BY <1>2, <1>3, <1>4, <1>5 DEF RowShapes, IsFn, IsTrigger, IsApp
<1>7. AppNamesUnique'
  BY <1>3, <1>4, <1>5 DEF AppNamesUnique
<1>8. TablesConsistent'
  BY <1>2, <1>3, <1>5, ConsistentKept
<1>9. PatchesSurvive'
  <2> SUFFICES ASSUME Serial, NEW a \in DOMAIN apps PROVE apps'[a].conf = want'[a]
    BY <1>3, <1>5 DEF PatchesSurvive, Serial
  <2>1. /\ r.id \in DOMAIN apps /\ nm = apps[r.id].name
        /\ cf = MergeChange(apps[r.id].conf, r.body.patch)
    BY <1>1, <1>2, <1>3 DEF Written
  <2>2. apps[a].conf = want[a] /\ a \in DOMAIN want
    BY <1>3 DEF PatchesSurvive, RowShapes
  <2>3. apps[a].name = nm <=> a = r.id
    BY <1>3, <2>1 DEF AppNamesUnique
  <2>4. want'[a] = IF a = r.id THEN MergeChange(want[a], r.body.patch) ELSE want[a]
    BY <1>2, <2>2
  <2> QED BY <1>4, <2>1, <2>2, <2>3, <2>4
<1>10. FnsKeep /\ RowsSound'
  BY <1>2, <1>6, <1>7, <1>8, <1>9 DEF FnsKeep, RowsSound
<1> QED BY <1>1, <1>2, <1>10, TablesMove

LEMMA InsertAppSound ==
  ASSUME MigInv, Transactional, DsInv, NEW c \in Clients, InsertApp(c)
  PROVE  DsInv'
<1>1. PICK row : row = req[c].body
  OBVIOUS
<1>2. /\ req[c].step = "begin" /\ req[c].op = "InsertApp" /\ Connected(c) /\ UNCHANGED migVars
      /\ UNCHANGED <<fns, triggers, patched, unchecked>>
  BY DEF InsertApp, Single
<1>3. /\ conf' = conf /\ RowsSound /\ RowShapes /\ AppNamesUnique /\ PatchesSurvive /\ IsApp(row)
      /\ Serving
  BY <1>1, <1>2 DEF migVars, DsInv, RowsSound, ReqSound, Begun
<1>4. CASE AppTaken(row)
  <2>1. tablesKept /\ req' = [req EXCEPT ![c] = handleErrorResponse(req[c])]
    BY <1>1, <1>2, <1>4 DEF InsertApp, tablesKept
  <2> QED BY <1>2, <2>1, RefusedMove
<1>5. CASE ~AppTaken(row)
  <2>1. PICK id \in AppIds \ issued : /\ apps' = Put(apps, id, row) /\ issued' = issued \cup {id}
                                      /\ want' = Put(want, id, row.conf) /\ Done(c)
    BY <1>1, <1>5 DEF InsertApp
  <2>2. \A a \in DOMAIN apps : apps[a].name # row.name
    BY <1>3, <1>5, ServingSchema DEF AppTaken
  <2>3. /\ id \notin DOMAIN apps /\ DOMAIN apps' = DOMAIN apps \cup {id} /\ apps'[id] = row
        /\ \A a \in DOMAIN apps : apps'[a] = apps[a]
    BY <1>3, <2>1 DEF RowShapes, Put
  <2>4. DOMAIN want' = DOMAIN want \cup {id} /\ want'[id] = row.conf /\ \A a \in DOMAIN apps : want'[a] = want[a]
    BY <1>3, <2>1, <2>3 DEF RowShapes, Put
  <2>5. RowShapes'
    BY <1>2, <1>3, <2>1, <2>3, <2>4 DEF RowShapes, IsApp, IsFn, IsTrigger
  <2>6. AppNamesUnique'
    BY <1>3, <2>2, <2>3 DEF AppNamesUnique
  <2>7. TablesConsistent'
    BY <1>2, <1>3, <2>3, ConsistentKept
  <2>8. PatchesSurvive'
    BY <1>3, <2>3, <2>4 DEF PatchesSurvive, Serial
  <2>9. FnsKeep /\ RowsSound' /\ issued \subseteq issued'
    BY <1>2, <2>1, <2>5, <2>6, <2>7, <2>8 DEF FnsKeep, RowsSound
  <2> QED BY <1>2, <2>1, <2>9, TablesMove
<1> QED BY <1>4, <1>5

(* Steps that leave the apps alone. *)
LEMMA AppsKept ==
  ASSUME RowsSound, UNCHANGED <<apps, want, conf>>
  PROVE  /\ AppNamesUnique' /\ PatchesSurvive'
         /\ issued \subseteq issued' => \A a \in DOMAIN apps' : IsApp(apps[a])' /\ (a \in issued)' /\ (a \in DOMAIN want)'
BY DEF RowsSound, RowShapes, AppNamesUnique, PatchesSurvive, Serial, IsApp

LEMMA InsertFnSound ==
  ASSUME MigInv, Transactional, DsInv, NEW c \in Clients, InsertFn(c)
  PROVE  DsInv'
<1>1. PICK row : row = req[c].body.row
  OBVIOUS
<1>2. /\ req[c].step = "write" /\ req[c].op = "InsertFn" /\ UNCHANGED migVars
      /\ UNCHANGED <<apps, triggers, patched, want>>
  BY DEF InsertFn, Writes
<1>3. /\ conf' = conf /\ RowsSound /\ RowShapes /\ IsFn(row) /\ (Serial /\ req[c].body.checked => row.app \in DOMAIN apps)
      /\ Serving
  BY <1>1, <1>2 DEF migVars, DsInv, RowsSound, ReqSound, Written
<1>4. CASE FnTaken(row)
  <2>1. tablesKept /\ req' = [req EXCEPT ![c] = handleErrorResponse(req[c])]
    BY <1>1, <1>2, <1>4 DEF InsertFn, tablesKept
  <2> QED BY <1>2, <2>1, RefusedMove
<1>5. CASE ~FnTaken(row)
  <2>1. PICK id \in FnIds \ issued :
          /\ fns' = Put(fns, id, row) /\ issued' = issued \cup {id} /\ Done(c)
          /\ unchecked' = IF req[c].body.checked THEN unchecked ELSE unchecked \cup {id}
    BY <1>1, <1>5 DEF InsertFn
  <2>2. FnNamesKept => \A f \in DOMAIN fns : fns[f].app = row.app => fns[f].name # row.name
    BY <1>3, <1>5, ServingSchema DEF FnTaken
  <2>3. /\ id \notin DOMAIN fns /\ DOMAIN fns' = DOMAIN fns \cup {id} /\ fns'[id] = row
        /\ \A f \in DOMAIN fns : fns'[f] = fns[f]
    BY <1>3, <2>1 DEF RowShapes, Put
  <2>4. AppNamesUnique' /\ PatchesSurvive'
    BY <1>2, <1>3, AppsKept
  <2>5. RowShapes'
    BY <1>2, <1>3, <2>1, <2>3 DEF RowShapes, IsApp, IsFn, IsTrigger
  <2>6. TablesConsistent'
    <3>1. /\ Serial => FnsHaveApps /\ TriggersHaveApps /\ TriggersHaveFns /\ SourcesUnique
          /\ FnNamesKept => FnNamesUnique
      BY <1>3, ConsistentParts DEF RowsSound
    <3>2. Serial => FnsHaveApps'
      BY <1>2, <1>3, <2>1, <2>3, <3>1 DEF FnsHaveApps
    <3>3. Serial => TriggersHaveApps' /\ SourcesUnique'
      BY <1>2, <3>1 DEF TriggersHaveApps, SourcesUnique, Unmoved
    <3>4. Serial => TriggersHaveFns'
      BY <1>2, <2>3, <3>1 DEF TriggersHaveFns, Unmoved
    <3>5. FnNamesKept => FnNamesUnique'
      BY <2>2, <2>3, <3>1 DEF FnNamesUnique
    <3>6. (Serial' <=> Serial) /\ (FnNamesKept' <=> FnNamesKept)
      BY <1>3 DEF Serial, FnNamesKept
    <3> QED BY <3>2, <3>3, <3>4, <3>5, <3>6, ConsistentPartsNext
  <2>7. FnsKeep
    BY <1>3, <2>1, <2>3 DEF FnsKeep
  <2>8. RowsSound' /\ issued \subseteq issued'
    BY <2>1, <2>4, <2>5, <2>6 DEF RowsSound
  <2> QED BY <1>2, <2>1, <2>7, <2>8, TablesMove
<1> QED BY <1>4, <1>5

LEMMA UpdateFnSound ==
  ASSUME DsInv, NEW c \in Clients, UpdateFn(c)
  PROVE  DsInv'
<1>1. PICK row, id : row = req[c].body.row /\ id = req[c].id
  OBVIOUS
<1>2. /\ req[c].step = "write" /\ req[c].op = "UpdateFn" /\ UNCHANGED migVars /\ Done(c)
      /\ UNCHANGED <<apps, triggers, issued, patched, unchecked, want>>
      /\ fns' = [f \in DOMAIN fns |-> IF f = id THEN row ELSE fns[f]]
  BY <1>1 DEF UpdateFn, Writes
<1>3. /\ conf' = conf /\ RowsSound /\ RowShapes /\ IsFn(row)
      /\ id \in DOMAIN fns => row.app = fns[id].app /\ row.name = fns[id].name
  BY <1>1, <1>2 DEF migVars, DsInv, RowsSound, ReqSound, Written
<1>4. DOMAIN fns' = DOMAIN fns /\ \A f \in DOMAIN fns : fns'[f].app = fns[f].app /\ fns'[f].name = fns[f].name
  BY <1>2, <1>3
<1>5. \A f \in DOMAIN fns' : IsFn(fns'[f])
  BY <1>2, <1>3 DEF RowShapes
<1>6. RowShapes'
  BY <1>2, <1>3, <1>4, <1>5 DEF RowShapes, IsApp, IsFn, IsTrigger
<1>7. TablesConsistent'
  <2>1. /\ Serial => FnsHaveApps /\ TriggersHaveApps /\ TriggersHaveFns /\ SourcesUnique
        /\ FnNamesKept => FnNamesUnique
    BY <1>3, ConsistentParts DEF RowsSound
  <2>2. Serial => FnsHaveApps' /\ TriggersHaveApps' /\ SourcesUnique'
    BY <1>2, <1>4, <2>1 DEF FnsHaveApps, TriggersHaveApps, SourcesUnique, Unmoved
  <2>3. Serial => TriggersHaveFns'
    BY <1>2, <1>4, <2>1 DEF TriggersHaveFns, Unmoved
  <2>4. FnNamesKept => FnNamesUnique'
    BY <1>4, <2>1 DEF FnNamesUnique
  <2>5. (Serial' <=> Serial) /\ (FnNamesKept' <=> FnNamesKept)
    BY <1>3 DEF Serial, FnNamesKept
  <2> QED BY <2>2, <2>3, <2>4, <2>5, ConsistentPartsNext
<1>8. FnsKeep /\ RowsSound'
  BY <1>2, <1>3, <1>4, <1>6, <1>7, AppsKept DEF FnsKeep, RowsSound
<1> QED BY <1>2, <1>8, TablesMove

(* Rows are deleted, and with every row those that refer to it. *)
LEMMA RowsDropped ==
  ASSUME RowsSound, UNCHANGED <<conf, want, patched, unchecked, issued>>,
         DOMAIN apps' \subseteq DOMAIN apps, \A a \in DOMAIN apps' : apps'[a] = apps[a],
         DOMAIN fns' \subseteq DOMAIN fns, \A f \in DOMAIN fns' : fns'[f] = fns[f],
         DOMAIN triggers' \subseteq DOMAIN triggers, \A t \in DOMAIN triggers' : triggers'[t] = triggers[t],
         \A f \in DOMAIN fns' : fns[f].app \in DOMAIN apps => fns[f].app \in DOMAIN apps',
         \A t \in DOMAIN triggers' : triggers[t].app \in DOMAIN apps => triggers[t].app \in DOMAIN apps',
         \A t \in DOMAIN triggers' :
            (triggers[t].fn \in DOMAIN fns /\ fns[triggers[t].fn].app = triggers[t].app) => triggers[t].fn \in DOMAIN fns'
  PROVE  RowsSound' /\ FnsKeep
<1>1. RowShapes /\ AppNamesUnique /\ PatchesSurvive
  BY DEF RowsSound
<1>2. RowShapes'
  BY <1>1 DEF RowShapes, IsApp, IsFn, IsTrigger
<1>3. AppNamesUnique' /\ PatchesSurvive'
  BY <1>1 DEF AppNamesUnique, PatchesSurvive, Serial
<1>4. TablesConsistent'
  <2>1. /\ Serial => FnsHaveApps /\ TriggersHaveApps /\ TriggersHaveFns /\ SourcesUnique
        /\ FnNamesKept => FnNamesUnique
    BY ConsistentParts DEF RowsSound
  <2>2. Serial => FnsHaveApps' /\ TriggersHaveApps'
    BY <2>1 DEF FnsHaveApps, TriggersHaveApps
  <2>3. Serial => SourcesUnique'
    BY <2>1 DEF SourcesUnique, Unmoved
  <2>4. Serial => TriggersHaveFns'
    BY <2>1 DEF TriggersHaveFns, Unmoved
  <2>5. FnNamesKept => FnNamesUnique'
    BY <2>1 DEF FnNamesUnique
  <2>6. (Serial' <=> Serial) /\ (FnNamesKept' <=> FnNamesKept)
    BY DEF Serial, FnNamesKept
  <2> QED BY <2>2, <2>3, <2>4, <2>5, <2>6, ConsistentPartsNext
<1>5. FnsKeep
  BY DEF FnsKeep
<1> QED BY <1>2, <1>3, <1>4, <1>5 DEF RowsSound

LEMMA RemoveFnSound ==
  ASSUME DsInv, NEW c \in Clients, RemoveFn(c)
  PROVE  DsInv'
<1>1. PICK id : id = req[c].id
  OBVIOUS
<1>2. /\ req[c].step = "write" /\ UNCHANGED migVars /\ Done(c) /\ UNCHANGED <<apps, issued, patched, unchecked, want>>
      /\ triggers' = Drop(triggers, {t \in DOMAIN triggers : triggers[t].fn = id}) /\ fns' = Drop(fns, {id})
  BY <1>1 DEF RemoveFn, Writes
<1>3. conf' = conf /\ RowsSound
  BY <1>2 DEF migVars, DsInv
<1>4. /\ DOMAIN fns' = DOMAIN fns \ {id} /\ \A f \in DOMAIN fns' : fns'[f] = fns[f]
      /\ DOMAIN triggers' = {t \in DOMAIN triggers : triggers[t].fn # id}
      /\ \A t \in DOMAIN triggers' : triggers'[t] = triggers[t]
  BY <1>2 DEF Drop
<1>5. RowsSound' /\ FnsKeep
  <2>1. DOMAIN apps' \subseteq DOMAIN apps /\ \A a \in DOMAIN apps' : apps'[a] = apps[a]
    BY <1>2
  <2> QED BY <1>2, <1>3, <1>4, <2>1, RowsDropped
<1> QED BY <1>2, <1>5, TablesMove

LEMMA RemoveAppSound ==
  ASSUME DsInv, NEW c \in Clients, RemoveApp(c)
  PROVE  DsInv'
<1>1. PICK id : id = req[c].id
  OBVIOUS
<1>2. /\ req[c].step = "begin" /\ Connected(c) /\ UNCHANGED migVars /\ UNCHANGED <<issued, patched, unchecked, want>>
      /\ conf' = conf /\ RowsSound
  BY DEF RemoveApp, Single, migVars, DsInv
<1>3. CASE id \in DOMAIN apps
  <2>1. /\ apps' = Drop(apps, {id}) /\ fns' = Drop(fns, {f \in DOMAIN fns : fns[f].app = id})
        /\ triggers' = Drop(triggers, {t \in DOMAIN triggers : triggers[t].app = id})
        /\ Done(c)
    BY <1>1, <1>3 DEF RemoveApp
  <2>2. /\ DOMAIN apps' = DOMAIN apps \ {id} /\ \A a \in DOMAIN apps' : apps'[a] = apps[a]
        /\ DOMAIN fns' = {f \in DOMAIN fns : fns[f].app # id} /\ \A f \in DOMAIN fns' : fns'[f] = fns[f]
        /\ DOMAIN triggers' = {t \in DOMAIN triggers : triggers[t].app # id}
        /\ \A t \in DOMAIN triggers' : triggers'[t] = triggers[t]
    BY <2>1 DEF Drop
  <2>3. RowsSound' /\ FnsKeep
    BY <1>2, <2>2, RowsDropped
  <2> QED BY <1>2, <2>1, <2>3, TablesMove
<1>4. CASE id \notin DOMAIN apps
  <2>1. tablesKept /\ req' = [req EXCEPT ![c] = handleErrorResponse(req[c])]
    BY <1>1, <1>2, <1>4 DEF RemoveApp, tablesKept
  <2> QED BY <1>2, <2>1, RefusedMove
<1> QED BY <1>3, <1>4

LEMMA RemoveTriggerSound ==
  ASSUME DsInv, NEW c \in Clients, RemoveTrigger(c)
  PROVE  DsInv'
<1>1. PICK id : id = req[c].id
  OBVIOUS
<1>2. /\ req[c].step = "begin" /\ Connected(c) /\ UNCHANGED migVars /\ UNCHANGED <<apps, fns, issued, patched, unchecked, want>>
      /\ conf' = conf /\ RowsSound
  BY DEF RemoveTrigger, Single, migVars, DsInv
<1>3. CASE id \in DOMAIN triggers
  <2>1. triggers' = Drop(triggers, {id}) /\ Done(c)
    BY <1>1, <1>3 DEF RemoveTrigger
  <2>2. DOMAIN triggers' = DOMAIN triggers \ {id} /\ \A t \in DOMAIN triggers' : triggers'[t] = triggers[t]
    BY <2>1 DEF Drop
  <2>3. /\ DOMAIN apps' \subseteq DOMAIN apps /\ \A a \in DOMAIN apps' : apps'[a] = apps[a]
        /\ DOMAIN fns' \subseteq DOMAIN fns /\ \A f \in DOMAIN fns' : fns'[f] = fns[f]
    BY <1>2
  <2>4. RowsSound' /\ FnsKeep
    BY <1>2, <2>2, <2>3, RowsDropped
  <2> QED BY <1>2, <2>1, <2>4, TablesMove
<1>4. CASE id \notin DOMAIN triggers
  <2>1. tablesKept /\ req' = [req EXCEPT ![c] = handleErrorResponse(req[c])]
    BY <1>1, <1>2, <1>4 DEF RemoveTrigger, tablesKept
  <2> QED BY <1>2, <2>1, RefusedMove
<1> QED BY <1>3, <1>4

LEMMA InsertTriggerSound ==
  ASSUME DsInv, NEW c \in Clients, InsertTrigger(c)
  PROVE  DsInv'
<1>1. PICK row : row = req[c].body.row
  OBVIOUS
<1>2. /\ req[c].step = "write" /\ req[c].op = "InsertTrigger" /\ UNCHANGED migVars
      /\ UNCHANGED <<apps, fns, patched, unchecked, want>>
  BY DEF InsertTrigger, Writes
<1>3. /\ conf' = conf /\ RowsSound /\ RowShapes /\ IsTrigger(row)
      /\ Serial => /\ row.app \in DOMAIN apps /\ row.fn \in DOMAIN fns
                   /\ fns[row.fn].app = row.app /\ ~SourceTaken(row)
  BY <1>1, <1>2 DEF migVars, DsInv, RowsSound, ReqSound, Written
<1>4. CASE TriggerTaken(row, None)
  <2>1. tablesKept /\ req' = [req EXCEPT ![c] = handleErrorResponse(req[c])]
    BY <1>1, <1>2, <1>4 DEF InsertTrigger, tablesKept
  <2> QED BY <1>2, <2>1, RefusedMove
<1>5. CASE ~TriggerTaken(row, None)
  <2>1. PICK id \in TriggerIds \ issued :
          triggers' = Put(triggers, id, row) /\ issued' = issued \cup {id} /\ Done(c)
    BY <1>1, <1>5 DEF InsertTrigger
  <2>2. Serial => \A t \in DOMAIN triggers : triggers[t].app = row.app => triggers[t].src # row.src
    BY <1>3 DEF SourceTaken
  <2>3. /\ id \notin DOMAIN triggers /\ DOMAIN triggers' = DOMAIN triggers \cup {id} /\ triggers'[id] = row
        /\ \A t \in DOMAIN triggers : triggers'[t] = triggers[t]
    BY <1>3, <2>1 DEF RowShapes, Put
  <2>4. AppNamesUnique' /\ PatchesSurvive'
    BY <1>2, <1>3, AppsKept
  <2>5. RowShapes'
    BY <1>2, <1>3, <2>1, <2>3 DEF RowShapes, IsApp, IsFn, IsTrigger
  <2>6. TablesConsistent'
    <3>1. /\ Serial => FnsHaveApps /\ TriggersHaveApps /\ TriggersHaveFns /\ SourcesUnique
          /\ FnNamesKept => FnNamesUnique
      BY <1>3, ConsistentParts DEF RowsSound
    <3>2. (Serial => FnsHaveApps') /\ (FnNamesKept => FnNamesUnique')
      BY <1>2, <3>1 DEF FnsHaveApps, FnNamesUnique
    <3>3. Serial => TriggersHaveApps'
      BY <1>2, <1>3, <2>3, <3>1 DEF TriggersHaveApps
    <3>4. Serial => TriggersHaveFns'
      BY <1>2, <1>3, <2>3, <3>1 DEF TriggersHaveFns, Unmoved
    <3>5. Serial => SourcesUnique'
      BY <1>2, <2>2, <2>3, <3>1 DEF SourcesUnique, Unmoved
    <3>6. (Serial' <=> Serial) /\ (FnNamesKept' <=> FnNamesKept)
      BY <1>3 DEF Serial, FnNamesKept
    <3> QED BY <3>2, <3>3, <3>4, <3>5, <3>6, ConsistentPartsNext
  <2>7. FnsKeep /\ RowsSound' /\ issued \subseteq issued'
    BY <1>2, <2>1, <2>4, <2>5, <2>6 DEF RowsSound, FnsKeep
  <2> QED BY <1>2, <2>1, <2>7, TablesMove
<1> QED BY <1>4, <1>5

LEMMA UpdateTriggerSound ==
  ASSUME DsInv, NEW c \in Clients, UpdateTrigger(c)
  PROVE  DsInv'
<1>1. PICK r, row : r = req[c] /\ row = r.body.row
  OBVIOUS
<1>2. /\ r.step = "write" /\ r.op = "UpdateTrigger" /\ UNCHANGED migVars /\ UNCHANGED <<apps, fns, issued, want, unchecked>>
  BY <1>1 DEF UpdateTrigger, Writes
<1>3. conf' = conf /\ RowsSound /\ RowShapes /\ IsTrigger(row)
  BY <1>1, <1>2 DEF migVars, DsInv, RowsSound, ReqSound, Written
<1>4. \/ /\ req' = [req EXCEPT ![c] = handleErrorResponse(r)] /\ UNCHANGED <<triggers, patched>>
      \/ /\ triggers' = [t \in DOMAIN triggers |-> IF t = r.id THEN [row EXCEPT !.app = triggers[t].app] ELSE triggers[t]]
         /\ patched' = patched \cup {r.id} /\ Done(c)
  BY <1>1 DEF UpdateTrigger
<1>5. CASE req' = [req EXCEPT ![c] = handleErrorResponse(r)] /\ UNCHANGED <<triggers, patched>>
  <2>1. tablesKept
    BY <1>2, <1>5 DEF tablesKept
  <2> QED BY <1>1, <1>2, <1>5, <2>1, RefusedMove
<1>6. CASE /\ triggers' = [t \in DOMAIN triggers |-> IF t = r.id THEN [row EXCEPT !.app = triggers[t].app] ELSE triggers[t]]
           /\ patched' = patched \cup {r.id} /\ Done(c)
  <2>1. DOMAIN triggers' = DOMAIN triggers /\ \A t \in DOMAIN triggers : t # r.id => triggers'[t] = triggers[t]
    BY <1>6
  <2>2. ASSUME NEW t \in DOMAIN triggers PROVE IsTrigger(triggers'[t]) /\ triggers'[t].app = triggers[t].app
    <3>1. CASE t # r.id
      BY <1>3, <2>1, <3>1 DEF RowShapes
    <3>2. CASE t = r.id
      <4>1. PICK y : y = triggers[t].app
        OBVIOUS
      <4>2. triggers'[t] = [row EXCEPT !.app = y]
        BY <1>6, <3>2, <4>1
      <4>3. triggers'[t] = [app |-> y, fn |-> row.fn, name |-> row.name, src |-> row.src]
        BY <1>3, <4>2 DEF IsTrigger
      <4> QED BY <4>1, <4>3 DEF IsTrigger
    <3> QED BY <3>1, <3>2
  <2>3. RowShapes'
    BY <1>2, <1>3, <2>1, <2>2 DEF RowShapes, IsApp, IsFn, IsTrigger
  <2>4. AppNamesUnique' /\ PatchesSurvive'
    BY <1>2, <1>3, AppsKept
  <2>5. TablesConsistent'
    <3>1. /\ Serial => FnsHaveApps /\ TriggersHaveApps /\ TriggersHaveFns /\ SourcesUnique
          /\ FnNamesKept => FnNamesUnique
      BY <1>3, ConsistentParts DEF RowsSound
    <3>2. (Serial => FnsHaveApps') /\ (FnNamesKept => FnNamesUnique')
      BY <1>2, <3>1 DEF FnsHaveApps, FnNamesUnique
    <3>3. Serial => TriggersHaveApps'
      BY <1>2, <2>1, <2>2, <3>1 DEF TriggersHaveApps
    <3>4. \A t : Unmoved(t)' => Unmoved(t) /\ t # r.id
      BY <1>6 DEF Unmoved
    <3>5. Serial => TriggersHaveFns'
      BY <1>2, <2>1, <3>1, <3>4 DEF TriggersHaveFns
    <3>6. Serial => SourcesUnique'
      BY <1>2, <2>1, <3>1, <3>4 DEF SourcesUnique
    <3>7. (Serial' <=> Serial) /\ (FnNamesKept' <=> FnNamesKept)
      BY <1>3 DEF Serial, FnNamesKept
    <3> QED BY <3>2, <3>3, <3>5, <3>6, <3>7, ConsistentPartsNext
  <2>6. FnsKeep /\ RowsSound'
    BY <1>2, <2>3, <2>4, <2>5 DEF RowsSound, FnsKeep
  <2> QED BY <1>1, <1>2, <1>6, <2>6, TablesMove
<1> QED BY <1>4, <1>5, <1>6

LEMMA DsInvNext == Inv /\ [Next]_vars => Inv'
<1> SUFFICES ASSUME Inv, [Next]_vars PROVE Inv'
  OBVIOUS
<1>1. MigInv /\ MigInv'
  BY MigInvNext DEF Inv
<1>2. conf' = conf
  <2>1. MigNext \/ UNCHANGED migVars
    BY StepOfMigrations
  <2>2. MigNext => conf' = conf
    BY <1>1, MigTypesNext DEF MigNext, Frame
  <2> QED BY <2>1, <2>2 DEF migVars
<1>3. (Transactional' <=> Transactional)
  BY <1>2 DEF Transactional
<1>4. ASSUME Transactional, DsInv PROVE DsInv'
  <2>1. CASE MigNext /\ UNCHANGED dsVars
    BY <1>1, <1>4, <2>1, MigKeepsDs
  <2>2. CASE UNCHANGED vars
    BY <1>1, <1>4, <2>2, MigKeepsDs DEF vars
  <2>3. ASSUME NEW c \in Clients, Accept(c) PROVE DsInv'
    BY <1>4, <2>3, AcceptSound
  <2>4. ASSUME NEW c \in Clients, Handle(c) PROVE DsInv'
    <3>1. txReads(c) => DsInv'
      BY <1>4, ReadsSound, CalmSteps
    <3>2. queryFails(c) => DsInv'
      BY <1>4, BlindSound, CalmSteps
    <3> QED BY <1>1, <1>4, <2>4, <3>1, <3>2, CalmSteps, UpdateAppSound, InsertFnSound, UpdateFnSound, RemoveFnSound,
               InsertTriggerSound, UpdateTriggerSound, InsertAppSound, RemoveAppSound, RemoveTriggerSound DEF Handle
  <2> QED BY <2>1, <2>2, <2>3, <2>4 DEF Next
<1> QED BY <1>1, <1>3, <1>4 DEF Inv

LEMMA InvAlways == Spec => []Inv
<1>1. Init => Inv
  BY MigInvInit, DsInvInit DEF Init, Inv
<1> QED BY <1>1, DsInvNext, PTL DEF Spec

(* On sqlite3 no patch of an app's config is lost and none is applied twice, *)
(* for any number of clients: every update reads the whole row, merges and   *)
(* writes it back by name, and that is safe because its transaction holds    *)
(* the only connection and the names are unique (sql.go UpdateApp, Tx).      *)
THEOREM PatchesAlwaysSurvive == Spec => []PatchesSurvive
<1>1. Inv => PatchesSurvive
  BY DEF Inv, DsInv, RowsSound, PatchesSurvive, Transactional, Serial
<1> QED BY <1>1, InvAlways, PTL

(* The tables always agree: on sqlite3 every function and every trigger has  *)
(* what it refers to and unmoved triggers of an app have different sources,  *)
(* whatever is inserted, changed and deleted at the same time; on PostgreSQL *)
(* too two functions of an app have different names unless migration 22 has  *)
(* removed the constraint (sql.go InsertFn, InsertTrigger, RemoveApp,        *)
(* RemoveFn).                                                                *)
THEOREM TablesAlwaysConsistent == Spec => [](Transactional => TablesConsistent)
<1>1. Inv => (Transactional => TablesConsistent)
  BY DEF Inv, DsInv, RowsSound
<1> QED BY <1>1, InvAlways, PTL

-----------------------------------------------------------------------------
(* Listings                                                                  *)

(* Rows have ids and names of their kind, and so will those to be written. *)
Typed ==
  /\ \A a \in DOMAIN apps : a \in AppIds /\ apps[a].name \in Names
  /\ \A f \in DOMAIN fns : f \in FnIds /\ fns[f].name \in Names
  /\ \A t \in DOMAIN triggers : t \in TriggerIds /\ triggers[t].name \in Names
Named(c) ==
  LET r == req[c] IN
  /\ r.step = "begin" => /\ r.op \in {"InsertApp", "InsertFn", "InsertTrigger"} => r.body.name \in Names
                         /\ r.op = "UpdateTrigger" => r.body.name \in Names \cup {Empty}
  /\ r.step = "write" /\ r.op \in {"InsertFn", "UpdateFn", "InsertTrigger", "UpdateTrigger"} => r.body.row.name \in Names

(* The rows a listing has to show: there from the start, and not moved. *)
Lasting(c) == (req[c].start \cap DOMAIN Table(req[c].kind)) \ patched
Skipped(c, i) ==
  /\ req[c].kind = "triggers"
  /\ \E j \in req[c].seen : \/ j \in patched \cup (TriggerIds \ DOMAIN triggers)
                            \/ triggers[j].name = triggers[i].name

(* What the pages so far have shown is what comes before the cursor. *)
Shown(c) ==
  LET r == req[c] IN
  \A i \in Lasting(c) :
    /\ i \notin r.twice
    /\ r.kind # "apps" => Table(r.kind)[i].app = r.app
    /\ r.step = "begin" => /\ i \in r.seen => Table(r.kind)[i].name <= r.cursor
                           /\ Table(r.kind)[i].name <= r.cursor => i \in r.seen \/ Skipped(c, i)
    /\ r.told = "ok" => r.cut \/ i \in r.seen \/ Skipped(c, i)

Listing(c) ==
  LET r == req[c] IN
  /\ {"kind", "app", "cursor", "start", "seen", "twice", "cut", "told"} \subseteq DOMAIN r
  /\ r.kind \in Kinds /\ r.cursor \in Nat /\ r.start \subseteq issued /\ r.seen \subseteq issued
  /\ r.kind = "triggers" => r.seen \subseteq TriggerIds
  /\ r.step \in {"begin", "done"} /\ (r.step = "begin" => r.told = None)
Listed(c) == req[c].op = "List" => Listing(c) /\ ((req[c].kind = "fns" => FnNamesKept) => Shown(c))

ListInv == Typed /\ \A c \in Clients : Named(c) /\ Listed(c)

(* A row keeps its name, and its app; its id is not used again. *)
RowsKeep ==
  /\ issued \subseteq issued' /\ patched \subseteq patched' /\ FnsKeep
  /\ \A a \in issued : a \in DOMAIN apps' => a \in DOMAIN apps /\ apps'[a].name = apps[a].name
  /\ \A t \in issued : t \in DOMAIN triggers' =>
       /\ t \in DOMAIN triggers
       /\ t \notin patched' => triggers'[t].name = triggers[t].name /\ triggers'[t].app = triggers[t].app

LEMMA TablesKeep ==
  ASSUME RowsKeep, NEW k \in Kinds, NEW i \in issued, i \in DOMAIN Table(k)', i \notin patched'
  PROVE  /\ i \in DOMAIN Table(k) /\ Table(k)'[i].name = Table(k)[i].name
         /\ k # "apps" => Table(k)'[i].app = Table(k)[i].app
BY DEF RowsKeep, FnsKeep, Kinds, Table

(* Other requests do not spoil a listing. *)
LEMMA ListedStays ==
  ASSUME RowsKeep, conf' = conf, NEW c \in Clients, req'[c] = req[c], Listed(c)
  PROVE  Listed(c)'
<1> SUFFICES ASSUME req[c].op = "List" PROVE Listed(c)'
  BY DEF Listed
<1>1. PICK r : r = req[c] /\ r = req'[c] /\ r.op = "List"
  OBVIOUS
<1>2. Listing(c) /\ r.kind \in Kinds /\ r.start \subseteq issued /\ r.seen \subseteq issued
      /\ (r.kind = "triggers" => r.seen \subseteq TriggerIds)
  BY <1>1 DEF Listed, Listing
<1>3. Listing(c)'
  BY <1>1, <1>2 DEF Listing, RowsKeep
<1>4. FnNamesKept' <=> FnNamesKept
  BY DEF FnNamesKept
<1>5. ASSUME Shown(c) PROVE Shown(c)'
  <2>1. ASSUME NEW i \in Lasting(c)'
        PROVE  /\ i \in Lasting(c) /\ Table(r.kind)'[i].name = Table(r.kind)[i].name
               /\ r.kind # "apps" => Table(r.kind)'[i].app = Table(r.kind)[i].app
               /\ Skipped(c, i) => Skipped(c, i)'
    <3>1. i \in r.start /\ i \in DOMAIN Table(r.kind)' /\ i \notin patched' /\ i \in issued
      BY <1>1, <1>2, <2>1 DEF Lasting
    <3>2. /\ i \in DOMAIN Table(r.kind) /\ Table(r.kind)'[i].name = Table(r.kind)[i].name
          /\ r.kind # "apps" => Table(r.kind)'[i].app = Table(r.kind)[i].app
      BY <1>2, <3>1, TablesKeep
    <3>3. i \in Lasting(c)
      BY <1>1, <3>1, <3>2 DEF Lasting, RowsKeep
    <3>4. ASSUME Skipped(c, i) PROVE Skipped(c, i)'
      <4>1. PICK j \in r.seen : j \in patched \cup (TriggerIds \ DOMAIN triggers) \/ triggers[j].name = triggers[i].name
        BY <1>1, <3>4 DEF Skipped
      <4>2. r.kind = "triggers" /\ j \in issued /\ j \in TriggerIds /\ triggers'[i].name = triggers[i].name
        BY <1>1, <1>2, <3>2, <3>4 DEF Skipped, Table
      <4>3. j \in patched' \cup (TriggerIds \ DOMAIN triggers') \/ triggers'[j].name = triggers'[i].name
        BY <4>1, <4>2 DEF RowsKeep
      <4> QED BY <1>1, <4>2, <4>3 DEF Skipped
    <3> QED BY <3>2, <3>3, <3>4
  <2> QED BY <1>1, <1>5, <2>1 DEF Shown
<1> QED BY <1>1, <1>2, <1>3, <1>4, <1>5 DEF Listed

LEMMA StillRows ==
  ASSUME DsInv, UNCHANGED <<apps, fns, triggers, issued, patched>>
  PROVE  RowsKeep
BY DEF RowsKeep, FnsKeep

LEMMA StatementRows ==
  ASSUME DsInv, ListInv, NEW c \in Clients, Handle(c)
  PROVE  RowsKeep /\ Typed'
<1>1. /\ RowShapes /\ ReqSound(c) /\ Named(c) /\ Typed
      /\ req[c].step = "write" => Written(c)
      /\ req[c].step = "begin" => Begun(req[c])
  BY DEF DsInv, RowsSound, ReqSound, ListInv
<1>2. ASSUME UNCHANGED <<apps, fns, triggers, issued, patched>> PROVE RowsKeep /\ Typed'
  BY <1>1, <1>2, StillRows DEF Typed
<1>3. CASE \/ beforeListeners(c) \/ txReads(c) \/ queryFails(c) \/ txFails(c) \/ getRow(c) \/ GetAppByID(c)
           \/ afterListeners(c) \/ getPage(c) \/ respond(c)
  <2>1. tablesKept
    BY <1>3 DEF beforeListeners, txReads, queryFails, txFails, getRow, GetAppByID, afterListeners, getPage, respond
  <2> QED BY <1>2, <2>1 DEF tablesKept
<1>4. CASE UpdateApp(c)
  <2>1. PICK nm, cf : /\ apps' = [a \in DOMAIN apps |-> IF apps[a].name = nm THEN [apps[a] EXCEPT !.conf = cf] ELSE apps[a]]
                      /\ UNCHANGED <<fns, triggers, issued, patched>>
    BY <1>4 DEF UpdateApp
  <2>2. ASSUME NEW a \in DOMAIN apps PROVE apps'[a].name = apps[a].name
    <3>1. PICK x : x = apps[a] /\ x = [name |-> x.name, conf |-> x.conf]
      BY <1>1 DEF RowShapes, IsApp
    <3>2. apps'[a] = IF x.name = nm THEN [x EXCEPT !.conf = cf] ELSE x
      BY <2>1, <3>1
    <3> QED BY <3>1, <3>2
  <2>3. DOMAIN apps' = DOMAIN apps
    BY <2>1
  <2> QED BY <1>1, <2>1, <2>2, <2>3 DEF RowsKeep, FnsKeep, Typed
<1>5. CASE InsertApp(c)
  <2>1. req[c].step = "begin" /\ req[c].op = "InsertApp" /\ UNCHANGED <<fns, triggers, patched>>
    BY <1>5 DEF InsertApp, Single
  <2>2. PICK row : row = req[c].body /\ row.name \in Names
    BY <1>1, <2>1 DEF Named
  <2>3. \/ UNCHANGED <<apps, issued>>
        \/ \E id \in AppIds \ issued : apps' = Put(apps, id, row) /\ issued' = issued \cup {id}
    BY <1>5, <2>2 DEF InsertApp
  <2>4. ASSUME NEW id \in AppIds \ issued, apps' = Put(apps, id, row), issued' = issued \cup {id}
        PROVE  RowsKeep /\ Typed'
    <3>1. DOMAIN apps' = DOMAIN apps \cup {id} /\ apps'[id] = row /\ \A a \in issued \cap DOMAIN apps : apps'[a] = apps[a]
      BY <2>4 DEF Put
    <3> QED BY <1>1, <2>1, <2>2, <2>4, <3>1 DEF RowsKeep, FnsKeep, Typed, RowShapes
  <2> QED BY <1>2, <2>1, <2>3, <2>4
<1>6. CASE InsertFn(c)
  <2>1. req[c].step = "write" /\ req[c].op = "InsertFn" /\ UNCHANGED <<apps, triggers, patched>>
    BY <1>6 DEF InsertFn, Writes
  <2>2. PICK row : row = req[c].body.row /\ row.name \in Names
    BY <1>1, <2>1 DEF Named
  <2>3. \/ UNCHANGED <<fns, issued>>
        \/ \E id \in FnIds \ issued : fns' = Put(fns, id, row) /\ issued' = issued \cup {id}
    BY <1>6, <2>2 DEF InsertFn
  <2>4. ASSUME NEW id \in FnIds \ issued, fns' = Put(fns, id, row), issued' = issued \cup {id}
        PROVE  RowsKeep /\ Typed'
    <3>1. DOMAIN fns' = DOMAIN fns \cup {id} /\ fns'[id] = row /\ \A f \in issued \cap DOMAIN fns : fns'[f] = fns[f]
      BY <2>4 DEF Put
    <3> QED BY <1>1, <2>1, <2>2, <2>4, <3>1 DEF RowsKeep, FnsKeep, Typed, RowShapes
  <2> QED BY <1>2, <2>1, <2>3, <2>4
<1>7. CASE InsertTrigger(c)
  <2>1. req[c].step = "write" /\ req[c].op = "InsertTrigger" /\ UNCHANGED <<apps, fns, patched>>
    BY <1>7 DEF InsertTrigger, Writes
  <2>2. PICK row : row = req[c].body.row /\ row.name \in Names
    BY <1>1, <2>1 DEF Named
  <2>3. \/ UNCHANGED <<triggers, issued>>
        \/ \E id \in TriggerIds \ issued : triggers' = Put(triggers, id, row) /\ issued' = issued \cup {id}
    BY <1>7, <2>2 DEF InsertTrigger
  <2>4. ASSUME NEW id \in TriggerIds \ issued, triggers' = Put(triggers, id, row), issued' = issued \cup {id}
        PROVE  RowsKeep /\ Typed'
    <3>1. /\ DOMAIN triggers' = DOMAIN triggers \cup {id} /\ triggers'[id] = row
          /\ \A t \in issued \cap DOMAIN triggers : triggers'[t] = triggers[t]
      BY <2>4 DEF Put
    <3> QED BY <1>1, <2>1, <2>2, <2>4, <3>1 DEF RowsKeep, FnsKeep, Typed, RowShapes
  <2> QED BY <1>2, <2>1, <2>3, <2>4
<1>8. CASE UpdateFn(c)
  <2>1. PICK row, id : row = req[c].body.row /\ id = req[c].id
    OBVIOUS
  <2>2. /\ req[c].step = "write" /\ req[c].op = "UpdateFn" /\ UNCHANGED <<apps, triggers, issued, patched>>
        /\ fns' = [f \in DOMAIN fns |-> IF f = id THEN row ELSE fns[f]]
    BY <1>8, <2>1 DEF UpdateFn, Writes
  <2>3. row.name \in Names /\ (id \in DOMAIN fns => row.app = fns[id].app /\ row.name = fns[id].name)
    BY <1>1, <2>1, <2>2 DEF Named, Written
  <2>4. DOMAIN fns' = DOMAIN fns /\ \A f \in DOMAIN fns : fns'[f].app = fns[f].app /\ fns'[f].name = fns[f].name
    BY <2>2, <2>3
  <2> QED BY <1>1, <2>2, <2>4 DEF RowsKeep, FnsKeep, Typed
<1>9. CASE UpdateTrigger(c)
  <2>1. PICK r, row : r = req[c] /\ row = r.body.row
    OBVIOUS
  <2>2. r.step = "write" /\ r.op = "UpdateTrigger" /\ UNCHANGED <<apps, fns, issued>>
    BY <1>9, <2>1 DEF UpdateTrigger, Writes
  <2>3. row.name \in Names /\ row = [app |-> row.app, fn |-> row.fn, name |-> row.name, src |-> row.src]
    BY <1>1, <2>1, <2>2 DEF Named, Written, IsTrigger
  <2>4. \/ UNCHANGED <<triggers, patched>>
        \/ /\ triggers' = [t \in DOMAIN triggers |-> IF t = r.id THEN [row EXCEPT !.app = triggers[t].app] ELSE triggers[t]]
           /\ patched' = patched \cup {r.id}
    BY <1>9, <2>1 DEF UpdateTrigger
  <2>5. CASE /\ triggers' = [t \in DOMAIN triggers |-> IF t = r.id THEN [row EXCEPT !.app = triggers[t].app] ELSE triggers[t]]
             /\ patched' = patched \cup {r.id}
    <3>1. DOMAIN triggers' = DOMAIN triggers /\ \A t \in DOMAIN triggers : t # r.id => triggers'[t] = triggers[t]
      BY <2>5
    <3>2. \A t \in DOMAIN triggers : triggers'[t].name \in Names
      <4>1. ASSUME NEW t \in DOMAIN triggers, t = r.id PROVE triggers'[t].name = row.name
        <5>1. PICK y : y = triggers[t].app
          OBVIOUS
        <5>2. triggers'[t] = [row EXCEPT !.app = y]
          BY <2>5, <4>1, <5>1
        <5> QED BY <2>3, <5>2
      <4> QED BY <1>1, <2>3, <3>1, <4>1 DEF Typed
    <3> QED BY <1>1, <2>2, <2>5, <3>1, <3>2 DEF RowsKeep, FnsKeep, Typed
  <2> QED BY <1>2, <2>2, <2>4, <2>5
<1>10. CASE RemoveFn(c) \/ RemoveApp(c) \/ RemoveTrigger(c)
  <2>1. UNCHANGED <<issued, patched>>
    BY <1>10 DEF RemoveFn, RemoveApp, RemoveTrigger
  <2>2. /\ DOMAIN apps' \subseteq DOMAIN apps /\ \A a \in DOMAIN apps' : apps'[a] = apps[a]
        /\ DOMAIN fns' \subseteq DOMAIN fns /\ \A f \in DOMAIN fns' : fns'[f] = fns[f]
        /\ DOMAIN triggers' \subseteq DOMAIN triggers /\ \A t \in DOMAIN triggers' : triggers'[t] = triggers[t]
    BY <1>10 DEF RemoveFn, RemoveApp, RemoveTrigger, Drop
  <2> QED BY <1>1, <2>1, <2>2 DEF RowsKeep, FnsKeep, Typed
<1> QED BY <1>3, <1>4, <1>5, <1>6, <1>7, <1>8, <1>9, <1>10 DEF Handle

(* Every step but the reads of a transaction and a page lets a request wait  *)
(* for its end.                                                             *)
LEMMA StepEnds ==
  ASSUME DsInv, ListInv, NEW c \in Clients, Handle(c), ~getPage(c), ~(txReads(c) /\ Finds(req[c])),
         ~(queryFails(c) /\ (errorDropped(req[c]) \/ req[c].op = "List"))
  PROVE  /\ req'[c].step \notin {"begin", "write"} /\ req'[c].op # "List"
         /\ \A d \in Clients \ {c} : req'[d] = req[d]
<1>1. PICK r : r = req[c]
  OBVIOUS
<1>2. /\ {"op", "step"} \subseteq DOMAIN r /\ (r.step = "write" => r.op \in Transactions)
      /\ (r.op = "List" => r.step \in {"begin", "done"}) /\ DOMAIN req = Clients
  BY <1>1 DEF DsInv, ReqSound, Fields, ListInv, Listed, Listing
<1>3. ASSUME NEW x, req' = [req EXCEPT ![c] = x] PROVE req'[c] = x /\ \A d \in Clients \ {c} : req'[d] = req[d]
  BY <1>2, <1>3
<1>4. respond(c) \/ (r.op # "List" /\ r.step # "done")
  BY <1>1, <1>2 DEF Handle, beforeListeners, txReads, queryFails, txFails, UpdateApp, InsertFn, UpdateFn, RemoveFn, InsertTrigger,
     UpdateTrigger, InsertApp, RemoveApp, RemoveTrigger, getRow, GetAppByID, afterListeners, respond, Writes, Single,
     Transactions
<1>5. CASE respond(c)
  BY <1>3, <1>5 DEF respond, Idle
<1>6. CASE ~respond(c)
  <2>1. PICK e, h, d1 : e = handleErrorResponse(r) /\ h = handled(r) /\ d1 = [r EXCEPT !.step = "after"]
    OBVIOUS
  <2>2. e.op = r.op /\ e.step = "done" /\ h.op = r.op /\ h.step = "done" /\ d1.op = r.op /\ d1.step = "after"
    BY <1>2, <2>1 DEF handleErrorResponse, handled
  <2>3. Done(c) => req' = [req EXCEPT ![c] = d1]
    BY <1>1, <1>2, <2>1 DEF Done
  <2>4. CASE getRow(c)
    <3>1. PICK row : req' = [req EXCEPT ![c] = [r EXCEPT !.step = "app", !.body = row]]
                     \/ req' = [req EXCEPT ![c] = e]
      BY <1>1, <2>1, <2>4 DEF getRow
    <3>2. PICK x : x = [r EXCEPT !.step = "app", !.body = row]
      OBVIOUS
    <3>3. x.op = r.op /\ x.step = "app"
      BY <1>2, <3>2
    <3>4. req' = [req EXCEPT ![c] = x] \/ req' = [req EXCEPT ![c] = e]
      BY <3>1, <3>2
    <3>5. CASE req' = [req EXCEPT ![c] = x]
      BY <1>3, <1>4, <1>6, <3>3, <3>5
    <3>6. CASE req' = [req EXCEPT ![c] = e]
      BY <1>3, <1>4, <1>6, <2>2, <3>6
    <3> QED BY <3>4, <3>5, <3>6
  <2>5. CASE ~getRow(c)
    <3>1. req' = [req EXCEPT ![c] = e] \/ req' = [req EXCEPT ![c] = h] \/ Done(c)
      BY <1>1, <1>6, <2>1, <2>5 DEF Handle, beforeListeners, txReads, queryFails, txFails, UpdateApp, InsertFn, UpdateFn, RemoveFn,
         InsertTrigger, UpdateTrigger, InsertApp, RemoveApp, RemoveTrigger, GetAppByID, afterListeners
    <3> QED BY <1>3, <1>4, <1>6, <2>2, <2>3, <3>1
  <2> QED BY <2>4, <2>5
<1> QED BY <1>5, <1>6

LEMMA ReadsNamed ==
  ASSUME DsInv, ListInv, NEW c \in Clients, txReads(c), Finds(req[c])
  PROVE  /\ Named(c)' /\ req'[c].op # "List"
         /\ \A d \in Clients \ {c} : req'[d] = req[d]
<1>1. PICK r : r = req[c]
  OBVIOUS
<1>2. /\ r.step = "begin" /\ r.op \in Transactions
      /\ req' = [req EXCEPT ![c].step = "write", ![c].body = [row |-> Merged(r), patch |-> r.body, checked |-> TRUE]]
  BY <1>1 DEF txReads
<1>3. PICK bd : bd = [row |-> Merged(r), patch |-> r.body, checked |-> TRUE]
  OBVIOUS
<1>4. PICK x : x = [r EXCEPT !.step = "write", !.body = bd]
  OBVIOUS
<1>5. /\ {"op", "step", "id", "body"} \subseteq DOMAIN r /\ DOMAIN req = Clients /\ RowShapes /\ Typed /\ Named(c)
      /\ Begun(r)
  BY <1>1, <1>2 DEF DsInv, RowsSound, ReqSound, Fields, Transactions, ListInv
<1>6. req'[c] = x /\ \A d \in Clients \ {c} : req'[d] = req[d]
  BY <1>1, <1>2, <1>3, <1>4, <1>5
<1>7. x.op = r.op /\ x.step = "write" /\ x.body.row = Merged(r) /\ r.op # "List"
  BY <1>2, <1>3, <1>4, <1>5 DEF Transactions
<1>8. r.op = "InsertFn" => Merged(r).name \in Names
  <2> SUFFICES ASSUME r.op = "InsertFn" PROVE Merged(r).name \in Names
    OBVIOUS
  <2>1. PICK y : y = r.body /\ y = [app |-> y.app, name |-> y.name, mem |-> y.mem] /\ y.name \in Names
    BY <1>1, <1>2, <1>5 DEF Begun, IsFn, Named
  <2>2. Merged(r) = y \/ Merged(r) = [y EXCEPT !.mem = DefaultMemory]
    BY <2>1 DEF Merged, SetDefaults
  <2> QED BY <2>1, <2>2
<1>9. r.op = "UpdateFn" => Merged(r).name \in Names
  <2> SUFFICES ASSUME r.op = "UpdateFn" PROVE Merged(r).name \in Names
    OBVIOUS
  <2>1. r.id \in DOMAIN fns
    BY <1>1 DEF Finds
  <2>2. Merged(r).name = fns[r.id].name
    BY <1>1, <1>2, MergedRows
  <2> QED BY <1>5, <2>1, <2>2 DEF Typed
<1>10. r.op = "InsertTrigger" => Merged(r).name \in Names
  BY <1>1, <1>2, <1>5 DEF Merged, Named
<1>11. r.op = "UpdateTrigger" => Merged(r).name \in Names
  <2> SUFFICES ASSUME r.op = "UpdateTrigger" PROVE Merged(r).name \in Names
    OBVIOUS
  <2>1. r.id \in DOMAIN triggers /\ r.body.name \in Names \cup {Empty}
    BY <1>1, <1>2, <1>5 DEF Finds, Named
  <2>2. Merged(r).name = Or(r.body.name, triggers[r.id].name, Empty)
    BY DEF Merged, UpdateTriggerRow
  <2> QED BY <1>5, <2>1, <2>2 DEF Typed, Or
<1> QED BY <1>6, <1>7, <1>8, <1>9, <1>10, <1>11 DEF Named

LEMMA BlindNamed ==
  ASSUME DsInv, ListInv, NEW c \in Clients, queryFails(c), errorDropped(req[c])
  PROVE  /\ Named(c)' /\ req'[c].op # "List"
         /\ \A d \in Clients \ {c} : req'[d] = req[d]
<1>1. PICK r : r = req[c]
  OBVIOUS
<1>2. /\ r.step = "begin" /\ r.op \in {"InsertFn", "RemoveFn"}
      /\ req' = [req EXCEPT ![c].step = "write", ![c].body = [row |-> Merged(r), patch |-> r.body, checked |-> FALSE]]
  BY <1>1 DEF queryFails, errorDropped
<1>3. PICK bd : bd = [row |-> Merged(r), patch |-> r.body, checked |-> FALSE]
  OBVIOUS
<1>4. PICK x : x = [r EXCEPT !.step = "write", !.body = bd]
  OBVIOUS
<1>5. /\ {"op", "step", "id", "body"} \subseteq DOMAIN r /\ DOMAIN req = Clients /\ Named(c) /\ Begun(r)
  BY <1>1, <1>2 DEF DsInv, ReqSound, Fields, ListInv
<1>6. req'[c] = x /\ \A d \in Clients \ {c} : req'[d] = req[d]
  BY <1>1, <1>2, <1>3, <1>4, <1>5
<1>7. x.op = r.op /\ x.step = "write" /\ x.body.row = Merged(r) /\ r.op # "List"
  BY <1>2, <1>3, <1>4, <1>5
<1>8. r.op = "InsertFn" => Merged(r).name \in Names
  <2> SUFFICES ASSUME r.op = "InsertFn" PROVE Merged(r).name \in Names
    OBVIOUS
  <2>1. PICK y : y = r.body /\ y = [app |-> y.app, name |-> y.name, mem |-> y.mem] /\ y.name \in Names
    BY <1>1, <1>2, <1>5 DEF Begun, IsFn, Named
  <2>2. Merged(r) = y \/ Merged(r) = [y EXCEPT !.mem = DefaultMemory]
    BY <2>1 DEF Merged, SetDefaults
  <2> QED BY <2>1, <2>2
<1> QED BY <1>2, <1>6, <1>7, <1>8 DEF Named

LEMMA PageNames ==
  ASSUME ListInv, NEW k \in Kinds, NEW i \in DOMAIN Table(k)
  PROVE  Table(k)[i].name \in Names /\ (k = "triggers" => i \in TriggerIds)
BY DEF ListInv, Typed, Table, Kinds

LEMMA TablesFinite ==
  ASSUME ListInv, NEW k \in Kinds
  PROVE  IsFiniteSet(DOMAIN Table(k))
<1>1. DOMAIN apps \subseteq AppIds /\ DOMAIN fns \subseteq FnIds /\ DOMAIN triggers \subseteq TriggerIds
  BY DEF ListInv, Typed
<1>2. IsFiniteSet(DOMAIN apps) /\ IsFiniteSet(DOMAIN fns) /\ IsFiniteSet(DOMAIN triggers)
  BY <1>1, IdsAssumption, FS_Subset
<1> QED BY <1>2 DEF Kinds, Table

LEMMA TableIds ==
  ASSUME DsInv, NEW k \in Kinds
  PROVE  DOMAIN Table(k) \subseteq issued
BY DEF DsInv, RowsSound, RowShapes, Kinds, Table

(* The last name of a page. *)
LEMMA LastName ==
  ASSUME NEW S \in SUBSET Names, S # {}
  PROVE  Max(S) \in S /\ \A m \in S : m <= Max(S)
<1>1. PICK n \in S : \A m \in S : m <= n
  BY NamesAssumption
<1>2. \A m \in S : m \in Nat
  BY NamesAssumption
<1>3. \E x \in S : \A y \in S : x >= y
  BY <1>1, <1>2
<1>4. Max(S) = CHOOSE x \in S : \A y \in S : x >= y
  BY DEF Max
<1>5. Max(S) \in S /\ \A y \in S : Max(S) >= y
  BY <1>3, <1>4
<1> QED BY <1>2, <1>5

LEMMA PageRows ==
  ASSUME DsInv, ListInv, NEW k \in Kinds, NEW app, NEW cur \in Nat,
         NEW page \in FirstOf(k, After(k, app, cur), PerPage)
  PROVE  /\ page \subseteq Selected(k, app) /\ page \subseteq DOMAIN Table(k)
         /\ IsFiniteSet(page) /\ Cardinality(page) \in Nat /\ Cardinality(page) <= PerPage
         /\ \A i \in page : Table(k)[i].name \in Nat \ {0} /\ Table(k)[i].name > cur
         /\ Cardinality(page) # PerPage => page = After(k, app, cur) /\ nextCursor(k, page) = Empty
         /\ Cardinality(page) = PerPage =>
              /\ nextCursor(k, page) \in Nat \ {0} /\ nextCursor(k, page) > cur
              /\ \A i \in page : Table(k)[i].name <= nextCursor(k, page)
              /\ \A j \in After(k, app, cur) \ page :
                   Table(k)[j].name <= nextCursor(k, page) => \E i \in page : Table(k)[i].name = Table(k)[j].name
<1>1. PICK rs : rs = After(k, app, cur)
  OBVIOUS
<1>2. /\ page \subseteq rs /\ \A i \in page, j \in rs \ page : Table(k)[i].name <= Table(k)[j].name
      /\ Cardinality(page) = IF Cardinality(rs) < PerPage THEN Cardinality(rs) ELSE PerPage
  BY <1>1 DEF FirstOf
<1>3. /\ rs \subseteq Selected(k, app) /\ rs \subseteq DOMAIN Table(k)
      /\ \A i \in rs : Table(k)[i].name > cur
  BY <1>1 DEF After, Selected
<1>4. \A i \in rs : Table(k)[i].name \in Names /\ Table(k)[i].name \in Nat \ {0}
  BY <1>3, PageNames, NamesAssumption
<1>5. IsFiniteSet(rs)
  BY <1>3, TablesFinite, FS_Subset
<1>6. ASSUME Cardinality(page) # PerPage PROVE page = rs /\ nextCursor(k, page) = Empty
  <2>1. Cardinality(page) = Cardinality(rs)
    BY <1>2, <1>6
  <2> QED BY <1>2, <1>5, <1>6, <2>1, FS_Subset DEF nextCursor
<1>7. ASSUME Cardinality(page) = PerPage
      PROVE  /\ nextCursor(k, page) \in Nat \ {0} /\ nextCursor(k, page) > cur
             /\ \A i \in page : Table(k)[i].name <= nextCursor(k, page)
             /\ \A j \in rs \ page :
                  Table(k)[j].name <= nextCursor(k, page) => \E i \in page : Table(k)[i].name = Table(k)[j].name
  <2>1. page # {}
    BY <1>7, PerPageAssumption, FS_EmptySet
  <2>2. PICK S : S = {Table(k)[i].name : i \in page}
    OBVIOUS
  <2>3. S \in SUBSET Names /\ S # {}
    BY <1>2, <1>4, <2>1, <2>2
  <2>4. PICK m : m = Max(S) /\ m \in S /\ \A n \in S : n <= m
    BY <2>3, LastName
  <2>5. nextCursor(k, page) = m
    BY <1>7, <2>2, <2>4 DEF nextCursor
  <2>6. PICK i \in page : m = Table(k)[i].name
    BY <2>2, <2>4
  <2>7. m \in Nat \ {0} /\ m > cur
    BY <1>2, <1>3, <1>4, <2>6
  <2>8. \A j \in page : Table(k)[j].name <= m
    BY <2>2, <2>4
  <2>9. \A j \in rs \ page : Table(k)[j].name <= m => Table(k)[i].name = Table(k)[j].name
    <3> SUFFICES ASSUME NEW j \in rs \ page, Table(k)[j].name <= m PROVE Table(k)[i].name = Table(k)[j].name
      OBVIOUS
    <3>1. m <= Table(k)[j].name /\ Table(k)[j].name \in Nat
      BY <1>2, <1>4, <2>6
    <3> QED BY <2>6, <2>7, <3>1
  <2> QED BY <2>5, <2>7, <2>8, <2>9
<1>8. IsFiniteSet(page) /\ Cardinality(page) \in Nat /\ Cardinality(page) <= PerPage
  <2>1. IsFiniteSet(page)
    BY <1>2, <1>5, FS_Subset
  <2>2. Cardinality(page) \in Nat /\ Cardinality(rs) \in Nat
    BY <1>5, <2>1, FS_CardinalityType
  <2> QED BY <1>2, <2>1, <2>2, PerPageAssumption
<1> QED BY <1>1, <1>2, <1>3, <1>4, <1>6, <1>7, <1>8

(* What a page leaves out before its last name. *)
LEMMA NothingBetween ==
  ASSUME DsInv, ListInv, NEW c \in Clients, NEW r, r = req[c], r.op = "List", Listing(c), Shown(c),
         r.kind = "fns" => FnNamesKept,
         NEW page, page \subseteq Selected(r.kind, r.app), page \subseteq DOMAIN Table(r.kind),
         NEW i \in Lasting(c), i \notin page,
         NEW j \in page, Table(r.kind)[j].name = Table(r.kind)[i].name
  PROVE  r.kind = "triggers" /\ triggers[j].name = triggers[i].name
<1>1. /\ r.kind \in Kinds /\ i \in DOMAIN Table(r.kind) /\ j \in DOMAIN Table(r.kind) /\ i # j
      /\ r.kind # "apps" => Table(r.kind)[i].app = r.app /\ Table(r.kind)[j].app = r.app
  BY DEF Listing, Shown, Lasting, Selected
<1>2. r.kind # "apps"
  BY <1>1 DEF DsInv, RowsSound, AppNamesUnique, Table
<1>3. r.kind # "fns"
  <2>1. FnNamesKept => FnNamesUnique
    BY ConsistentParts DEF DsInv, RowsSound
  <2> QED BY <1>1, <2>1 DEF FnNamesUnique, Table
<1> QED BY <1>1, <1>2, <1>3 DEF Kinds, Table

LEMMA PageSound ==
  ASSUME DsInv, ListInv, NEW c \in Clients, getPage(c)
  PROVE  /\ Named(c)' /\ Listed(c)'
         /\ \A d \in Clients \ {c} : req'[d] = req[d]
<1>1. PICK r : r = req[c]
  OBVIOUS
<1>2. /\ r.op = "List" /\ r.step = "begin" /\ UNCHANGED <<apps, fns, triggers, issued, patched, conf>>
  BY <1>1 DEF getPage, Single, tablesKept, migVars
<1>3. /\ Listing(c) /\ {"op", "step"} \subseteq DOMAIN r /\ DOMAIN req = Clients
      /\ (r.kind = "fns" => FnNamesKept) => Shown(c)
  BY <1>1, <1>2 DEF DsInv, ReqSound, Fields, ListInv, Listed
<1>4. /\ {"kind", "app", "cursor", "start", "seen", "twice", "cut", "told"} \subseteq DOMAIN r
      /\ r.kind \in Kinds /\ r.cursor \in Nat /\ r.start \subseteq issued /\ r.seen \subseteq issued
      /\ r.kind = "triggers" => r.seen \subseteq TriggerIds
      /\ r.told = None
  BY <1>1, <1>2, <1>3 DEF Listing
<1>5a. PICK page \in FirstOf(r.kind, After(r.kind, r.app, r.cursor), PerPage) :
         \E items \in SUBSET page : \E got : Shows(c, r, page, items, got)
  BY <1>1, PageStep
<1>5b. PICK items \in SUBSET page : \E got : Shows(c, r, page, items, got)
  BY <1>5a
<1>5. PICK got : Shows(c, r, page, items, got)
  BY <1>5b
<1>6. PICK m : m = nextCursor(r.kind, items)
  OBVIOUS
<1>7. got = [r EXCEPT !.seen = r.seen \cup items, !.twice = r.twice \cup (r.seen \cap items),
                      !.cut = items # page, !.cursor = m]
  BY <1>5, <1>6 DEF Shows
<1>8. PICK x : /\ req' = [req EXCEPT ![c] = x]
               /\ x = handleErrorResponse(r) \/ (m = Empty /\ x = handled(got)) \/ (m # Empty /\ x = got)
  BY <1>5, <1>6, <1>7 DEF Shows
<1>9. req'[c] = x /\ \A d \in Clients \ {c} : req'[d] = req[d]
  BY <1>3, <1>8
<1>10. /\ DOMAIN got = DOMAIN r /\ got.op = "List" /\ got.step = "begin" /\ got.kind = r.kind /\ got.app = r.app
       /\ got.start = r.start /\ got.seen = r.seen \cup items /\ got.twice = r.twice \cup (r.seen \cap items)
       /\ got.cut = (items # page) /\ got.cursor = m /\ got.told = None
  BY <1>2, <1>3, <1>4, <1>7
<1>18. /\ page \subseteq Selected(r.kind, r.app) /\ page \subseteq DOMAIN Table(r.kind)
       /\ IsFiniteSet(page) /\ Cardinality(page) \in Nat /\ Cardinality(page) <= PerPage
       /\ \A i \in page : Table(r.kind)[i].name \in Nat \ {0} /\ Table(r.kind)[i].name > r.cursor
       /\ items = page =>
         /\ Cardinality(page) # PerPage => page = After(r.kind, r.app, r.cursor) /\ m = Empty
         /\ Cardinality(page) = PerPage =>
            /\ m \in Nat \ {0} /\ m > r.cursor
            /\ \A i \in page : Table(r.kind)[i].name <= m
            /\ \A j \in After(r.kind, r.app, r.cursor) \ page :
                 Table(r.kind)[j].name <= m => \E i \in page : Table(r.kind)[i].name = Table(r.kind)[j].name
  BY <1>4, <1>6, PageRows
<1>19. items # page => m = Empty
  <2>1. items # page => Cardinality(items) < Cardinality(page) /\ Cardinality(items) \in Nat
    BY <1>18, FS_Subset, FS_CardinalityType
  <2>2. items # page => Cardinality(items) # PerPage
    BY <1>18, <2>1, PerPageAssumption
  <2> QED BY <1>6, <2>2 DEF nextCursor
<1>11. /\ items \subseteq page /\ items \subseteq Selected(r.kind, r.app) /\ items \subseteq DOMAIN Table(r.kind)
       /\ \A i \in items : Table(r.kind)[i].name \in Nat \ {0} /\ Table(r.kind)[i].name > r.cursor
       /\ items = page /\ Cardinality(page) # PerPage => items = After(r.kind, r.app, r.cursor) /\ m = Empty
       /\ items = page /\ Cardinality(page) = PerPage =>
            /\ m \in Nat \ {0} /\ m > r.cursor
            /\ \A i \in items : Table(r.kind)[i].name <= m
            /\ \A j \in After(r.kind, r.app, r.cursor) \ items :
                 Table(r.kind)[j].name <= m => \E i \in items : Table(r.kind)[i].name = Table(r.kind)[j].name
  BY <1>18
<1>12. items \subseteq issued /\ (r.kind = "triggers" => items \subseteq TriggerIds)
  BY <1>4, <1>11, TableIds, PageNames
<1>13. Named(c)'
  <2>1. x.op = "List"
    BY <1>2, <1>3, <1>4, <1>8, <1>10 DEF handleErrorResponse, handled
  <2> QED BY <1>9, <2>1 DEF Named
<1>14. m \in Nat
  BY <1>11, <1>19 DEF Empty
<1>15. (FnNamesKept' <=> FnNamesKept) /\ Table(r.kind)' = Table(r.kind) /\ issued' = issued
  BY <1>2 DEF FnNamesKept, Table
<1>16. CASE x = handleErrorResponse(r)
  <2>1. /\ DOMAIN x = DOMAIN r /\ x.op = "List" /\ x.step = "done" /\ x.kind = r.kind /\ x.app = r.app
        /\ x.start = r.start /\ x.seen = r.seen /\ x.twice = r.twice /\ x.cut = r.cut /\ x.cursor = r.cursor
        /\ x.told = "error"
    BY <1>2, <1>3, <1>4, <1>16 DEF handleErrorResponse, Or
  <2>2. Listing(c)'
    BY <1>4, <1>9, <1>15, <2>1 DEF Listing
  <2>3. Lasting(c)' = Lasting(c)
    BY <1>1, <1>2, <1>9, <1>15, <2>1 DEF Lasting
  <2>4. Shown(c) => Shown(c)'
    BY <1>1, <1>9, <1>15, <2>1, <2>3 DEF Shown
  <2> QED BY <1>3, <1>9, <1>13, <1>15, <2>1, <2>2, <2>4 DEF Listed
<1>17. CASE x # handleErrorResponse(r)
  <2>1. /\ DOMAIN x = DOMAIN r /\ x.op = "List" /\ x.kind = r.kind /\ x.app = r.app
        /\ x.start = r.start /\ x.seen = r.seen \cup items /\ x.twice = r.twice \cup (r.seen \cap items)
        /\ x.cursor = m /\ x.cut = (items # page)
        /\ \/ m = Empty /\ x.step = "done" /\ x.told = "ok"
           \/ m # Empty /\ x.step = "begin" /\ x.told = None
    <3>1. CASE m = Empty /\ x = handled(got)
      BY <1>3, <1>4, <1>10, <3>1 DEF handled, Or
    <3>2. CASE m # Empty /\ x = got
      BY <1>10, <3>2
    <3> QED BY <1>8, <1>17, <3>1, <3>2
  <2>2. Listing(c)'
    <3>1. x.seen \subseteq issued /\ (x.kind = "triggers" => x.seen \subseteq TriggerIds)
      BY <1>4, <1>12, <2>1
    <3> QED BY <1>4, <1>9, <1>14, <1>15, <2>1, <3>1 DEF Listing
  <2>3. Lasting(c)' = Lasting(c)
    BY <1>1, <1>2, <1>9, <1>15, <2>1 DEF Lasting
  <2>4. ASSUME Shown(c), r.kind = "fns" => FnNamesKept PROVE Shown(c)'
    <3> SUFFICES ASSUME NEW i \in Lasting(c)
                 PROVE  /\ i \notin x.twice
                        /\ x.kind # "apps" => Table(r.kind)[i].app = x.app
                        /\ x.step = "begin" => /\ i \in x.seen => Table(r.kind)[i].name <= x.cursor
                                               /\ Table(r.kind)[i].name <= x.cursor => i \in x.seen \/ Skipped(c, i)'
                        /\ x.told = "ok" => x.cut \/ i \in x.seen \/ Skipped(c, i)'
      BY <1>9, <1>15, <2>1, <2>3 DEF Shown
    <3>1. /\ i \notin r.twice /\ (r.kind # "apps" => Table(r.kind)[i].app = r.app)
          /\ i \in r.seen => Table(r.kind)[i].name <= r.cursor
          /\ Table(r.kind)[i].name <= r.cursor => i \in r.seen \/ Skipped(c, i)
          /\ i \in DOMAIN Table(r.kind)
      BY <1>1, <1>2, <2>4 DEF Shown, Lasting
    <3>2. Table(r.kind)[i].name \in Nat
      BY <1>4, <3>1, PageNames, NamesAssumption
    <3>3. i \notin x.twice
      BY <1>4, <1>11, <2>1, <3>1, <3>2
    <3>4. Skipped(c, i) => Skipped(c, i)'
      BY <1>1, <1>2, <1>9, <2>1 DEF Skipped
    <3>5. Table(r.kind)[i].name > r.cursor => i \in After(r.kind, r.app, r.cursor)
      BY <3>1 DEF After, Selected
    <3>6. Table(r.kind)[i].name <= r.cursor => i \in x.seen \/ Skipped(c, i)'
      BY <2>1, <3>1, <3>4
    <3>9. CASE items # page
      BY <1>19, <2>1, <3>1, <3>3, <3>9 DEF None
    <3>7. CASE items = page /\ Cardinality(page) # PerPage
      <4>1. m = Empty /\ items = After(r.kind, r.app, r.cursor)
        BY <1>11, <3>7
      <4>2. i \in x.seen \/ Skipped(c, i)'
        BY <1>4, <2>1, <3>2, <3>5, <3>6, <4>1
      <4> QED BY <2>1, <3>1, <3>3, <4>1, <4>2
    <3>8. CASE items = page /\ Cardinality(page) = PerPage
      <4>1. /\ m \in Nat \ {0} /\ m > r.cursor
            /\ \A j \in items : Table(r.kind)[j].name <= m
            /\ \A j \in After(r.kind, r.app, r.cursor) \ items :
                 Table(r.kind)[j].name <= m => \E q \in items : Table(r.kind)[q].name = Table(r.kind)[j].name
        BY <1>11, <3>8
      <4>2. i \in x.seen => Table(r.kind)[i].name <= m
        BY <1>4, <2>1, <3>1, <3>2, <4>1
      <4>3. ASSUME Table(r.kind)[i].name <= m, Table(r.kind)[i].name > r.cursor, i \notin items
            PROVE  Skipped(c, i)'
        <5>1. PICK q \in items : Table(r.kind)[q].name = Table(r.kind)[i].name
          BY <3>5, <4>1, <4>3
        <5>2. r.kind = "triggers" /\ triggers[q].name = triggers[i].name
          BY <1>1, <1>2, <1>3, <1>11, <2>4, <4>3, <5>1, NothingBetween
        <5>3. q \in x.seen /\ x.kind = "triggers" /\ triggers' = triggers
          BY <1>2, <2>1, <5>2
        <5> QED BY <1>9, <5>2, <5>3 DEF Skipped
      <4>4. Table(r.kind)[i].name <= m => i \in x.seen \/ Skipped(c, i)'
        BY <1>4, <2>1, <3>2, <3>6, <4>3
      <4>5. m # Empty
        BY <4>1 DEF Empty
      <4> QED BY <2>1, <3>1, <3>3, <4>2, <4>4, <4>5 DEF None
    <3> QED BY <3>7, <3>8, <3>9
  <2> QED BY <1>3, <1>9, <1>13, <1>15, <2>1, <2>2, <2>4 DEF Listed
<1> QED BY <1>9, <1>16, <1>17

(* A listing that ends with an error. *)
LEMMA ListFails ==
  ASSUME DsInv, ListInv, NEW c \in Clients, queryFails(c), req[c].op = "List"
  PROVE  /\ Named(c)' /\ Listed(c)'
         /\ \A d \in Clients \ {c} : req'[d] = req[d]
<1>1. PICK r : r = req[c]
  OBVIOUS
<1>2. /\ r.op = "List" /\ r.step \in {"begin", "app"} /\ UNCHANGED <<apps, fns, triggers, issued, patched, conf>>
      /\ req' = [req EXCEPT ![c] = handleErrorResponse(r)]
  BY <1>1 DEF queryFails, errorDropped, tablesKept, migVars
<1>3. /\ Listing(c) /\ {"op", "step"} \subseteq DOMAIN r /\ DOMAIN req = Clients
      /\ (r.kind = "fns" => FnNamesKept) => Shown(c)
  BY <1>1, <1>2 DEF DsInv, ReqSound, Fields, ListInv, Listed
<1>4. /\ {"kind", "app", "cursor", "start", "seen", "twice", "cut", "told"} \subseteq DOMAIN r
      /\ r.kind \in Kinds /\ r.cursor \in Nat /\ r.start \subseteq issued /\ r.seen \subseteq issued
      /\ r.kind = "triggers" => r.seen \subseteq TriggerIds
      /\ r.step = "begin" /\ r.told = None
  BY <1>1, <1>2, <1>3 DEF Listing
<1>5. PICK x : x = handleErrorResponse(r)
  OBVIOUS
<1>6. req'[c] = x /\ \A d \in Clients \ {c} : req'[d] = req[d]
  BY <1>2, <1>3, <1>5
<1>7. /\ DOMAIN x = DOMAIN r /\ x.op = "List" /\ x.step = "done" /\ x.kind = r.kind /\ x.app = r.app
      /\ x.start = r.start /\ x.seen = r.seen /\ x.twice = r.twice /\ x.cut = r.cut /\ x.cursor = r.cursor
      /\ x.told = "error"
  BY <1>2, <1>3, <1>4, <1>5 DEF handleErrorResponse, Or
<1>8. (FnNamesKept' <=> FnNamesKept) /\ Table(r.kind)' = Table(r.kind) /\ issued' = issued
  BY <1>2 DEF FnNamesKept, Table
<1>9. Listing(c)'
  BY <1>4, <1>6, <1>7, <1>8 DEF Listing
<1>10. Lasting(c)' = Lasting(c)
  BY <1>1, <1>2, <1>6, <1>7, <1>8 DEF Lasting
<1>11. Shown(c) => Shown(c)'
  BY <1>1, <1>6, <1>7, <1>8, <1>10 DEF Shown
<1>12. Named(c)'
  BY <1>6, <1>7 DEF Named
<1> QED BY <1>3, <1>6, <1>7, <1>8, <1>9, <1>11, <1>12 DEF Listed

(* What a new request that is no listing may name. *)
Nameable(r) ==
  /\ r.op # "List" /\ r.step \in {"begin", "done"}
  /\ r.step = "begin" => /\ r.op \in {"InsertApp", "InsertFn", "InsertTrigger"} => r.body.name \in Names
                         /\ r.op = "UpdateTrigger" => r.body.name \in Names \cup {Empty}

LEMMA RequestNames ==
  ASSUME NEW op, NEW id, NEW body, op # "List"
  PROVE  LET r == Request(op, id, body) IN
         /\ Nameable(handleErrorResponse(r))
         /\ op \notin {"InsertApp", "InsertFn", "InsertTrigger", "UpdateTrigger"} => Nameable(r) /\ Nameable(mismatch(r))
         /\ op \in {"InsertApp", "InsertFn", "InsertTrigger"} /\ body.name \in Names => Nameable(r)
         /\ op = "UpdateTrigger" /\ body.name \in Names \cup {Empty} => Nameable(r) /\ Nameable(mismatch(r))
<1>1. PICK r : r = Request(op, id, body)
  OBVIOUS
<1>2. r = [op |-> op, step |-> "begin", id |-> id, body |-> body, told |-> None]
  BY <1>1 DEF Request
<1>3. PICK e, m : e = handleErrorResponse(r) /\ m = mismatch(r)
  OBVIOUS
<1>4. r.op = op /\ r.step = "begin" /\ r.body = body
  BY <1>2
<1>5. e.op = op /\ e.step = "done"
  BY <1>2, <1>3 DEF handleErrorResponse
<1>6. m.op = op /\ m.step = "begin" /\ m.body = body
  BY <1>2, <1>3 DEF mismatch
<1> QED BY <1>1, <1>3, <1>4, <1>5, <1>6 DEF Nameable

(* What the validator lets through has a name. *)
LEMMA CreateNames ==
  ASSUME NEW c \in Clients, NEW op, NEW body, NEW ids, Create(c, op, body, ids),
         op \in {"InsertApp", "InsertFn", "InsertTrigger"},
         ~Refused(op, body) => body.name \in Names
  PROVE  \E r : Nameable(r) /\ Take(c, r)
<1>1. PICK r : r = Request(op, None, body)
  OBVIOUS
<1>2. Nameable(handleErrorResponse(r)) /\ (~Refused(op, body) => Nameable(r))
  BY <1>1, RequestNames
<1>3. (Refused(op, body) /\ Take(c, handleErrorResponse(r))) \/ (~Refused(op, body) /\ Take(c, r))
  BY <1>1 DEF Create
<1> QED BY <1>2, <1>3

LEMMA AcceptNames ==
  ASSUME NEW c \in Clients, Accept(c), ~handleList(c)
  PROVE  \E r : Nameable(r) /\ Take(c, r)
<1>1. CASE handleAppCreate(c)
  <2>1. PICK n \in Names \cup {Empty} : Create(c, "InsertApp", [name |-> n, conf |-> {}], AppIds)
    BY <1>1 DEF handleAppCreate
  <2>2. PICK x : x = [name |-> n, conf |-> {}]
    OBVIOUS
  <2>3. x.name = n
    BY <2>2
  <2>4. ~Refused("InsertApp", x) => x.name \in Names
    BY <2>3 DEF Refused, ValidName
  <2> QED BY <2>1, <2>2, <2>4, CreateNames
<1>2. CASE handleFnCreate(c)
  <2>1. PICK f \in NewFns : Create(c, "InsertFn", f, FnIds)
    BY <1>2 DEF handleFnCreate
  <2>2. f.name \in Names \cup {Empty} /\ SetDefaults(f).name = f.name
    BY DEF NewFns, SetDefaults
  <2>3. ~Refused("InsertFn", f) => f.name \in Names
    BY <2>2 DEF Refused, ValidFn, ValidName
  <2> QED BY <2>1, <2>3, CreateNames
<1>3. CASE handleTriggerCreate(c)
  <2>1. PICK t \in NewTriggers : Create(c, "InsertTrigger", t, TriggerIds)
    BY <1>3 DEF handleTriggerCreate
  <2>2. t.name \in Names \cup {Empty}
    BY DEF NewTriggers, NoPatch
  <2>3. ~Refused("InsertTrigger", t) => t.name \in Names
    BY <2>2 DEF Refused, ValidTrigger, ValidName
  <2> QED BY <2>1, <2>3, CreateNames
<1>4. CASE handleAppUpdate(c)
  BY <1>4, RequestNames DEF handleAppUpdate
<1>5. CASE handleFnUpdate(c)
  BY <1>5, RequestNames DEF handleFnUpdate
<1>6. CASE handleTriggerUpdate(c)
  <2>1. PICK id \in TriggerIds, p \in TriggerPatches, same \in BOOLEAN :
          Take(c, IF same THEN Request("UpdateTrigger", id, p) ELSE mismatch(Request("UpdateTrigger", id, p)))
    BY <1>6 DEF handleTriggerUpdate
  <2>2. p.name \in Names \cup {Empty}
    BY DEF TriggerPatches, NoPatch
  <2> QED BY <2>1, <2>2, RequestNames
<1>7. CASE handleAppDelete(c) \/ handleFnDelete(c) \/ handleTriggerDelete(c) \/ handleFnGet(c) \/ handleTriggerGet(c)
  BY <1>7, RequestNames DEF handleAppDelete, handleFnDelete, handleTriggerDelete, handleFnGet, handleTriggerGet
<1> QED BY <1>1, <1>2, <1>3, <1>4, <1>5, <1>6, <1>7 DEF Accept

(* A listing starts with an empty cursor, before every name. *)
LEMMA ListStarts ==
  ASSUME DsInv, ListInv, NEW c \in Clients, handleList(c)
  PROVE  \E r : Take(c, r) /\ Named(c)' /\ Listed(c)'
<1>1. PICK k \in Kinds, app \in AppIds :
        Take(c, [op |-> "List", step |-> "begin", kind |-> k, app |-> app, cursor |-> Empty,
             start |-> Selected(k, app), seen |-> {}, twice |-> {}, cut |-> FALSE, told |-> None])
  BY DEF handleList
<1>2. PICK r : r = [op |-> "List", step |-> "begin", kind |-> k, app |-> app, cursor |-> Empty,
             start |-> Selected(k, app), seen |-> {}, twice |-> {}, cut |-> FALSE, told |-> None]
  OBVIOUS
<1>3. Take(c, r)
  BY <1>1, <1>2
<1>4. /\ {"kind", "app", "cursor", "start", "seen", "twice", "cut", "told"} \subseteq DOMAIN r
      /\ r.op = "List" /\ r.step = "begin" /\ r.kind = k /\ r.app = app /\ r.cursor = 0
      /\ r.start = Selected(k, app) /\ r.seen = {} /\ r.twice = {} /\ r.told = None
  BY <1>2 DEF Empty
<1>5. req'[c] = r /\ UNCHANGED <<apps, fns, triggers, issued, patched>>
  BY <1>3 DEF Take, DsInv
<1>6. Table(k)' = Table(k)
  BY <1>5 DEF Table
<1>7. Selected(k, app) \subseteq issued
  BY TableIds DEF Selected
<1>8. Listing(c)'
  BY <1>4, <1>5, <1>7 DEF Listing
<1>9. ASSUME NEW i \in Lasting(c)'
      PROVE  Table(k)[i].name \in Nat \ {0} /\ (k # "apps" => Table(k)[i].app = app)
  <2>1. i \in Selected(k, app)
    BY <1>4, <1>5, <1>9 DEF Lasting
  <2>2. i \in DOMAIN Table(k) /\ (k # "apps" => Table(k)[i].app = app)
    BY <2>1 DEF Selected
  <2> QED BY <2>2, PageNames, NamesAssumption
<1>10. Shown(c)'
  BY <1>4, <1>5, <1>6, <1>9 DEF Shown, None
<1>11. Named(c)'
  BY <1>4, <1>5 DEF Named
<1> QED BY <1>3, <1>4, <1>5, <1>8, <1>10, <1>11 DEF Listed

LEMMA AcceptNamed ==
  ASSUME DsInv, ListInv, NEW c \in Clients, Accept(c)
  PROVE  /\ Named(c)' /\ Listed(c)' /\ RowsKeep /\ Typed'
         /\ \A d \in Clients \ {c} : req'[d] = req[d]
<1>1. PICK r : Take(c, r)
  BY AcceptNames, ListStarts
<1>2. UNCHANGED <<apps, fns, triggers, issued, patched>> /\ req' = [req EXCEPT ![c] = r] /\ DOMAIN req = Clients
  BY <1>1 DEF Take, DsInv
<1>3. RowsKeep /\ Typed'
  BY <1>2, StillRows DEF ListInv, Typed
<1>4. \A d \in Clients \ {c} : req'[d] = req[d]
  BY <1>2
<1>5. CASE handleList(c)
  BY <1>3, <1>4, <1>5, ListStarts
<1>6. CASE ~handleList(c)
  <2>1. PICK x : Nameable(x) /\ Take(c, x)
    BY <1>6, AcceptNames
  <2>2. req'[c] = x
    BY <1>2, <2>1 DEF Take
  <2>3. Named(c)' /\ Listed(c)'
    BY <2>1, <2>2 DEF Nameable, Named, Listed
  <2> QED BY <1>3, <1>4, <2>3
<1> QED BY <1>5, <1>6

LEMMA ListInvInit == Init => ListInv
<1> SUFFICES ASSUME Init PROVE ListInv
  OBVIOUS
<1>1. \A c \in Clients : req[c] = Idle
  BY DEF Init
<1>2. \A c \in Clients : Named(c) /\ Listed(c)
  BY <1>1 DEF Named, Listed, Idle
<1>3. CASE apps = << >> /\ fns = << >> /\ triggers = << >>
  <2>1. DOMAIN apps = {} /\ DOMAIN fns = {} /\ DOMAIN triggers = {}
    BY <1>3
  <2> QED BY <1>2, <2>1 DEF ListInv, Typed
<1>4. CASE apps = FirstApps /\ fns = FirstFns /\ triggers = FirstTriggers
  <2>1. \A a \in DOMAIN apps : apps[a] \in [name : Names, conf : SUBSET Keys]
    BY <1>4, FirstRowsAssumption
  <2>2. \A f \in DOMAIN fns : fns[f] \in [app : DOMAIN FirstApps, name : Names, mem : 1 .. MaxMemory]
    BY <1>4, FirstRowsAssumption
  <2>3. \A t \in DOMAIN triggers :
          triggers[t] \in [app : DOMAIN FirstApps, fn : DOMAIN FirstFns, name : Names, src : Sources]
    BY <1>4, FirstRowsAssumption
  <2>4. DOMAIN apps \subseteq AppIds /\ DOMAIN fns \subseteq FnIds /\ DOMAIN triggers \subseteq TriggerIds
    BY <1>4, FirstRowsAssumption
  <2>5. Typed
    BY <2>1, <2>2, <2>3, <2>4 DEF Typed
  <2> QED BY <1>2, <2>5 DEF ListInv
<1> QED BY <1>3, <1>4 DEF Init

LEMMA ListInvNext == Inv /\ (Transactional => ListInv) /\ [Next]_vars => (Transactional => ListInv)'
<1> SUFFICES ASSUME Inv, Transactional => ListInv, [Next]_vars, Transactional'
             PROVE  ListInv'
  OBVIOUS
<1>1. conf' = conf
  <2>1. MigNext \/ UNCHANGED migVars
    BY StepOfMigrations
  <2>2. MigNext => conf' = conf
    BY MigTypesNext DEF MigNext, Frame, Inv
  <2> QED BY <2>1, <2>2 DEF migVars
<1>2. DsInv /\ ListInv
  BY <1>1 DEF Inv, Transactional
<1>3. \A d \in Clients : Named(d) /\ Listed(d)
  BY <1>2 DEF ListInv
<1>4. ASSUME UNCHANGED dsVars PROVE ListInv'
  <2>1. UNCHANGED <<apps, fns, triggers, issued, patched, req>>
    BY <1>4 DEF dsVars
  <2>2. RowsKeep /\ Typed'
    BY <1>2, <2>1, StillRows DEF ListInv, Typed
  <2>3. ASSUME NEW d \in Clients PROVE Named(d)' /\ Listed(d)'
    BY <1>1, <1>3, <2>1, <2>2, ListedStays DEF Named
  <2> QED BY <2>2, <2>3 DEF ListInv
<1>5. ASSUME NEW c \in Clients, RowsKeep, Typed', Named(c)', Listed(c)', \A d \in Clients \ {c} : req'[d] = req[d]
      PROVE  ListInv'
  <2>1. ASSUME NEW d \in Clients \ {c} PROVE Named(d)' /\ Listed(d)'
    BY <1>1, <1>3, <1>5, ListedStays DEF Named
  <2> QED BY <1>5, <2>1 DEF ListInv
<1>6. ASSUME NEW c \in Clients, Accept(c) PROVE ListInv'
  BY <1>2, <1>5, <1>6, AcceptNamed
<1>7. ASSUME NEW c \in Clients, Handle(c) PROVE ListInv'
  <2>1. RowsKeep /\ Typed'
    BY <1>2, <1>7, StatementRows
  <2>2. CASE getPage(c)
    BY <1>2, <1>5, <2>1, <2>2, PageSound
  <2>3. CASE txReads(c) /\ Finds(req[c])
    <3>1. Listed(c)'
      BY <1>2, <2>3, ReadsNamed DEF Listed
    <3> QED BY <1>2, <1>5, <2>1, <2>3, <3>1, ReadsNamed
  <2>5. CASE queryFails(c) /\ errorDropped(req[c])
    <3>1. Listed(c)'
      BY <1>2, <2>5, BlindNamed DEF Listed
    <3> QED BY <1>2, <1>5, <2>1, <2>5, <3>1, BlindNamed
  <2>6. CASE queryFails(c) /\ req[c].op = "List"
    BY <1>2, <1>5, <2>1, <2>6, ListFails
  <2>4. CASE /\ ~getPage(c) /\ ~(txReads(c) /\ Finds(req[c]))
             /\ ~(queryFails(c) /\ (errorDropped(req[c]) \/ req[c].op = "List"))
    <3>1. /\ req'[c].step \notin {"begin", "write"} /\ req'[c].op # "List"
          /\ \A d \in Clients \ {c} : req'[d] = req[d]
      BY <1>2, <1>7, <2>4, StepEnds
    <3>2. Named(c)' /\ Listed(c)'
      BY <3>1 DEF Named, Listed
    <3> QED BY <1>5, <2>1, <3>1, <3>2
  <2> QED BY <2>2, <2>3, <2>4, <2>5, <2>6
<1> QED BY <1>4, <1>6, <1>7 DEF Next, vars

(* Walking through the pages of a listing shows every row that stays in the  *)
(* table exactly once, for any number of rows, clients and requests at the   *)
(* same time and any page size: the name a full page ends with separates     *)
(* what was shown from what is to come, and a row never changes its name     *)
(* unless it is a trigger that an update moved (GetApps, GetFns, GetTriggers,*)
(* nextCursor).  Where a page was cut short, what it showed was shown once.  *)
THEOREM PagesAlwaysCover == Spec => [](Transactional => PagesCover)
<1>1. Init => (Transactional => ListInv)
  BY ListInvInit
<1>2. ListInv => PagesCover
  BY DEF ListInv, Listed, Listing, Shown, Lasting, Skipped, PagesCover
<1> QED BY <1>1, <1>2, InvAlways, ListInvNext, PTL DEF Spec
=============================================================================
