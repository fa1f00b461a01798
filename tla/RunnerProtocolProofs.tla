------------------------ MODULE RunnerProtocolProofs ------------------------
(***************************************************************************)
(* Proofs about RunnerProtocol for every number of attempts, request       *)
(* frames and response chunks: a call that is retried was not run, its     *)
(* caller gets the chunks of one run in order, an answer without an error  *)
(* is complete, and the protocol implements OneCall.                       *)
(*                                                                         *)
(* The invariant is about one attempt at a time.  Its parts are operators  *)
(* of what they look at: the handle h of the attempt, the messages q on    *)
(* their way to the client, the chunks n written so far, whether the       *)
(* function ran, the state t of TryExec, the state rc of                   *)
(* receiveFromRunner, the queue rd of its errors, the link lk, the type    *)
(* det of the call and what its caller was sent, x.                        *)
(***************************************************************************)
EXTENDS RunnerProtocol, FiniteSetTheorems, TLAPS

(* The handle can no longer start the function, which has not run. *)
Refused(h, ran) ==
  /\ ~ran
  /\ \/ h.sub \in {"answer", "final", "done"}
     \/ h.sub = "none" /\ h.eng \in {"wait", "returned"}

(* An attempt that was not made, or never reached a runner. *)
Untouched(h, q, n, ran, t, rc, rd) ==
  /\ t = "idle" => /\ h = NoHandle /\ q = <<>> /\ n = 0 /\ ~ran
                   /\ rc = "off" /\ rd = <<>>
  /\ h.eng = "none" => h = NoHandle /\ ~ran

(* How far the goroutines of a handle are, and what that says of the run. *)
Shape(h, n, ran) ==
  /\ h.eng = "try" => h.sub = "none" /\ h.out = "ok"
  /\ h.sub = "none" /\ h.eng # "returned" => ~ran
  /\ h.sub = "queued" => ~ran /\ h.eng \in {"data", "feed", "wait", "returned"}
  /\ h.sub = "run" => ran
  /\ ~ran => n = 0 /\ h.wr = "none"
  /\ h.eng = "returned" => h.rctx \/ (h.sub = "none" /\ h.wr = "none")
  /\ h.sub = "answer" /\ h.out = "ok" => ran /\ h.wr = "ok"
  /\ h.wr = "ok" => n = Chunks

(* Whatever says "busy" says so of a handle that refused the call. *)
BusyIsRefused(h, q, ran, rd) ==
  /\ h.out = "busy" \/ h.err = "busy" => Refused(h, ran)
  /\ \A i \in 1..Len(q) :
       q[i].type \in {"finished", "status"} /\ q[i].v = "busy" => Refused(h, ran)
  /\ rd # <<>> /\ rd[1] = "busy" => Refused(h, ran)

(* An attempt reported as not placed. *)
NotPlaced(h, ran, t) ==
  t = "notplaced" => h.eng = "none" \/ Refused(h, ran)

(* What the messages of a runner say about the run. *)
Carried(q, ran, det) ==
  \A i \in 1..Len(q) :
    /\ q[i].type = "start" => ran
    /\ q[i].type = "data" => ran /\ ~det
    /\ q[i].type = "finished" /\ q[i].v = "ok" => ran

(* Everything up to position i comes before Finished and the status. *)
Open(q, i) == \A j \in 1..i : q[j].type \in {"start", "data"}

Offset(q) == IF q # <<>> /\ q[1].type = "start" THEN 1 ELSE 0

(* What is sent from now on arrives. *)
Sendable(h, lk) == h.sx = "run" /\ ~h.rctx /\ h.eng # "returned" /\ lk = "up"

(* The messages on their way continue what the caller was sent: the header *)
(* first, then the chunks in order, and a Finished without an error after  *)
(* the last chunk.                                                         *)
InOrder(q, l) ==
  \A i \in 1..Len(q) :
    /\ q[i].type = "start" /\ Open(q, i) => i = 1 /\ l = 0
    /\ q[i].type = "data" /\ Open(q, i) => q[i].n = l + i - Offset(q)
    /\ q[i].type = "finished" /\ q[i].v = "ok" /\ Open(q, i - 1) =>
         Chunks = l + i - 1 - Offset(q)

Continues(q, h, n, lk, l) ==
  Sendable(h, lk) /\ Open(q, Len(q)) => n = l + Len(q) - Offset(q)

HeaderDue(q, h, n) ==
  h.wr \in {"none", "head"} /\ h.eng # "returned" =>
    n = 0 /\ \A i \in 1..Len(q) : q[i].type # "start"

Stream(q, h, n, ran, det, rc, lk, x) ==
  ran /\ ~det =>
    /\ HeaderDue(q, h, n)
    /\ rc = "data" => InOrder(q, Len(x)) /\ Continues(q, h, n, lk, Len(x))

(* What TryExec has, or will return, when nothing more is received. *)
Result(ran, det, t, rc, rd, x) ==
  /\ t = "ok" => rc = "done"
  /\ rc = "skip" => t # "wait" \/ rd # <<>>
  /\ t = "ok" \/ (t = "wait" /\ rd = <<>> /\ rc \in {"eof", "done"}) =>
       ran /\ (~det => Len(x) = Chunks)

(* All of it, for an attempt whose handle is h and queue of messages q. *)
Fits(a, h, q, n) ==
  /\ Untouched(h, q, n, a \in executed, try[a], recv[a], recvDone[a])
  /\ Shape(h, n, a \in executed)
  /\ BusyIsRefused(h, q, a \in executed, recvDone[a])
  /\ NotPlaced(h, a \in executed, try[a])
  /\ Carried(q, a \in executed, detached)
  /\ Stream(q, h, n, a \in executed, detached, recv[a], link[a], w)
  /\ Result(a \in executed, detached, try[a], recv[a], recvDone[a], w)

AttemptInv(a) == Fits(a, r[a], toLB[a], wrote[a])

(* A runner is tried when those before it did not take the call. *)
InTurn == \A a \in Attempts : try[a] # "idle" => \A b \in 1..(a - 1) : try[b] = "notplaced"

IInv == TypeOK /\ InTurn /\ OneAnswer /\ \A a \in Attempts : AttemptInv(a)

-----------------------------------------------------------------------------
(* Handles.  A record of many fields is compared field by field.           *)

FieldNames == {"eng", "sx", "px", "sub", "out", "wr", "feed", "rctx", "sctx",
               "shut", "err", "callErr", "eofSeen", "pipe", "reader", "header"}

IsRecord(h) == h = [f \in FieldNames |-> h[f]]

Fields(h) ==
  /\ h.eng \in {"none", "try", "reject", "data", "feed", "wait", "returned"}
  /\ h.sx \in {"run", "done"} /\ h.px \in {"none", "idle", "copy", "done"}
  /\ h.sub \in {"none", "queued", "run", "answer", "final", "done"}
  /\ h.out \in Errors \cup {"ok"} /\ h.wr \in {"none", "head", "body", "ok", "err"}
  /\ h.feed \in 0..Frames /\ h.rctx \in BOOLEAN /\ h.sctx \in BOOLEAN
  /\ h.shut \in BOOLEAN /\ h.err \in Errors \cup {"none"}
  /\ h.callErr \in {"none", "write", "premature"}
  /\ h.eofSeen \in BOOLEAN /\ h.pipe \in {"open", "closed"}
  /\ h.reader \in {"open", "closed"} /\ h.header \in BOOLEAN

LEMMA HandleFields == \A h \in Handles : IsRecord(h) /\ Fields(h)
  BY DEF Handles, Fields, IsRecord, FieldNames

LEMMA HandleByFields == \A h : IsRecord(h) /\ Fields(h) => h \in Handles
  BY DEF Handles, Fields, IsRecord, FieldNames

LEMMA GoneIsHandle == Gone \in Handles /\ NoHandle \in Handles
<1>1. NoHandle \in Handles
  BY FramesAssumption DEF NoHandle, Handles, Errors
<1>2. Gone \in Handles
  BY <1>1 DEF Gone, Handles
<1> QED BY <1>1, <1>2

(* The fields the invariant looks at. *)
Alike(h, h2) == /\ h2.eng = h.eng /\ h2.sub = h.sub /\ h2.out = h.out
                /\ h2.wr = h.wr /\ h2.rctx = h.rctx

LEMMA ShutdownFields ==
  ASSUME NEW h \in Handles, NEW e \in Errors \cup {"none"}
  PROVE  /\ shutdown(h, e) \in Handles
         /\ Alike(h, shutdown(h, e)) /\ shutdown(h, e).sx = h.sx
         /\ shutdown(h, e).err \in {h.err, e}
<1> DEFINE s == shutdown(h, e)
<1>1. IsRecord(h) /\ Fields(h)
  BY HandleFields
<1>2. CASE h.shut
  <2>1. s = [h EXCEPT !.pipe = "closed"]
    BY <1>2 DEF shutdown
  <2>2. IsRecord(s)
    BY <2>1, <1>1 DEF IsRecord
  <2>3. Fields(s) /\ Alike(h, s) /\ s.sx = h.sx /\ s.err = h.err
    BY <2>1, <1>1 DEF Fields, Alike, IsRecord, FieldNames
  <2> QED BY <2>2, <2>3, HandleByFields
<1>3. CASE ~h.shut
  <2>1. s = [h EXCEPT !.pipe = "closed", !.shut = TRUE, !.err = IF @ = "none" THEN e ELSE @]
    BY <1>3 DEF shutdown
  <2> HIDE DEF s
  <2>2. IsRecord(s)
    BY <2>1, <1>1 DEF IsRecord
  <2>3. Fields(s) /\ Alike(h, s) /\ s.sx = h.sx /\ s.err \in {h.err, e}
    BY <2>1, <1>1 DEF Fields, Alike, IsRecord, FieldNames
  <2>4. s \in Handles
    BY <2>2, <2>3, HandleByFields
  <2> QED BY <2>3, <2>4 DEF s
<1> QED BY <1>2, <1>3

(* A handle nobody uses any more may be forgotten. *)
LEMMA Forgotten ==
  ASSUME NEW a \in Attempts, NEW h \in Handles, NEW q, NEW n, Over(h), Fits(a, h, q, n)
  PROVE  Fits(a, Gone, q, n)
<1> USE DEF Over, Fits, Gone, NoHandle
<1>1. Untouched(Gone, q, n, a \in executed, try[a], recv[a], recvDone[a])
  BY DEF Untouched
<1>2. Shape(Gone, n, a \in executed)
  BY DEF Shape
<1>3. Refused(h, a \in executed) => Refused(Gone, a \in executed)
  BY DEF Refused
<1>4. BusyIsRefused(Gone, q, a \in executed, recvDone[a]) /\ NotPlaced(Gone, a \in executed, try[a])
  BY <1>3 DEF BusyIsRefused, NotPlaced
<1>5. Stream(q, Gone, n, a \in executed, detached, recv[a], link[a], w)
  BY DEF Stream, HeaderDue, Continues, Sendable
<1> QED BY <1>1, <1>2, <1>4, <1>5

(* The conjuncts that a change of the handle alone can disturb. *)
LEMMA NewHandle ==
  ASSUME NEW a \in Attempts, NEW h \in Handles, NEW h2 \in Handles, NEW q, NEW n,
         Fits(a, h, q, n), h.eng # "none", h2.eng # "none",
         Shape(h2, n, a \in executed),
         Refused(h, a \in executed) => Refused(h2, a \in executed),
         h2.out = "busy" \/ h2.err = "busy" => Refused(h2, a \in executed),
         Sendable(h2, link[a]) => Sendable(h, link[a]),
         h2.wr \in {"none", "head"} /\ h2.eng # "returned" =>
           h.wr \in {"none", "head"} /\ h.eng # "returned"
  PROVE  Fits(a, h2, q, n)
<1>1. Untouched(h2, q, n, a \in executed, try[a], recv[a], recvDone[a])
  BY DEF Fits, Untouched, NoHandle
<1>2. BusyIsRefused(h2, q, a \in executed, recvDone[a]) /\ NotPlaced(h2, a \in executed, try[a])
  BY DEF Fits, BusyIsRefused, NotPlaced
<1>3. Stream(q, h2, n, a \in executed, detached, recv[a], link[a], w)
  BY DEF Fits, Stream, HeaderDue, Continues
<1> QED BY <1>1, <1>2, <1>3 DEF Fits

(* Steps of the handle that say nothing new of the run: frames go on, the  *)
(* session or its context ends.                                            *)
Passes(h, h2) ==
  /\ h2.eng = h.eng \/ (h.eng \in {"data", "feed"} /\ h2.eng \in {"data", "feed", "wait"})
  /\ h2.sub = h.sub /\ h2.out = h.out /\ h2.wr = h.wr
  /\ h2.sx = h.sx \/ h2.sx = "done"
  /\ h.rctx => h2.rctx
  /\ h2.err = h.err \/ h2.err # "busy"

LEMMA PassesOn ==
  ASSUME NEW a \in Attempts, NEW h \in Handles, NEW h2 \in Handles, NEW q, NEW n,
         Fits(a, h, q, n), h.eng # "none", Passes(h, h2)
  PROVE  Fits(a, h2, q, n)
<1> USE DEF Passes
<1>1. Shape(h2, n, a \in executed)
  BY DEF Fits, Shape
<1>2. Refused(h, a \in executed) => Refused(h2, a \in executed)
  BY DEF Refused
<1>3. h2.out = "busy" \/ h2.err = "busy" => Refused(h2, a \in executed)
  BY <1>2 DEF Fits, BusyIsRefused
<1>4. Sendable(h2, link[a]) => Sendable(h, link[a])
  BY HandleFields DEF Sendable, Fields
<1> QED BY <1>1, <1>2, <1>3, <1>4, NewHandle

(* getTryMsg and handleTryCall. *)
LEMMA Tried ==
  ASSUME NEW a \in Attempts, NEW h \in Handles, NEW h2 \in Handles, NEW q, NEW n,
         Fits(a, h, q, n), h.eng = "try", h2.sx = h.sx, h2.wr = h.wr, h2.rctx = h.rctx,
         \/ h2.eng = "data" /\ h2.sub = "queued" /\ h2.out = h.out /\ h2.err = h.err
         \/ h2.eng = "reject" /\ h2.sub = "answer" /\ h2.out = "err" /\ h2.err = h.err
         \/ h2.eng = "wait" /\ h2.sub = h.sub /\ h2.out = h.out
  PROVE  Fits(a, h2, q, n)
<1>1. Shape(h2, n, a \in executed) /\ ~Refused(h, a \in executed)
  BY DEF Fits, Shape, Refused
<1>2. h2.out = "busy" \/ h2.err = "busy" => Refused(h2, a \in executed)
  BY <1>1 DEF Fits, Shape, BusyIsRefused, Refused
<1>3. Sendable(h2, link[a]) => Sendable(h, link[a])
  BY DEF Sendable
<1> QED BY <1>1, <1>2, <1>3, NewHandle

(* submitRefused, fnResponds, writeEnds, submitReturns and what follows: the *)
(* call goes from one stage to the next.                                     *)
Advances(h, h2, n) ==
  /\ h2.eng = h.eng /\ h2.rctx = h.rctx /\ (h2.sx = h.sx \/ h2.sx = "done")
  /\ h2.err = h.err \/ h2.err # "busy"
  /\ \/ h.sub = "queued" /\ h2.sub = "answer" /\ h2.out \in Errors /\ h2.wr = h.wr
     \/ h.sub = "run" /\ h.wr = "none" /\ h2.wr = "head" /\ h2.sub = h.sub /\ h2.out = h.out
     \/ /\ h.wr = "body" /\ h2.wr \in {"ok", "err"} /\ (h2.wr = "ok" => n = Chunks)
        /\ h2.sub = h.sub /\ h2.out = h.out
     \/ /\ h.sub = "run" /\ h2.sub = "answer" /\ h2.wr = h.wr
        /\ h2.out = "err" \/ (h2.out = "ok" /\ h.wr = "ok")
     \/ h.sub = "answer" /\ h2.sub \in {"final", "done"} /\ h2.out = h.out /\ h2.wr = h.wr
     \/ h.sub = "final" /\ h2.sub = "done" /\ h2.out = h.out /\ h2.wr = h.wr

LEMMA AdvancesOn ==
  ASSUME NEW a \in Attempts, NEW h \in Handles, NEW h2 \in Handles, NEW q, NEW n,
         Fits(a, h, q, n), h.eng # "none", Advances(h, h2, n)
  PROVE  Fits(a, h2, q, n)
<1> USE DEF Advances
<1>1. Shape(h2, n, a \in executed)
  BY DEF Fits, Shape, Errors
<1>2. Refused(h, a \in executed) => Refused(h2, a \in executed)
  BY DEF Refused, Fits, Shape
<1>3. h2.out = "busy" \/ h2.err = "busy" => Refused(h2, a \in executed)
  BY <1>2 DEF Fits, BusyIsRefused, Shape, Refused
<1>4. Sendable(h2, link[a]) => Sendable(h, link[a])
  BY HandleFields DEF Sendable, Fields
<1> QED BY <1>1, <1>2, <1>3, <1>4, NewHandle

-----------------------------------------------------------------------------
(* Queues of messages.                                                     *)

LEMMA Appended ==
  ASSUME NEW q \in Seq(Msgs), NEW m \in Msgs
  PROVE  /\ q \o <<m>> \in Seq(Msgs) /\ Append(q, m) = q \o <<m>>
         /\ Len(q \o <<m>>) = Len(q) + 1 /\ (q \o <<m>>)[Len(q) + 1] = m
         /\ \A i \in 1..Len(q) : (q \o <<m>>)[i] = q[i]
  OBVIOUS

LEMMA Nothing ==
  ASSUME NEW q \in Seq(Msgs)
  PROVE  q \o <<>> = q /\ <<>> \in Seq(Msgs) /\ Len(<<>>) = 0 /\ (q = <<>> <=> Len(q) = 0)
  OBVIOUS

LEMMA OpenPrefix ==
  ASSUME NEW q \in Seq(Msgs), NEW m \in Msgs, NEW i \in 0..Len(q)
  PROVE  Open(q \o <<m>>, i) <=> Open(q, i)
  BY Appended DEF Open

LEMMA OpenWhole ==
  ASSUME NEW q \in Seq(Msgs), NEW m \in Msgs, Open(q \o <<m>>, Len(q) + 1)
  PROVE  Open(q, Len(q)) /\ m.type \in {"start", "data"}
<1>1. Open(q \o <<m>>, Len(q))
  BY DEF Open
<1>2. m.type \in {"start", "data"}
  BY Appended DEF Open
<1> QED BY <1>1, <1>2, OpenPrefix

LEMMA OffsetAppended ==
  ASSUME NEW q \in Seq(Msgs), NEW m \in Msgs
  PROVE  /\ q # <<>> => Offset(q \o <<m>>) = Offset(q)
         /\ q = <<>> => Offset(q \o <<m>>) = IF m.type = "start" THEN 1 ELSE 0
         /\ Offset(q) \in {0, 1} /\ Offset(<<>>) = 0
<1>1. q \o <<m>> # <<>>
  BY Appended
<1>2. q # <<>> => (q \o <<m>>)[1] = q[1]
  BY Appended
<1>3. q = <<>> => (q \o <<m>>)[1] = m
  BY Appended
<1> QED BY <1>1, <1>2, <1>3 DEF Offset

(* A message appended in order. *)
LEMMA InOrderAppended ==
  ASSUME NEW q \in Seq(Msgs), NEW m \in Msgs, NEW l \in Nat, InOrder(q, l),
         Open(q, Len(q)) =>
           /\ m.type = "start" => q = <<>> /\ l = 0
           /\ m.type = "data" => m.n = l + Len(q) + 1 - Offset(q)
           /\ m.type = "finished" /\ m.v = "ok" => Chunks = l + Len(q) - Offset(q)
  PROVE  InOrder(q \o <<m>>, l)
<1> DEFINE p == q \o <<m>>
<1> SUFFICES ASSUME NEW i \in 1..Len(p)
             PROVE  /\ p[i].type = "start" /\ Open(p, i) => i = 1 /\ l = 0
                    /\ p[i].type = "data" /\ Open(p, i) => p[i].n = l + i - Offset(p)
                    /\ p[i].type = "finished" /\ p[i].v = "ok" /\ Open(p, i - 1) =>
                         Chunks = l + i - 1 - Offset(p)
  BY DEF InOrder
<1>1. Len(p) = Len(q) + 1 /\ Len(q) \in Nat
  BY Appended
<1>2. CASE i \in 1..Len(q)
  <2>1. p[i] = q[i] /\ Offset(p) = Offset(q)
    BY <1>2, Appended, OffsetAppended, Nothing
  <2>2. (Open(p, i) <=> Open(q, i)) /\ (Open(p, i - 1) <=> Open(q, i - 1))
    BY <1>2, OpenPrefix
  <2> QED BY <2>1, <2>2, <1>2 DEF InOrder
<1>3. CASE i = Len(q) + 1
  <2>1. p[i] = m
    BY <1>3, Appended
  <2>2. Open(p, i) \/ Open(p, i - 1) => Open(q, Len(q))
    BY <1>3, <1>1, OpenWhole, OpenPrefix
  <2>3. m.type # "start" => Offset(p) = Offset(q)
    BY OffsetAppended
  <2>4. Offset(q) \in {0, 1}
    BY DEF Offset
  <2> HIDE DEF p
  <2>5. m.type = "start" /\ Open(p, i) => i = 1 /\ l = 0
    BY <2>2, <1>3, Nothing
  <2>6. m.type = "data" /\ Open(p, i) => m.n = l + i - Offset(p)
    BY <2>2, <2>3, <2>4, <1>1, <1>3
  <2>7. m.type = "finished" /\ m.v = "ok" /\ Open(p, i - 1) => Chunks = l + i - 1 - Offset(p)
    BY <2>2, <2>3, <2>4, <1>1, <1>3
  <2> QED BY <2>1, <2>5, <2>6, <2>7
<1> QED BY <1>1, <1>2, <1>3

(* The conjuncts that a message of the runner can disturb. *)
LEMMA NewMessage ==
  ASSUME NEW a \in Attempts, NEW h \in Handles, NEW q \in Seq(Msgs), NEW m \in Msgs,
         NEW n, NEW k, Fits(a, h, q, n), h.eng # "none", Shape(h, k, a \in executed),
         m.type = "start" => a \in executed,
         m.type = "data" => a \in executed /\ ~detached,
         m.type = "finished" /\ m.v = "ok" => a \in executed,
         m.type \in {"finished", "status"} /\ m.v = "busy" => Refused(h, a \in executed),
         Stream(q \o <<m>>, h, k, a \in executed, detached, recv[a], link[a], w)
  PROVE  Fits(a, h, q \o <<m>>, k)
<1> DEFINE p == q \o <<m>>
<1>1. \A i \in 1..Len(p) : (i \in 1..Len(q) /\ p[i] = q[i]) \/ p[i] = m
  BY Appended
<1> HIDE DEF p
<1>2. Untouched(h, p, k, a \in executed, try[a], recv[a], recvDone[a])
  BY DEF Fits, Untouched, NoHandle
<1>3. BusyIsRefused(h, p, a \in executed, recvDone[a])
  BY <1>1 DEF Fits, BusyIsRefused
<1>4. Carried(p, a \in executed, detached)
  BY <1>1 DEF Fits, Carried
<1> QED BY <1>2, <1>3, <1>4 DEF Fits, p

(* What the caller of a runner that is sent nothing waits for. *)
LEMMA Unheard ==
  ASSUME NEW a \in Attempts, NEW h, NEW q, NEW n, Fits(a, h, q, n),
         recv[a] \in {"off", "done"}
  PROVE  Fits(a, h, <<>>, n)
<1>1. Len(<<>>) = 0
  OBVIOUS
<1>2. \A i \in 1..Len(<<>>) : FALSE
  BY <1>1
<1> HIDE <1>1
<1>3. BusyIsRefused(h, <<>>, a \in executed, recvDone[a]) /\ Carried(<<>>, a \in executed, detached)
  BY <1>2 DEF Fits, BusyIsRefused, Carried
<1>4. Stream(<<>>, h, n, a \in executed, detached, recv[a], link[a], w)
  BY <1>2 DEF Fits, Stream, HeaderDue
<1>5. Untouched(h, <<>>, n, a \in executed, try[a], recv[a], recvDone[a])
  BY DEF Fits, Untouched
<1> QED BY <1>3, <1>4, <1>5 DEF Fits

(* WriteHeader: the header is the first message. *)
LEMMA HeaderSent ==
  ASSUME NEW a \in Attempts, NEW h \in Handles, NEW h2 \in Handles, NEW q \in Seq(Msgs),
         NEW m \in Msgs, NEW n \in 0..Chunks, w \in Seq(Attempts \X (1..Chunks)),
         Fits(a, h, q, n), Fits(a, h2, q, n), h.eng # "none", h2.eng # "none",
         h.wr = "head", h2.wr = "body", m.type = "start", Sendable(h, link[a])
  PROVE  Fits(a, h2, q \o <<m>>, n)
<1>1. Len(w) \in Nat /\ Len(q) \in Nat
  OBVIOUS
<1>2. a \in executed
  BY DEF Fits, Shape
<1>3. ASSUME ~detached, recv[a] = "data"
      PROVE  InOrder(q \o <<m>>, Len(w)) /\ Continues(q \o <<m>>, h2, n, link[a], Len(w))
  <2>1. InOrder(q, Len(w)) /\ n = 0 /\ Offset(q) = 0
    BY <1>2, <1>3, Nothing DEF Fits, Stream, HeaderDue, Sendable, Offset
  <2>2. Open(q, Len(q)) => n = Len(w) + Len(q) - Offset(q)
    BY <1>2, <1>3 DEF Fits, Stream, Continues
  <2>3. Open(q, Len(q)) => q = <<>> /\ Len(w) = 0
    BY <2>1, <2>2, <1>1, Nothing
  <2>4. InOrder(q \o <<m>>, Len(w))
    BY <2>1, <2>3, <1>1, InOrderAppended
  <2>5. Open(q \o <<m>>, Len(q \o <<m>>)) => n = Len(w) + Len(q \o <<m>>) - Offset(q \o <<m>>)
    <3> SUFFICES ASSUME Open(q \o <<m>>, Len(q \o <<m>>))
                 PROVE  n = Len(w) + Len(q \o <<m>>) - Offset(q \o <<m>>)
      OBVIOUS
    <3>1. q = <<>> /\ Len(w) = 0
      BY <2>3, Appended, OpenWhole
    <3>2. Len(q \o <<m>>) = 1
      BY <3>1, <1>1, Appended, Nothing
    <3>3. Offset(q \o <<m>>) = 1
      BY <3>1, OffsetAppended
    <3> QED BY <3>1, <3>2, <3>3, <2>1
  <2> QED BY <2>4, <2>5 DEF Continues
<1>4. Stream(q \o <<m>>, h2, n, a \in executed, detached, recv[a], link[a], w)
  BY <1>3 DEF Stream, HeaderDue
<1>5. Shape(h2, n, a \in executed)
  BY DEF Fits
<1> QED BY <1>2, <1>4, <1>5, NewMessage

(* Write: the next chunk. *)
LEMMA ChunkSent ==
  ASSUME NEW a \in Attempts, NEW h \in Handles, NEW q \in Seq(Msgs),
         NEW m \in Msgs, NEW n \in 0..Chunks, w \in Seq(Attempts \X (1..Chunks)),
         Fits(a, h, q, n), h.eng # "none", n < Chunks, ~detached,
         h.wr = "body", m.type = "data", m.n = n + 1, Sendable(h, link[a])
  PROVE  Fits(a, h, q \o <<m>>, n + 1)
<1>1. Len(w) \in Nat /\ Len(q) \in Nat /\ n \in Nat /\ Offset(q) \in {0, 1}
  BY FramesAssumption DEF Offset
<1>2. a \in executed
  BY DEF Fits, Shape
<1>3. ASSUME recv[a] = "data"
      PROVE  InOrder(q \o <<m>>, Len(w)) /\ Continues(q \o <<m>>, h, n + 1, link[a], Len(w))
  <2>1. InOrder(q, Len(w))
    BY <1>2, <1>3 DEF Fits, Stream
  <2>2. Open(q, Len(q)) => n = Len(w) + Len(q) - Offset(q)
    BY <1>2, <1>3 DEF Fits, Stream, Continues
  <2>6. Open(q, Len(q)) => m.n = Len(w) + Len(q) + 1 - Offset(q)
    BY <2>2, <1>1
  <2>3. InOrder(q \o <<m>>, Len(w))
    BY <2>1, <2>6, <1>1, InOrderAppended
  <2>4. Offset(q \o <<m>>) = Offset(q)
    BY OffsetAppended
  <2>5. Open(q \o <<m>>, Len(q \o <<m>>)) => n + 1 = Len(w) + Len(q \o <<m>>) - Offset(q \o <<m>>)
    <3>1. Open(q \o <<m>>, Len(q \o <<m>>)) => Open(q, Len(q))
      BY Appended, OpenWhole
    <3> QED BY <3>1, <2>2, <2>4, <1>1, Appended
  <2> QED BY <2>3, <2>5 DEF Continues
<1>4. Stream(q \o <<m>>, h, n + 1, a \in executed, detached, recv[a], link[a], w)
  BY <1>3 DEF Stream, HeaderDue
<1>5. Shape(h, n + 1, a \in executed)
  BY <1>2 DEF Fits, Shape
<1> QED BY <1>2, <1>4, <1>5, NewMessage

(* enqueueCallResponse: Finished, without an error after the last chunk. *)
LEMMA FinishedSent ==
  ASSUME NEW a \in Attempts, NEW h \in Handles, NEW q \in Seq(Msgs),
         NEW m \in Msgs, NEW n \in 0..Chunks, w \in Seq(Attempts \X (1..Chunks)),
         Fits(a, h, q, n), h.eng # "none", h.sub = "answer",
         m.type = "finished", m.v = h.out \/ m.v = "err", Sendable(h, link[a])
  PROVE  Fits(a, h, q \o <<m>>, n)
<1>1. Len(w) \in Nat /\ Len(q) \in Nat /\ n \in Nat /\ Offset(q) \in {0, 1}
  BY FramesAssumption DEF Offset
<1>2. m.v = "ok" => a \in executed /\ n = Chunks
  BY DEF Fits, Shape
<1>3. ASSUME a \in executed, ~detached
      PROVE  /\ HeaderDue(q \o <<m>>, h, n)
             /\ recv[a] = "data" => /\ InOrder(q \o <<m>>, Len(w))
                                   /\ Continues(q \o <<m>>, h, n, link[a], Len(w))
  <2>1. HeaderDue(q \o <<m>>, h, n)
    BY <1>1, <1>3, Appended DEF Fits, Stream, HeaderDue
  <2>2. ASSUME recv[a] = "data" PROVE InOrder(q \o <<m>>, Len(w))
    <3>1. InOrder(q, Len(w))
      BY <2>2, <1>3 DEF Fits, Stream
    <3>2. Open(q, Len(q)) => n = Len(w) + Len(q) - Offset(q)
      BY <2>2, <1>3 DEF Fits, Stream, Continues
    <3>3. Open(q, Len(q)) /\ m.v = "ok" => Chunks = Len(w) + Len(q) - Offset(q)
      BY <3>2, <1>2
    <3> QED BY <3>1, <3>3, <1>1, InOrderAppended
  <2>3. ~Open(q \o <<m>>, Len(q \o <<m>>))
    BY Appended, OpenWhole
  <2> QED BY <2>1, <2>2, <2>3 DEF Continues
<1>4. Stream(q \o <<m>>, h, n, a \in executed, detached, recv[a], link[a], w)
  BY <1>3 DEF Stream
<1>5. Shape(h, n, a \in executed)
  BY DEF Fits
<1>6. m.v = "busy" => Refused(h, a \in executed)
  BY DEF Fits, BusyIsRefused
<1> QED BY <1>2, <1>4, <1>5, <1>6, NewMessage

(* EngageReturns: the status ends the stream. *)
LEMMA StatusSent ==
  ASSUME NEW a \in Attempts, NEW h \in Handles, NEW q \in Seq(Msgs),
         NEW m \in Msgs, NEW n, w \in Seq(Attempts \X (1..Chunks)),
         Fits(a, h, q, n), h.eng = "returned", m.type = "status",
         m.v = "busy" => Refused(h, a \in executed)
  PROVE  Fits(a, h, q \o <<m>>, n)
<1>1. Len(w) \in Nat
  OBVIOUS
<1>2. ASSUME a \in executed, ~detached, recv[a] = "data" PROVE InOrder(q \o <<m>>, Len(w))
  BY <1>1, <1>2, InOrderAppended DEF Fits, Stream
<1>3. Stream(q \o <<m>>, h, n, a \in executed, detached, recv[a], link[a], w)
  BY <1>2 DEF Stream, HeaderDue, Continues, Sendable
<1>4. Shape(h, n, a \in executed)
  BY DEF Fits
<1> QED BY <1>3, <1>4, NewMessage

(* What becomes of a message. *)
LEMMA Enqueues ==
  ASSUME NEW a \in Attempts, NEW h \in Handles, NEW m,
         NEW e \in enqueueMsg(h, m, link[a] = "up")
  PROVE  /\ e.h \in Handles /\ Alike(h, e.h)
         /\ e.h.sx \in {h.sx, "done"} /\ e.h.err \in {h.err, "err"}
         /\ \/ /\ e.msgs = <<m>> /\ e.ok /\ e.h = h
               /\ h.sx = "run" /\ link[a] = "up" /\ ~h.rctx
            \/ e.msgs = <<>> /\ e.ok /\ e.h.sx = "done"
            \/ e.msgs = <<>> /\ ~e.ok /\ e.h = h /\ sessionOver(h)
<1> DEFINE s == shutdown(h, "err")
           d == [s EXCEPT !.sx = "done"]
<1>1. s \in Handles /\ Alike(h, s) /\ s.err \in {h.err, "err"}
  BY ShutdownFields DEF Errors
<1> HIDE DEF s
<1>2. d \in Handles
  BY <1>1 DEF Handles
<1>3. Alike(h, d) /\ d.sx = "done" /\ d.err = s.err
  BY <1>1, HandleFields DEF Alike, IsRecord, FieldNames
<1> HIDE DEF d
<1>4. \/ e = [h |-> h, msgs |-> <<m>>, ok |-> TRUE] /\ h.sx = "run" /\ link[a] = "up" /\ ~h.rctx
      \/ e = [h |-> d, msgs |-> <<>>, ok |-> TRUE]
      \/ e = [h |-> h, msgs |-> <<>>, ok |-> FALSE] /\ sessionOver(h)
  BY DEF enqueueMsg, d, s
<1> QED BY <1>1, <1>2, <1>3, <1>4 DEF Alike

SentOrNot(a, h, m, e) ==
  /\ e.h \in Handles /\ Alike(h, e.h)
  /\ e.h.sx \in {h.sx, "done"} /\ e.h.err \in {h.err, "err"}
  /\ \/ /\ e.msgs = <<m>> /\ e.ok /\ e.h = h
        /\ h.sx = "run" /\ link[a] = "up" /\ ~h.rctx
     \/ e.msgs = <<>>

LEMMA EnqueuesStrict ==
  ASSUME NEW a \in Attempts, NEW h \in Handles, NEW m,
         NEW e \in enqueueMsgStrict(h, m, link[a] = "up")
  PROVE  SentOrNot(a, h, m, e)
<1> USE DEF SentOrNot
<1>1. PICK f \in enqueueMsg(h, m, link[a] = "up") :
        e = IF f.ok THEN f ELSE [f EXCEPT !.h = shutdown(f.h, "err")]
  BY DEF enqueueMsgStrict
<1>2. CASE f.ok
  BY <1>1, <1>2, Enqueues, ZenonT(40)
<1>3. CASE ~f.ok
  <2>1. f = [h |-> h, msgs |-> <<>>, ok |-> FALSE]
    BY <1>3 DEF enqueueMsg
  <2>2. e.h = shutdown(h, "err") /\ e.msgs = <<>>
    BY <1>1, <1>3, <2>1
  <2> QED BY <2>2, ShutdownFields DEF Errors
<1> QED BY <1>2, <1>3

LEMMA TailOf ==
  ASSUME NEW q \in Seq(Msgs), q # <<>>
  PROVE  /\ Tail(q) \in Seq(Msgs) /\ Len(Tail(q)) = Len(q) - 1 /\ Len(q) \in Nat \ {0}
         /\ \A i \in 1..Len(Tail(q)) : i + 1 \in 1..Len(q) /\ Tail(q)[i] = q[i + 1]
         /\ Head(q) = q[1] /\ q[1] \in Msgs
  OBVIOUS

LEMMA OpenTail ==
  ASSUME NEW q \in Seq(Msgs), q # <<>>, q[1].type \in {"start", "data"},
         NEW i \in 0..Len(Tail(q)), Open(Tail(q), i)
  PROVE  Open(q, i + 1)
<1> SUFFICES ASSUME NEW j \in 1..(i + 1) PROVE q[j].type \in {"start", "data"}
  BY DEF Open
<1>1. CASE j = 1
  BY <1>1
<1>2. CASE j # 1
  <2>1. j - 1 \in 1..i /\ j - 1 \in 1..Len(Tail(q)) /\ (j - 1) + 1 = j
    BY <1>2, TailOf
  <2>2. Tail(q)[j - 1] = q[j]
    BY <2>1, TailOf
  <2> QED BY <2>1, <2>2 DEF Open
<1> QED BY <1>1, <1>2

(* The header or the next chunk was received, and what follows is in order. *)
LEMMA InOrderTail ==
  ASSUME NEW q \in Seq(Msgs), q # <<>>, NEW l \in Nat, InOrder(q, l),
         q[1].type \in {"start", "data"}
  PROVE  /\ q[1].type = "start" => l = 0 /\ InOrder(Tail(q), l)
         /\ q[1].type = "data" => q[1].n = l + 1 /\ InOrder(Tail(q), l + 1)
         /\ Offset(Tail(q)) = 0 /\ (q[1].type = "start" <=> Offset(q) = 1)
         /\ Offset(q) \in {0, 1}
<1> DEFINE t == Tail(q)
           k == l + 1 - Offset(q)
<1>1. Len(t) = Len(q) - 1 /\ Len(q) \in Nat \ {0} /\ t \in Seq(Msgs)
  BY TailOf
<1>2. Offset(q) = IF q[1].type = "start" THEN 1 ELSE 0
  BY DEF Offset
<1>3. \A i \in 1..Len(t) : i + 1 \in 1..Len(q) /\ t[i] = q[i + 1]
  BY TailOf
<1>4. \A i \in 0..Len(t) : Open(t, i) => Open(q, i + 1)
  BY OpenTail
<1>5. Open(q, 1)
  BY DEF Open
<1> HIDE DEF t
<1>6. /\ q[1].type = "start" => l = 0
      /\ q[1].type = "data" => q[1].n = l + 1
  BY <1>1, <1>2, <1>5 DEF InOrder
<1>7. \A i \in 1..Len(t) : t[i].type = "start" => ~Open(t, i)
  BY <1>1, <1>3, <1>4 DEF InOrder
<1>8. Offset(t) = 0
  <2> SUFFICES ASSUME t # <<>>, t[1].type = "start" PROVE FALSE
    BY DEF Offset
  <2>1. 1 \in 1..Len(t)
    BY <1>1
  <2>2. Open(t, 1)
    BY DEF Open
  <2> QED BY <2>1, <2>2, <1>7
<1>9. InOrder(t, k)
  <2> SUFFICES ASSUME NEW i \in 1..Len(t)
               PROVE  /\ t[i].type = "data" /\ Open(t, i) => t[i].n = k + i - 0
                      /\ t[i].type = "finished" /\ t[i].v = "ok" /\ Open(t, i - 1) =>
                           Chunks = k + i - 1 - 0
    BY <1>7, <1>8 DEF InOrder
  <2>1. i + 1 \in 1..Len(q) /\ t[i] = q[i + 1] /\ i \in Nat
    BY <1>1, <1>3
  <2>2. t[i].type = "data" /\ Open(t, i) => t[i].n = l + (i + 1) - Offset(q)
    BY <2>1, <1>1, <1>4 DEF InOrder
  <2>3. ASSUME t[i].type = "finished", t[i].v = "ok", Open(t, i - 1)
        PROVE  Chunks = l + (i + 1) - 1 - Offset(q)
    <3>1. Open(q, (i - 1) + 1) /\ (i - 1) + 1 = (i + 1) - 1
      BY <2>3, <1>1, <1>4
    <3> QED BY <3>1, <2>1, <2>3 DEF InOrder
  <2> QED BY <2>1, <2>2, <2>3, <1>2
<1>10. (q[1].type = "start" => k = l) /\ (q[1].type = "data" => k = l + 1)
  BY <1>2
<1> HIDE DEF k
<1> QED BY <1>2, <1>6, <1>8, <1>9, <1>10 DEF t

(* What a lost stream leaves is at most its first message. *)
LEMMA PrefixOf ==
  ASSUME NEW q \in Seq(Msgs), NEW k \in {0, 1} \cap 0..Len(q)
  PROVE  /\ SubSeq(q, 1, k) \in Seq(Msgs) /\ Len(SubSeq(q, 1, k)) = k
         /\ k = 1 => q # <<>> /\ SubSeq(q, 1, k)[1] = q[1]
         /\ \A i \in 1..Len(SubSeq(q, 1, k)) : i = 1 /\ i \in 1..Len(q) /\ SubSeq(q, 1, k)[i] = q[i]
  OBVIOUS

LEMMA InOrderPrefix ==
  ASSUME NEW q \in Seq(Msgs), NEW k \in {0, 1} \cap 0..Len(q), NEW l, InOrder(q, l)
  PROVE  InOrder(SubSeq(q, 1, k), l)
<1> DEFINE p == SubSeq(q, 1, k)
<1>1. \A i \in 1..Len(p) : i = 1 /\ k = 1 /\ i \in 1..Len(q) /\ p[i] = q[i]
  BY PrefixOf
<1>2. k = 1 => p # <<>> /\ q # <<>> /\ p[1] = q[1]
  BY PrefixOf
<1> HIDE DEF p
<1>3. k = 1 => Offset(p) = Offset(q)
  BY <1>2 DEF Offset
<1>4. \A i \in 1..Len(p) : (Open(p, i) <=> Open(q, i)) /\ (Open(p, i - 1) <=> Open(q, i - 1))
  BY <1>1, <1>2 DEF Open
<1>5. InOrder(p, l)
  BY <1>1, <1>3, <1>4 DEF InOrder
<1> QED BY <1>5 DEF p

-----------------------------------------------------------------------------
(* Attempts.                                                               *)

(* The function runs, or may run, for this attempt. *)
Placed(a) == a \in executed \/ r[a].sub = "queued"

(* One attempt is placed, and nothing was sent to the caller before. *)
LEMMA OnePlaced ==
  ASSUME IInv, NEW a \in Attempts, NEW b \in Attempts, Placed(a), Placed(b)
  PROVE  a = b
<1>1. \A c \in Attempts : Placed(c) => try[c] # "idle" /\ try[c] # "notplaced"
  BY DEF IInv, AttemptInv, Fits, Placed, Untouched, NotPlaced, Refused, NoHandle
<1>2. a \in Nat /\ b \in Nat /\ a >= 1 /\ b >= 1
  BY AttemptsAssumption DEF Attempts
<1>3. ~(a < b) /\ ~(b < a)
  BY <1>1, <1>2 DEF IInv, InTurn
<1> QED BY <1>2, <1>3

LEMMA NothingSentYet ==
  ASSUME IInv, NEW a \in Attempts, r[a].sub = "queued"
  PROVE  executed = {} /\ w = <<>>
<1>1. a \notin executed
  BY DEF IInv, AttemptInv, Fits, Shape
<1>2. \A b \in Attempts : b \notin executed
  BY <1>1, OnePlaced DEF Placed
<1>3. executed = {}
  BY <1>2 DEF IInv, TypeOK
<1> QED BY <1>3 DEF IInv, OneAnswer

(* A step of one attempt keeps what the invariant says of the others. *)
LEMMA Framed ==
  ASSUME IInv, NEW a \in Attempts, TypeOK', InTurn', OneAnswer', AttemptInv(a)',
         detached' = detached, w' = w \/ a \in executed,
         \A b \in Attempts \ {a} :
           /\ try'[b] = try[b] /\ recv'[b] = recv[b] /\ recvDone'[b] = recvDone[b]
           /\ link'[b] = link[b] /\ toLB'[b] = toLB[b] /\ r'[b] = r[b]
           /\ wrote'[b] = wrote[b] /\ (b \in executed' <=> b \in executed)
  PROVE  IInv'
<1> SUFFICES ASSUME NEW b \in Attempts, b # a PROVE AttemptInv(b)'
  BY DEF IInv
<1>1. AttemptInv(b)
  BY DEF IInv
<1>2. /\ try'[b] = try[b] /\ recv'[b] = recv[b] /\ recvDone'[b] = recvDone[b]
      /\ link'[b] = link[b] /\ toLB'[b] = toLB[b] /\ r'[b] = r[b]
      /\ wrote'[b] = wrote[b] /\ (b \in executed' <=> b \in executed)
  OBVIOUS
<1>3. w' = w \/ b \notin executed
  BY OnePlaced DEF Placed
<1>4. Untouched(r[b], toLB[b], wrote[b], b \in executed, try[b], recv[b], recvDone[b])'
  BY <1>1, <1>2 DEF AttemptInv, Fits, Untouched
<1>5. Shape(r[b], wrote[b], b \in executed)' /\ NotPlaced(r[b], b \in executed, try[b])'
  BY <1>1, <1>2 DEF AttemptInv, Fits, Shape, NotPlaced, Refused
<1>6. BusyIsRefused(r[b], toLB[b], b \in executed, recvDone[b])'
  BY <1>1, <1>2 DEF AttemptInv, Fits, BusyIsRefused, Refused
<1>7. Carried(toLB[b], b \in executed, detached)'
  BY <1>1, <1>2 DEF AttemptInv, Fits, Carried
<1>8. Stream(toLB[b], r[b], wrote[b], b \in executed, detached, recv[b], link[b], w)'
  BY <1>1, <1>2, <1>3 DEF AttemptInv, Fits, Stream, HeaderDue, Continues, Sendable, InOrder, Open
<1>9. Result(b \in executed, detached, try[b], recv[b], recvDone[b], w)'
  BY <1>1, <1>2, <1>3 DEF AttemptInv, Fits, Result
<1> QED BY <1>4, <1>5, <1>6, <1>7, <1>8, <1>9 DEF AttemptInv, Fits

(* A step of the runner: the handle, what it sends, the chunks written. *)
LEMMA RunnerMoves ==
  ASSUME IInv, NEW a \in Attempts, NEW h \in Handles, NEW q \in Seq(Msgs), NEW n \in 0..Chunks,
         r' = [r EXCEPT ![a] = h] \/ SetHandle(a, h),
         toLB' = [toLB EXCEPT ![a] = q], wrote' = [wrote EXCEPT ![a] = n],
         toRunner' \in [Attempts -> Seq(0..Frames)],
         UNCHANGED <<detached, clientVars, link, executed, runs>>,
         Fits(a, h, q, n)
  PROVE  IInv'
<1> USE DEF clientVars
<1>1. PICK g \in Handles : r' = [r EXCEPT ![a] = g] /\ Fits(a, g, q, n)
  BY Forgotten, GoneIsHandle DEF SetHandle
<1>2. TypeOK
  BY DEF IInv
<1>3. TypeOK'
  BY <1>1, <1>2 DEF TypeOK
<1>4. InTurn' /\ OneAnswer'
  BY DEF IInv, InTurn, OneAnswer
<1>5. r'[a] = g /\ toLB'[a] = q /\ wrote'[a] = n
  BY <1>1, <1>2 DEF TypeOK
<1>6. Fits(a, g, q, n)'
  BY <1>1 DEF Fits
<1>7. AttemptInv(a)'
  BY <1>5, <1>6 DEF AttemptInv
<1>8. \A b \in Attempts \ {a} : r'[b] = r[b] /\ toLB'[b] = toLB[b] /\ wrote'[b] = wrote[b]
  BY <1>1, <1>2 DEF TypeOK
<1> QED BY <1>3, <1>4, <1>7, <1>8, Framed

LEMMA HandleMoves ==
  ASSUME IInv, NEW a \in Attempts, NEW h \in Handles,
         r' = [r EXCEPT ![a] = h] \/ SetHandle(a, h),
         toRunner' \in [Attempts -> Seq(0..Frames)],
         UNCHANGED <<detached, clientVars, link, toLB, wrote, executed, runs>>,
         Fits(a, h, toLB[a], wrote[a])
  PROVE  IInv'
<1>1. toLB' = [toLB EXCEPT ![a] = toLB[a]] /\ wrote' = [wrote EXCEPT ![a] = wrote[a]]
  BY DEF IInv, TypeOK
<1>2. toLB[a] \in Seq(Msgs) /\ wrote[a] \in 0..Chunks
  BY DEF IInv, TypeOK
<1> QED BY <1>1, <1>2, RunnerMoves

(* The steps that only change the handle, after Handle. *)
LEMMA HandleStep ==
  ASSUME IInv, NEW a \in Attempts, NEW h \in Handles, Handle(a, h), r[a].eng # "none",
         Passes(r[a], h) \/ Advances(r[a], h, wrote[a])
  PROVE  IInv'
<1>1. r[a] \in Handles /\ Fits(a, r[a], toLB[a], wrote[a])
  BY DEF IInv, TypeOK, AttemptInv
<1>2. Fits(a, h, toLB[a], wrote[a])
  BY <1>1, PassesOn, AdvancesOn
<1>3. toRunner' \in [Attempts -> Seq(0..Frames)]
  BY DEF Handle, IInv, TypeOK
<1> QED BY <1>2, <1>3, HandleMoves DEF Handle

(* What the invariant says of the handle of an attempt. *)
LEMMA HandleOf ==
  ASSUME IInv, NEW a \in Attempts
  PROVE  /\ r[a] \in Handles /\ IsRecord(r[a]) /\ Fields(r[a])
         /\ Fits(a, r[a], toLB[a], wrote[a])
         /\ r[a].eng = "none" => r[a] = NoHandle
  BY HandleFields DEF IInv, TypeOK, AttemptInv, Fits, Untouched

LEMMA FeedData == ASSUME IInv, NEW a \in Attempts, feedData(a) PROVE IInv'
<1>1. PICK h : /\ Handle(a, h) /\ r[a].eng = "feed"
               /\ \/ h = [r[a] EXCEPT !.px = "copy",
                                       !.eng = IF r[a].feed = Eof THEN "wait" ELSE "data"]
                  \/ h = [r[a] EXCEPT !.eng = "wait"]
  BY DEF feedData
<1>2. IsRecord(r[a]) /\ Fields(r[a])
  BY HandleOf
<1>3. IsRecord(h)
  BY <1>1, <1>2 DEF IsRecord
<1>4. Fields(h)
  BY <1>1, <1>2, ZenonT(40) DEF Fields, IsRecord, FieldNames
<1>5. Passes(r[a], h)
  BY <1>1, <1>2, ZenonT(40) DEF Passes, IsRecord, FieldNames
<1> QED BY <1>1, <1>3, <1>4, <1>5, HandleByFields, HandleStep

LEMMA ReceiverFails == ASSUME IInv, NEW a \in Attempts, receiverFails(a) PROVE IInv'
<1> DEFINE h == shutdown(r[a], "err")
<1>1. h \in Handles /\ Passes(r[a], h)
  BY HandleOf, ShutdownFields DEF Passes, Alike, Errors
<1>2. r[a].eng # "none"
  BY HandleOf DEF receiverFails, NoHandle
<1> QED BY <1>1, <1>2, HandleStep DEF receiverFails

LEMMA CopiedFields ==
  ASSUME NEW h \in Handles
  PROVE  copied(h) \in Handles /\ Passes(h, copied(h))
<1>1. IsRecord(h) /\ Fields(h)
  BY HandleFields
<1>2. CASE h.feed = Eof
  <2>1. PICK g : g = [h EXCEPT !.eofSeen = TRUE, !.px = "done", !.pipe = "closed", !.feed = 0]
    OBVIOUS
  <2>5. copied(h) = g
    BY <1>2, <2>1 DEF copied
  <2>2. IsRecord(g)
    BY <1>1, <2>1 DEF IsRecord
  <2>3. Fields(g)
    BY <1>1, <2>1, FramesAssumption DEF Fields, IsRecord, FieldNames
  <2>4. Passes(h, g)
    BY <1>1, <2>1 DEF Passes, IsRecord, FieldNames
  <2> QED BY <2>2, <2>3, <2>4, <2>5, HandleByFields
<1>3. CASE h.feed # Eof
  <2>1. PICK g : g = [h EXCEPT !.px = "idle", !.feed = 0]
    OBVIOUS
  <2>5. copied(h) = g
    BY <1>3, <2>1 DEF copied
  <2>2. IsRecord(g)
    BY <1>1, <2>1 DEF IsRecord
  <2>3. Fields(g)
    BY <1>1, <2>1, FramesAssumption DEF Fields, IsRecord, FieldNames
  <2>4. Passes(h, g)
    BY <1>1, <2>1 DEF Passes, IsRecord, FieldNames
  <2> QED BY <2>2, <2>3, <2>4, <2>5, HandleByFields
<1> QED BY <1>2, <1>3

(* The error of the handle cancels the submit. *)
LEMMA CallErrorFields ==
  ASSUME NEW h \in Handles, NEW e \in {"write", "premature"}
  PROVE  /\ enqueueCallErrorResponse(h, e) \in Handles
         /\ Alike(h, enqueueCallErrorResponse(h, e))
         /\ enqueueCallErrorResponse(h, e).sx = h.sx
         /\ enqueueCallErrorResponse(h, e).err = h.err
<1>1. IsRecord(h) /\ Fields(h)
  BY HandleFields
<1>2. PICK g : g = [h EXCEPT !.callErr = IF @ = "none" THEN e ELSE @, !.sctx = TRUE]
  OBVIOUS
<1>6. enqueueCallErrorResponse(h, e) = g
  BY <1>2 DEF enqueueCallErrorResponse
<1>3. IsRecord(g)
  BY <1>1, <1>2 DEF IsRecord
<1>4. Fields(g)
  BY <1>1, <1>2 DEF Fields, IsRecord, FieldNames
<1>5. Alike(h, g) /\ g.sx = h.sx /\ g.err = h.err
  BY <1>1, <1>2 DEF Alike, IsRecord, FieldNames
<1> QED BY <1>3, <1>4, <1>5, <1>6, HandleByFields

LEMMA PipeToFn == ASSUME IInv, NEW a \in Attempts, pipeToFn(a) PROVE IInv'
<1> DEFINE c == enqueueCallErrorResponse(r[a], "write")
<1>1. r[a].px \in {"copy", "idle"} /\ r[a].eng # "none"
  BY HandleOf DEF pipeToFn, NoHandle
<1>2. CASE Handle(a, copied(r[a]))
  BY <1>1, <1>2, HandleOf, CopiedFields, HandleStep
<1>3. CASE Handle(a, [c EXCEPT !.px = "done", !.pipe = "closed", !.feed = 0])
  <2>1. c \in Handles /\ Alike(r[a], c) /\ c.sx = r[a].sx /\ c.err = r[a].err
    BY HandleOf, CallErrorFields
  <2> HIDE DEF c
  <2>2. PICK g : g = [c EXCEPT !.px = "done", !.pipe = "closed", !.feed = 0]
    OBVIOUS
  <2>3. IsRecord(g)
    BY <2>1, <2>2, HandleFields DEF IsRecord
  <2>4. Fields(g) /\ Passes(r[a], g)
    BY <2>1, <2>2, HandleFields, FramesAssumption DEF Fields, Passes, Alike, IsRecord, FieldNames
  <2> QED BY <1>1, <1>3, <2>2, <2>3, <2>4, HandleByFields, HandleStep
<1>4. CASE Handle(a, [r[a] EXCEPT !.px = "done", !.pipe = "closed"])
  <2>1. IsRecord(r[a]) /\ Fields(r[a])
    BY HandleOf
  <2>2. PICK g : g = [r[a] EXCEPT !.px = "done", !.pipe = "closed"]
    OBVIOUS
  <2>3. IsRecord(g)
    BY <2>1, <2>2 DEF IsRecord
  <2>4. Fields(g)
    BY <2>1, <2>2 DEF Fields, IsRecord, FieldNames
  <2>5. Passes(r[a], g)
    BY <2>1, <2>2 DEF Passes, IsRecord, FieldNames
  <2> QED BY <1>1, <1>4, <2>2, <2>3, <2>4, <2>5, HandleByFields, HandleStep
<1> QED BY <1>2, <1>3, <1>4 DEF pipeToFn

LEMMA SubmitRefused == ASSUME IInv, NEW a \in Attempts, submitRefused(a) PROVE IInv'
<1>1. IsRecord(r[a]) /\ Fields(r[a])
  BY HandleOf
<1>2. PICK e \in Errors : Handle(a, [r[a] EXCEPT !.sub = "answer", !.out = e])
  BY DEF submitRefused
<1>3. PICK g : g = [r[a] EXCEPT !.sub = "answer", !.out = e]
  OBVIOUS
<1>4. IsRecord(g)
  BY <1>1, <1>3 DEF IsRecord
<1>5. Fields(g)
  BY <1>1, <1>3 DEF Fields, IsRecord, FieldNames
<1>6. r[a].sub = "queued" /\ r[a].eng # "none"
  BY HandleOf DEF submitRefused, NoHandle
<1>7. Advances(r[a], g, wrote[a])
  BY <1>1, <1>3, <1>6 DEF Advances, IsRecord, FieldNames
<1> QED BY <1>2, <1>3, <1>4, <1>5, <1>6, <1>7, HandleByFields, HandleStep

LEMMA FnReads == ASSUME IInv, NEW a \in Attempts, fnReads(a) PROVE IInv'
<1>1. r[a].sub = "run" /\ r[a].eng # "none"
  BY HandleOf DEF fnReads, NoHandle
<1>2. CASE Handle(a, copied(r[a]))
  BY <1>1, <1>2, HandleOf, CopiedFields, HandleStep
<1>3. CASE Handle(a, [r[a] EXCEPT !.reader = "closed"])
  <2>1. PICK g : g = [r[a] EXCEPT !.reader = "closed"]
    OBVIOUS
  <2>2. IsRecord(r[a]) /\ Fields(r[a])
    BY HandleOf
  <2>3. IsRecord(g)
    BY <2>1, <2>2 DEF IsRecord
  <2>4. Fields(g)
    BY <2>1, <2>2 DEF Fields, IsRecord, FieldNames
  <2>5. Passes(r[a], g)
    BY <2>1, <2>2 DEF Passes, IsRecord, FieldNames
  <2> QED BY <1>1, <1>3, <2>1, <2>3, <2>4, <2>5, HandleByFields, HandleStep
<1> QED BY <1>2, <1>3 DEF fnReads

LEMMA FnResponds == ASSUME IInv, NEW a \in Attempts, fnResponds(a) PROVE IInv'
<1>1. IsRecord(r[a]) /\ Fields(r[a])
  BY HandleOf
<1>2. PICK g : g = [r[a] EXCEPT !.wr = "head"]
  OBVIOUS
<1>3. IsRecord(g)
  BY <1>1, <1>2 DEF IsRecord
<1>4. Fields(g)
  BY <1>1, <1>2 DEF Fields, IsRecord, FieldNames
<1>5. r[a].sub = "run" /\ r[a].wr = "none" /\ r[a].eng # "none" /\ Handle(a, g)
  BY <1>2, HandleOf DEF fnResponds, NoHandle
<1>6. Advances(r[a], g, wrote[a])
  BY <1>1, <1>2, <1>5 DEF Advances, IsRecord, FieldNames
<1> QED BY <1>3, <1>4, <1>5, <1>6, HandleByFields, HandleStep

LEMMA WriteEnds == ASSUME IInv, NEW a \in Attempts, writeEnds(a) PROVE IInv'
<1>1. IsRecord(r[a]) /\ Fields(r[a])
  BY HandleOf
<1>2. PICK v \in {"ok", "err"} :
        Handle(a, [r[a] EXCEPT !.wr = v]) /\ (v = "ok" => wrote[a] = Chunks)
  BY DEF writeEnds
<1>3. PICK g : g = [r[a] EXCEPT !.wr = v]
  OBVIOUS
<1>4. IsRecord(g)
  BY <1>1, <1>3 DEF IsRecord
<1>5. Fields(g)
  BY <1>1, <1>3 DEF Fields, IsRecord, FieldNames
<1>6. r[a].wr = "body" /\ r[a].eng # "none"
  BY HandleOf DEF writeEnds, NoHandle
<1>7. Advances(r[a], g, wrote[a])
  BY <1>1, <1>2, <1>3, <1>6 DEF Advances, IsRecord, FieldNames
<1> QED BY <1>2, <1>3, <1>4, <1>5, <1>6, <1>7, HandleByFields, HandleStep

LEMMA SubmitReturns == ASSUME IInv, NEW a \in Attempts, submitReturns(a) PROVE IInv'
<1>1. IsRecord(r[a]) /\ Fields(r[a])
  BY HandleOf
<1>2. PICK o \in {"ok", "err"} :
        /\ o = "ok" => r[a].wr = "ok"
        /\ Handle(a, [r[a] EXCEPT !.sub = "answer", !.out = o, !.reader = "closed"])
  BY DEF submitReturns
<1>3. PICK g : g = [r[a] EXCEPT !.sub = "answer", !.out = o, !.reader = "closed"]
  OBVIOUS
<1>4. IsRecord(g)
  BY <1>1, <1>3 DEF IsRecord
<1>5. Fields(g)
  BY <1>1, <1>3 DEF Fields, IsRecord, FieldNames, Errors
<1>6. r[a].sub = "run" /\ r[a].eng # "none"
  BY HandleOf DEF submitReturns, NoHandle
<1>7. Advances(r[a], g, wrote[a])
  BY <1>1, <1>2, <1>3, <1>6 DEF Advances, IsRecord, FieldNames
<1> QED BY <1>2, <1>3, <1>4, <1>5, <1>6, <1>7, HandleByFields, HandleStep

LEMMA Finalize == ASSUME IInv, NEW a \in Attempts, finalize(a) PROVE IInv'
<1>1. PICK h \in enqueueNil(r[a]) : Handle(a, [h EXCEPT !.sub = "done"])
  BY DEF finalize
<1>2. r[a] \in Handles /\ r[a].sub = "final" /\ r[a].eng # "none"
  BY HandleOf DEF finalize, NoHandle
<1>3. h \in Handles /\ Alike(r[a], h) /\ h.sx \in {r[a].sx, "done"} /\ h.err \in {r[a].err, "none", "err"}
  <2> DEFINE s == shutdown(r[a], "none")
  <2>1. s \in Handles /\ Alike(r[a], s) /\ s.err \in {r[a].err, "none"}
    BY <1>2, ShutdownFields
  <2>2. CASE h = [s EXCEPT !.sx = "done"]
    <3> HIDE DEF s
    <3>1. IsRecord(s) /\ Fields(s)
      BY <2>1, HandleFields
    <3>2. IsRecord(h)
      BY <3>1, <2>2 DEF IsRecord
    <3>3. Fields(h)
      BY <3>1, <2>2 DEF Fields, IsRecord, FieldNames
    <3>4. Alike(s, h) /\ h.sx = "done" /\ h.err = s.err
      BY <3>1, <2>2 DEF Alike, IsRecord, FieldNames
    <3> QED BY <3>2, <3>3, <3>4, <2>1, HandleByFields DEF Alike
  <2>3. CASE h = shutdown(r[a], "err")
    BY <2>3, <1>2, ShutdownFields DEF Errors
  <2> QED BY <1>1, <2>2, <2>3 DEF enqueueNil
<1>4. PICK g : g = [h EXCEPT !.sub = "done"]
  OBVIOUS
<1>5. IsRecord(h) /\ Fields(h)
  BY <1>3, HandleFields
<1>6. IsRecord(g)
  BY <1>4, <1>5 DEF IsRecord
<1>7. Fields(g)
  BY <1>4, <1>5 DEF Fields, IsRecord, FieldNames
<1>8. Advances(r[a], g, wrote[a])
  BY <1>2, <1>3, <1>4, <1>5 DEF Advances, Alike, IsRecord, FieldNames
<1> QED BY <1>1, <1>2, <1>4, <1>6, <1>7, <1>8, HandleByFields, HandleStep

LEMMA ContextDone == ASSUME IInv, NEW a \in Attempts, EngagementDone(a) PROVE IInv'
<1>1. IsRecord(r[a]) /\ Fields(r[a])
  BY HandleOf
<1>2. PICK g : g = [r[a] EXCEPT !.rctx = TRUE, !.sctx = TRUE]
  OBVIOUS
<1>3. IsRecord(g)
  BY <1>1, <1>2 DEF IsRecord
<1>4. Fields(g)
  BY <1>1, <1>2 DEF Fields, IsRecord, FieldNames
<1>5. Passes(r[a], g)
  BY <1>1, <1>2 DEF Passes, IsRecord, FieldNames
<1>6. r[a].eng # "none" /\ Handle(a, g)
  BY <1>2 DEF EngagementDone
<1> QED BY <1>3, <1>4, <1>5, <1>6, HandleByFields, HandleStep

LEMMA HeadTail ==
  ASSUME NEW S, NEW q \in Seq(S), q # <<>>
  PROVE  Head(q) \in S /\ Tail(q) \in Seq(S)
  OBVIOUS

LEMMA PrefixIn ==
  ASSUME NEW S, NEW q \in Seq(S), NEW j \in 0..Len(q)
  PROVE  SubSeq(q, 1, j) \in Seq(S)
  OBVIOUS

LEMMA GetTryMsg == ASSUME IInv, NEW a \in Attempts, getTryMsg(a) PROVE IInv'
<1>1. IsRecord(r[a]) /\ Fields(r[a]) /\ r[a] \in Handles /\ Fits(a, r[a], toLB[a], wrote[a])
  BY HandleOf
<1>2. r[a].eng = "try"
  BY DEF getTryMsg
<1>3. toRunner' \in [Attempts -> Seq(0..Frames)]
  <2>1. toRunner \in [Attempts -> Seq(0..Frames)]
    BY DEF IInv, TypeOK
  <2>2. toRunner[a] # <<>> => Tail(toRunner[a]) \in Seq(0..Frames)
    BY <2>1
  <2> QED BY <2>1, <2>2 DEF getTryMsg
<1>4. UNCHANGED <<detached, clientVars, link, toLB, wrote, executed, runs>>
  BY DEF getTryMsg
<1>5. CASE r' = [r EXCEPT ![a] = [r[a] EXCEPT !.eng = "data", !.px = "idle", !.sub = "queued"]]
  <2>1. PICK g : g = [r[a] EXCEPT !.eng = "data", !.px = "idle", !.sub = "queued"]
    OBVIOUS
  <2>2. IsRecord(g)
    BY <1>1, <2>1 DEF IsRecord
  <2>3. Fields(g)
    BY <1>1, <2>1 DEF Fields, IsRecord, FieldNames
  <2>4. /\ g.sx = r[a].sx /\ g.wr = r[a].wr /\ g.rctx = r[a].rctx
        /\ g.eng = "data" /\ g.sub = "queued" /\ g.out = r[a].out /\ g.err = r[a].err
    BY <1>1, <2>1 DEF IsRecord, FieldNames
  <2>5. g \in Handles /\ Fits(a, g, toLB[a], wrote[a])
    BY <1>1, <1>2, <2>2, <2>3, <2>4, HandleByFields, Tried
  <2> QED BY <1>3, <1>4, <1>5, <2>1, <2>5, HandleMoves
<1>6. CASE r' = [r EXCEPT ![a] = [r[a] EXCEPT !.eng = "reject", !.out = "err", !.sub = "answer"]]
  <2>1. PICK g : g = [r[a] EXCEPT !.eng = "reject", !.out = "err", !.sub = "answer"]
    OBVIOUS
  <2>2. IsRecord(g)
    BY <1>1, <2>1 DEF IsRecord
  <2>3. Fields(g)
    BY <1>1, <2>1 DEF Fields, IsRecord, FieldNames, Errors
  <2>4. /\ g.sx = r[a].sx /\ g.wr = r[a].wr /\ g.rctx = r[a].rctx
        /\ g.eng = "reject" /\ g.sub = "answer" /\ g.out = "err" /\ g.err = r[a].err
    BY <1>1, <2>1 DEF IsRecord, FieldNames
  <2>5. g \in Handles /\ Fits(a, g, toLB[a], wrote[a])
    BY <1>1, <1>2, <2>2, <2>3, <2>4, HandleByFields, Tried
  <2> QED BY <1>3, <1>4, <1>6, <2>1, <2>5, HandleMoves
<1>7. ASSUME NEW e \in Errors, r' = [r EXCEPT ![a] = [shutdown(r[a], e) EXCEPT !.eng = "wait"]]
      PROVE  IInv'
  <2> DEFINE s == shutdown(r[a], e)
  <2>1. s \in Handles /\ Alike(r[a], s) /\ s.sx = r[a].sx
    BY <1>1, ShutdownFields
  <2>2. PICK g : g = [s EXCEPT !.eng = "wait"]
    OBVIOUS
  <2>3. r' = [r EXCEPT ![a] = g]
    BY <1>7, <2>2
  <2> HIDE DEF s
  <2>4. IsRecord(s) /\ Fields(s)
    BY <2>1, HandleFields
  <2>5. IsRecord(g)
    BY <2>2, <2>4 DEF IsRecord
  <2>6. Fields(g)
    BY <2>2, <2>4 DEF Fields, IsRecord, FieldNames
  <2>7. /\ g.sx = s.sx /\ g.wr = s.wr /\ g.rctx = s.rctx
        /\ g.eng = "wait" /\ g.sub = s.sub /\ g.out = s.out
    BY <2>2, <2>4 DEF IsRecord, FieldNames
  <2>8. g \in Handles /\ Fits(a, g, toLB[a], wrote[a])
    BY <1>1, <1>2, <2>1, <2>5, <2>6, <2>7, HandleByFields, Tried DEF Alike
  <2> QED BY <1>3, <1>4, <2>3, <2>8, HandleMoves
<1>8. \/ r' = [r EXCEPT ![a] = [r[a] EXCEPT !.eng = "data", !.px = "idle", !.sub = "queued"]]
      \/ r' = [r EXCEPT ![a] = [r[a] EXCEPT !.eng = "reject", !.out = "err", !.sub = "answer"]]
      \/ r' = [r EXCEPT ![a] = [shutdown(r[a], "busy") EXCEPT !.eng = "wait"]]
      \/ r' = [r EXCEPT ![a] = [shutdown(r[a], "err") EXCEPT !.eng = "wait"]]
  BY DEF getTryMsg, handleTryCall
<1> QED BY <1>5, <1>6, <1>7, <1>8 DEF Errors

LEMMA GetDataMsg == ASSUME IInv, NEW a \in Attempts, getDataMsg(a) PROVE IInv'
<1>1. IsRecord(r[a]) /\ Fields(r[a]) /\ r[a] \in Handles /\ Fits(a, r[a], toLB[a], wrote[a])
  BY HandleOf
<1>2. r[a].eng = "data"
  BY DEF getDataMsg
<1>3. toRunner \in [Attempts -> Seq(0..Frames)]
  BY DEF IInv, TypeOK
<1>4. toRunner[a] # <<>> => Tail(toRunner[a]) \in Seq(0..Frames) /\ Head(toRunner[a]) \in 0..Frames
  BY <1>3, HeadTail
<1>5. toRunner' \in [Attempts -> Seq(0..Frames)]
  BY <1>3, <1>4 DEF getDataMsg
<1>6. UNCHANGED <<detached, clientVars, link, toLB, wrote, executed, runs>>
  BY DEF getDataMsg
<1>7. ASSUME NEW v \in 0..Frames, r' = [r EXCEPT ![a] = [r[a] EXCEPT !.eng = "feed", !.feed = v]]
      PROVE  IInv'
  <2>1. PICK g : g = [r[a] EXCEPT !.eng = "feed", !.feed = v]
    OBVIOUS
  <2>2. IsRecord(g)
    BY <1>1, <2>1 DEF IsRecord
  <2>3. Fields(g)
    BY <1>1, <2>1 DEF Fields, IsRecord, FieldNames
  <2>4. Passes(r[a], g)
    BY <1>1, <1>2, <2>1 DEF Passes, IsRecord, FieldNames
  <2>5. g \in Handles /\ Fits(a, g, toLB[a], wrote[a])
    BY <1>1, <1>2, <2>2, <2>3, <2>4, HandleByFields, PassesOn
  <2> QED BY <1>5, <1>6, <1>7, <2>1, <2>5, HandleMoves
<1>8. CASE r' = [r EXCEPT ![a] = [shutdown(r[a], "err") EXCEPT !.eng = "wait"]]
  <2> DEFINE s == shutdown(r[a], "err")
  <2>1. s \in Handles /\ Alike(r[a], s) /\ s.sx = r[a].sx /\ s.err \in {r[a].err, "err"}
    BY <1>1, ShutdownFields DEF Errors
  <2>2. PICK g : g = [s EXCEPT !.eng = "wait"]
    OBVIOUS
  <2>3. r' = [r EXCEPT ![a] = g]
    BY <1>8, <2>2
  <2> HIDE DEF s
  <2>4. IsRecord(s) /\ Fields(s)
    BY <2>1, HandleFields
  <2>5. IsRecord(g)
    BY <2>2, <2>4 DEF IsRecord
  <2>6. Fields(g)
    BY <2>2, <2>4 DEF Fields, IsRecord, FieldNames
  <2>7. Passes(r[a], g)
    BY <1>2, <2>1, <2>2, <2>4 DEF Passes, Alike, IsRecord, FieldNames
  <2>8. g \in Handles /\ Fits(a, g, toLB[a], wrote[a])
    BY <1>1, <1>2, <2>5, <2>6, <2>7, HandleByFields, PassesOn
  <2> QED BY <1>5, <1>6, <2>3, <2>8, HandleMoves
<1> QED BY <1>4, <1>7, <1>8 DEF getDataMsg

(* A step that sends at most one message. *)
LEMMA EnqueueStep ==
  ASSUME IInv, NEW a \in Attempts, NEW h \in Handles, NEW e, NEW n \in 0..Chunks,
         Enqueued(a, e, h), wrote' = [wrote EXCEPT ![a] = n],
         UNCHANGED <<detached, clientVars, link, toRunner, executed, runs>>,
         \/ e.msgs = <<>> /\ Fits(a, h, toLB[a], n)
         \/ \E m \in Msgs : e.msgs = <<m>> /\ Fits(a, h, toLB[a] \o <<m>>, n)
  PROVE  IInv'
<1>1. toLB[a] \in Seq(Msgs) /\ toRunner' \in [Attempts -> Seq(0..Frames)]
  BY DEF IInv, TypeOK
<1>2. PICK q \in Seq(Msgs) : q = toLB[a] \o e.msgs /\ Fits(a, h, q, n)
  BY <1>1, Nothing, Appended
<1>3. SetHandle(a, h)
  BY DEF Enqueued
<1>4. CASE recv[a] \in {"off", "done"}
  <2>1. Fits(a, h, <<>>, n) /\ <<>> \in Seq(Msgs)
    BY <1>1, <1>2, <1>4, Unheard, Nothing
  <2>2. toLB' = [toLB EXCEPT ![a] = <<>>]
    BY <1>4 DEF Enqueued
  <2> QED BY <1>1, <1>3, <2>1, <2>2, RunnerMoves
<1>5. CASE recv[a] \notin {"off", "done"}
  <2>1. toLB' = [toLB EXCEPT ![a] = q]
    BY <1>2, <1>5 DEF Enqueued
  <2> QED BY <1>1, <1>2, <1>3, <2>1, RunnerMoves
<1> QED BY <1>4, <1>5

LEMMA EngagementReturns == ASSUME IInv, NEW a \in Attempts, EngageReturns(a) PROVE IInv'
<1> DEFINE m == [type |-> "status", v |-> waitError(r[a])]
<1>1. IsRecord(r[a]) /\ Fields(r[a]) /\ r[a] \in Handles /\ Fits(a, r[a], toLB[a], wrote[a])
  BY HandleOf
<1>2. r[a].eng = "wait" \/ (r[a].eng = "reject" /\ r[a].sub = "done")
  BY DEF EngageReturns
<1>3. PICK g : g = [r[a] EXCEPT !.eng = "returned", !.err = "none", !.rctx = TRUE, !.sctx = TRUE]
  OBVIOUS
<1>4. IsRecord(g)
  BY <1>1, <1>3 DEF IsRecord
<1>5. Fields(g)
  BY <1>1, <1>3 DEF Fields, IsRecord, FieldNames
<1>6. /\ g.eng = "returned" /\ g.err = "none" /\ g.rctx = TRUE /\ g.sx = r[a].sx
      /\ g.sub = r[a].sub /\ g.out = r[a].out /\ g.wr = r[a].wr
  BY <1>1, <1>3 DEF IsRecord, FieldNames
<1>7. Refused(r[a], a \in executed) => Refused(g, a \in executed)
  BY <1>2, <1>6 DEF Refused
<1>8. Shape(g, wrote[a], a \in executed)
  BY <1>1, <1>2, <1>6 DEF Fits, Shape
<1>9. g.out = "busy" \/ g.err = "busy" => Refused(g, a \in executed)
  BY <1>1, <1>6, <1>7 DEF Fits, BusyIsRefused
<1>10. g \in Handles /\ Fits(a, g, toLB[a], wrote[a])
  BY <1>1, <1>2, <1>4, <1>5, <1>6, <1>7, <1>8, <1>9, HandleByFields, NewHandle DEF Sendable
<1>11. m \in Msgs /\ m.type = "status"
  BY <1>1 DEF Msgs, waitError, Fields, Errors
<1>12. m.v = "busy" => Refused(g, a \in executed)
  BY <1>1, <1>7 DEF waitError, Fits, BusyIsRefused
<1> HIDE DEF m
<1>13. w \in Seq(Attempts \X (1..Chunks)) /\ toLB[a] \in Seq(Msgs) /\ wrote[a] \in 0..Chunks
  BY DEF IInv, TypeOK
<1>14. Fits(a, g, toLB[a] \o <<m>>, wrote[a])
  BY <1>6, <1>10, <1>11, <1>12, <1>13, StatusSent
<1>15. PICK q \in Seq(Msgs) : Fits(a, g, q, wrote[a]) /\ toLB' = [toLB EXCEPT ![a] = q]
  <2>1. CASE link[a] # "up" \/ recv[a] \in {"off", "done"}
    BY <2>1, <1>10, <1>13 DEF EngageReturns
  <2>2. CASE ~(link[a] # "up" \/ recv[a] \in {"off", "done"})
    <3>1. toLB' = [toLB EXCEPT ![a] = toLB[a] \o <<m>>]
      BY <2>2, <1>11, <1>13, Appended DEF EngageReturns, m
    <3> QED BY <3>1, <1>11, <1>13, <1>14, Appended
  <2> QED BY <2>1, <2>2
<1>16. /\ SetHandle(a, g) /\ wrote' = [wrote EXCEPT ![a] = wrote[a]]
       /\ toRunner' \in [Attempts -> Seq(0..Frames)]
       /\ UNCHANGED <<detached, clientVars, link, executed, runs>>
  BY <1>3 DEF EngageReturns, IInv, TypeOK
<1> QED BY <1>10, <1>13, <1>15, <1>16, RunnerMoves

LEMMA HeaderWritten == ASSUME IInv, NEW a \in Attempts, WriteHeader(a) PROVE IInv'
<1>1. IsRecord(r[a]) /\ Fields(r[a]) /\ r[a] \in Handles /\ Fits(a, r[a], toLB[a], wrote[a])
  BY HandleOf
<1>9. r[a].wr = "head"
  BY DEF WriteHeader
<1>2. r[a].wr = "head" /\ r[a].eng # "none"
  BY <1>9, HandleOf DEF NoHandle
<1>3. UNCHANGED <<detached, clientVars, link, toRunner, wrote, executed, runs>>
  BY DEF WriteHeader
<1>4. /\ toRunner' \in [Attempts -> Seq(0..Frames)] /\ wrote[a] \in 0..Chunks
      /\ w \in Seq(Attempts \X (1..Chunks)) /\ toLB[a] \in Seq(Msgs)
      /\ wrote' = [wrote EXCEPT ![a] = wrote[a]]
  BY <1>3 DEF IInv, TypeOK
(* The handle once the header is written, or refused. *)
<1>5. ASSUME NEW g \in Handles, NEW b \in Handles, Alike(r[a], b),
             b.sx \in {r[a].sx, "done"}, b.err \in {r[a].err, "err"}, g.wr = "body",
             g.eng = b.eng, g.sub = b.sub, g.out = b.out, g.rctx = b.rctx, g.sx = b.sx, g.err = b.err
      PROVE  Fits(a, g, toLB[a], wrote[a])
  <2> USE <1>5 DEF Alike
  <2>1. Shape(g, wrote[a], a \in executed)
    BY <1>1, <1>2 DEF Fits, Shape
  <2>2. Refused(r[a], a \in executed) => Refused(g, a \in executed)
    BY DEF Refused
  <2>3. g.out = "busy" \/ g.err = "busy" => Refused(g, a \in executed)
    BY <1>1, <2>2 DEF Fits, BusyIsRefused
  <2>4. Sendable(g, link[a]) => Sendable(r[a], link[a])
    BY DEF Sendable
  <2> QED BY <1>1, <1>2, <2>1, <2>2, <2>3, <2>4, NewHandle
<1>6. CASE ~mayWriteOK(r[a])
  <2> DEFINE c == enqueueCallErrorResponse(r[a], "premature")
  <2>1. c \in Handles /\ Alike(r[a], c) /\ c.sx = r[a].sx /\ c.err = r[a].err
    BY <1>1, CallErrorFields
  <2>2. r' = [r EXCEPT ![a] = [c EXCEPT !.wr = "body"]] /\ UNCHANGED toLB
    BY <1>6 DEF WriteHeader
  <2> HIDE DEF c
  <2>3. PICK g : g = [c EXCEPT !.wr = "body"]
    OBVIOUS
  <2>4. g \in Handles
    BY <2>1, <2>3 DEF Handles
  <2>5. /\ g.wr = "body" /\ g.eng = c.eng /\ g.sub = c.sub /\ g.out = c.out
        /\ g.rctx = c.rctx /\ g.sx = c.sx /\ g.err = c.err
    BY <2>1, <2>3, HandleFields DEF IsRecord, FieldNames
  <2>6. Fits(a, g, toLB[a], wrote[a])
    BY <2>1, <2>4, <2>5, <1>5
  <2> QED BY <2>2, <2>3, <2>4, <2>6, <1>3, <1>4, HandleMoves
<1>7. CASE mayWriteOK(r[a]) /\ r[a].header
  <2>1. PICK g : g = [r[a] EXCEPT !.wr = "body"]
    OBVIOUS
  <2>2. r' = [r EXCEPT ![a] = g] /\ UNCHANGED toLB
    BY <1>7, <2>1 DEF WriteHeader
  <2>3. g \in Handles
    BY <1>1, <2>1 DEF Handles
  <2>4. /\ g.wr = "body" /\ g.eng = r[a].eng /\ g.sub = r[a].sub /\ g.out = r[a].out
        /\ g.rctx = r[a].rctx /\ g.sx = r[a].sx /\ g.err = r[a].err
    BY <1>1, <2>1 DEF IsRecord, FieldNames
  <2>5. Fits(a, g, toLB[a], wrote[a])
    BY <2>3, <2>4, <1>1, <1>5 DEF Alike
  <2> QED BY <2>2, <2>3, <2>5, <1>3, <1>4, HandleMoves
<1>8. CASE mayWriteOK(r[a]) /\ ~r[a].header
  <2> DEFINE m == [type |-> "start"]
  <2>1. PICK e \in enqueueMsgStrict(r[a], m, link[a] = "up") :
          Enqueued(a, e, [e.h EXCEPT !.wr = "body", !.header = TRUE])
    BY <1>8 DEF WriteHeader
  <2>2. m \in Msgs /\ m.type = "start"
    BY DEF Msgs
  <2> HIDE DEF m
  <2>14. SentOrNot(a, r[a], m, e)
    BY <1>1, <2>1, EnqueuesStrict
  <2>3. /\ e.h \in Handles /\ Alike(r[a], e.h)
        /\ e.h.sx \in {r[a].sx, "done"} /\ e.h.err \in {r[a].err, "err"}
        /\ \/ e.msgs = <<m>> /\ r[a].sx = "run" /\ link[a] = "up" /\ ~r[a].rctx
           \/ e.msgs = <<>>
    BY <2>14 DEF SentOrNot
  <2>4. PICK b : b = e.h
    OBVIOUS
  <2>5. PICK g : g = [b EXCEPT !.wr = "body", !.header = TRUE]
    OBVIOUS
  <2>6. IsRecord(b) /\ Fields(b)
    BY <2>3, <2>4, HandleFields
  <2>7. IsRecord(g)
    BY <2>5, <2>6 DEF IsRecord
  <2>8. Fields(g)
    BY <2>5, <2>6 DEF Fields, IsRecord, FieldNames
  <2>9. /\ g.wr = "body" /\ g.eng = b.eng /\ g.sub = b.sub /\ g.out = b.out
        /\ g.rctx = b.rctx /\ g.sx = b.sx /\ g.err = b.err
    BY <2>5, <2>6 DEF IsRecord, FieldNames
  <2>10. g \in Handles /\ Fits(a, g, toLB[a], wrote[a])
    BY <2>3, <2>4, <2>7, <2>8, <2>9, <1>5, HandleByFields
  <2>11. e.msgs = <<m>> => Sendable(r[a], link[a])
    <3>1. r[a].eng = "returned" => r[a].rctx
      BY <1>1, <1>2 DEF Fits, Shape
    <3>2. e.msgs = <<m>> => r[a].sx = "run" /\ link[a] = "up" /\ ~r[a].rctx
      BY <2>3
    <3> QED BY <3>1, <3>2 DEF Sendable
  <2>12. e.msgs = <<m>> => Fits(a, g, toLB[a] \o <<m>>, wrote[a])
    BY <1>1, <1>2, <1>4, <2>2, <2>3, <2>4, <2>9, <2>10, <2>11, HeaderSent DEF Alike
  <2>13. Enqueued(a, e, g)
    BY <2>1, <2>4, <2>5
  <2> QED BY <1>3, <1>4, <2>2, <2>3, <2>10, <2>12, <2>13, EnqueueStep
<1> QED BY <1>6, <1>7, <1>8

(* A chunk that is thrown away or lost. *)
LEMMA ChunkDropped ==
  ASSUME NEW a \in Attempts, NEW h \in Handles, NEW q, NEW n, Fits(a, h, q, n),
         h.eng # "none", h.wr = "body", detached \/ ~Sendable(h, link[a])
  PROVE  Fits(a, h, q, n + 1)
<1>1. Untouched(h, q, n + 1, a \in executed, try[a], recv[a], recvDone[a])
  BY DEF Fits, Untouched, NoHandle
<1>2. Shape(h, n + 1, a \in executed)
  BY DEF Fits, Shape
<1>3. Stream(q, h, n + 1, a \in executed, detached, recv[a], link[a], w)
  BY DEF Fits, Stream, HeaderDue, Continues
<1> QED BY <1>1, <1>2, <1>3 DEF Fits

LEMMA ChunkWritten == ASSUME IInv, NEW a \in Attempts, Write(a) PROVE IInv'
<1>1. IsRecord(r[a]) /\ Fields(r[a]) /\ r[a] \in Handles /\ Fits(a, r[a], toLB[a], wrote[a])
  BY HandleOf
<1>2. r[a].wr = "body" /\ wrote[a] < Chunks
  BY DEF Write
<1>3. r[a].eng # "none"
  BY <1>2, HandleOf DEF NoHandle
<1>4. UNCHANGED <<detached, clientVars, link, toRunner, executed, runs>>
  BY DEF Write
<1>5. /\ toRunner' \in [Attempts -> Seq(0..Frames)] /\ wrote[a] \in 0..Chunks
      /\ w \in Seq(Attempts \X (1..Chunks)) /\ toLB[a] \in Seq(Msgs)
      /\ r = [r EXCEPT ![a] = r[a]] /\ toLB = [toLB EXCEPT ![a] = toLB[a]]
      /\ wrote = [wrote EXCEPT ![a] = wrote[a]]
  BY <1>4 DEF IInv, TypeOK
<1>6. wrote[a] + 1 \in 1..Chunks /\ wrote[a] + 1 \in 0..Chunks
  BY <1>2, <1>5, FramesAssumption
<1>7. CASE detached
  <2>1. wrote' = [wrote EXCEPT ![a] = wrote[a] + 1] /\ r' = r /\ toLB' = toLB
    BY <1>7 DEF Write
  <2>2. Fits(a, r[a], toLB[a], wrote[a] + 1)
    BY <1>1, <1>2, <1>3, <1>7, ChunkDropped
  <2> QED BY <1>1, <1>4, <1>5, <1>6, <2>1, <2>2, RunnerMoves
<1>8. CASE ~detached /\ (r[a].sctx \/ sessionOver(r[a]))
  <2>1. PICK g : g = [r[a] EXCEPT !.wr = "err"]
    OBVIOUS
  <2>2. SetHandle(a, g) /\ UNCHANGED <<toLB, wrote>>
    BY <1>8, <2>1 DEF Write
  <2>3. g \in Handles
    BY <1>1, <2>1 DEF Handles
  <2>4. Advances(r[a], g, wrote[a])
    BY <1>1, <1>2, <2>1 DEF Advances, IsRecord, FieldNames
  <2>5. Fits(a, g, toLB[a], wrote[a])
    BY <1>1, <1>3, <2>3, <2>4, AdvancesOn
  <2> QED BY <1>4, <1>5, <2>2, <2>3, <2>5, HandleMoves
<1>9. CASE ~detached /\ ~(r[a].sctx \/ sessionOver(r[a]))
  <2> DEFINE m == [type |-> "data", n |-> wrote[a] + 1]
  <2>1. PICK e \in enqueueMsg(r[a], m, link[a] = "up") :
          /\ Enqueued(a, e, [e.h EXCEPT !.wr = IF e.ok THEN @ ELSE "err"])
          /\ wrote' = [wrote EXCEPT ![a] = IF e.ok THEN @ + 1 ELSE @]
    BY <1>9 DEF Write
  <2>2. m \in Msgs /\ m.type = "data" /\ m.n = wrote[a] + 1
    BY <1>6 DEF Msgs
  <2> HIDE DEF m
  <2>3. /\ e.h \in Handles /\ Alike(r[a], e.h)
        /\ e.h.sx \in {r[a].sx, "done"} /\ e.h.err \in {r[a].err, "err"}
        /\ \/ /\ e.msgs = <<m>> /\ e.ok /\ e.h = r[a]
              /\ r[a].sx = "run" /\ link[a] = "up" /\ ~r[a].rctx
           \/ e.msgs = <<>> /\ e.ok /\ e.h.sx = "done"
           \/ e.msgs = <<>> /\ ~e.ok /\ e.h = r[a] /\ sessionOver(r[a])
    BY <1>1, <2>1, Enqueues
  <2>4. e.ok
    BY <1>9, <2>3
  <2>5. Enqueued(a, e, e.h) /\ wrote' = [wrote EXCEPT ![a] = wrote[a] + 1]
    <3>1. [e.h EXCEPT !.wr = e.h.wr] = e.h
      BY <2>3, HandleFields DEF IsRecord
    <3> QED BY <2>1, <2>4, <3>1
  <2>6. Passes(r[a], e.h)
    BY <2>3 DEF Passes, Alike
  <2>7. Fits(a, e.h, toLB[a], wrote[a]) /\ e.h.wr = "body" /\ e.h.eng # "none"
    BY <1>1, <1>2, <1>3, <2>3, <2>6, PassesOn DEF Alike
  <2>8. CASE e.msgs = <<m>> /\ e.h = r[a] /\ r[a].sx = "run" /\ link[a] = "up" /\ ~r[a].rctx
    <3>1. Sendable(r[a], link[a])
      BY <1>1, <1>2, <2>8 DEF Fits, Shape, Sendable
    <3>2. Fits(a, e.h, toLB[a] \o <<m>>, wrote[a] + 1)
      BY <1>1, <1>2, <1>3, <1>5, <1>9, <2>2, <2>8, <3>1, ChunkSent
    <3> QED BY <1>4, <1>6, <2>2, <2>3, <2>5, <2>8, <3>2, EnqueueStep
  <2>9. CASE e.msgs = <<>> /\ e.h.sx = "done"
    <3>1. Fits(a, e.h, toLB[a], wrote[a] + 1)
      BY <2>3, <2>7, <2>9, ChunkDropped DEF Sendable
    <3> QED BY <1>4, <1>6, <2>3, <2>5, <2>9, <3>1, EnqueueStep
  <2> QED BY <2>3, <2>4, <2>8, <2>9
<1> QED BY <1>7, <1>8, <1>9

LEMMA ResponseEnqueued == ASSUME IInv, NEW a \in Attempts, enqueueCallResponse(a) PROVE IInv'
<1> DEFINE m == [type |-> "finished", v |-> IF r[a].callErr = "none" THEN r[a].out ELSE "err"]
<1>1. IsRecord(r[a]) /\ Fields(r[a]) /\ r[a] \in Handles /\ Fits(a, r[a], toLB[a], wrote[a])
  BY HandleOf
<1>2. PICK e \in enqueueMsgStrict(r[a], m, link[a] = "up") :
        Enqueued(a, e, [e.h EXCEPT !.sub = IF e.ok THEN "final" ELSE "done"])
  BY DEF enqueueCallResponse
<1>3. /\ r[a].sub = "answer"
      /\ UNCHANGED <<detached, clientVars, link, toRunner, wrote, executed, runs>>
  BY DEF enqueueCallResponse
<1>4. r[a].eng # "none"
  BY <1>3, HandleOf DEF NoHandle
<1>5. m \in Msgs /\ m.type = "finished" /\ (m.v = r[a].out \/ m.v = "err")
  BY <1>1 DEF Msgs, Fields, Errors
<1> HIDE DEF m
<1>6. SentOrNot(a, r[a], m, e)
  BY <1>1, <1>2, EnqueuesStrict
<1>7. PICK b : b = e.h
  OBVIOUS
<1>8. PICK v \in {"final", "done"} : v = IF e.ok THEN "final" ELSE "done"
  OBVIOUS
<1>9. PICK g : g = [b EXCEPT !.sub = v]
  OBVIOUS
<1>10. IsRecord(b) /\ Fields(b) /\ b \in Handles
  BY <1>6, <1>7, HandleFields DEF SentOrNot
<1>11. IsRecord(g)
  BY <1>9, <1>10 DEF IsRecord
<1>12. Fields(g)
  BY <1>9, <1>10 DEF Fields, IsRecord, FieldNames
<1>13. /\ g.sub = v /\ g.eng = b.eng /\ g.wr = b.wr /\ g.out = b.out
       /\ g.rctx = b.rctx /\ g.sx = b.sx /\ g.err = b.err
  BY <1>9, <1>10 DEF IsRecord, FieldNames
<1>14. Advances(r[a], g, wrote[a])
  BY <1>3, <1>6, <1>7, <1>13 DEF Advances, SentOrNot, Alike
<1>15. g \in Handles /\ Fits(a, g, toLB[a], wrote[a])
  BY <1>1, <1>4, <1>11, <1>12, <1>14, HandleByFields, AdvancesOn
<1>16. /\ wrote[a] \in 0..Chunks /\ wrote' = [wrote EXCEPT ![a] = wrote[a]]
       /\ w \in Seq(Attempts \X (1..Chunks)) /\ toLB[a] \in Seq(Msgs)
  BY <1>3 DEF IInv, TypeOK
<1>17. e.msgs = <<m>> => Fits(a, g, toLB[a] \o <<m>>, wrote[a])
  <2> SUFFICES ASSUME e.msgs = <<m>> PROVE Fits(a, g, toLB[a] \o <<m>>, wrote[a])
    OBVIOUS
  <2>1. r[a].sx = "run" /\ link[a] = "up" /\ ~r[a].rctx
    BY <1>6 DEF SentOrNot
  <2>2. Sendable(r[a], link[a])
    BY <1>1, <1>3, <2>1 DEF Fits, Shape, Sendable
  <2>3. Fits(a, r[a], toLB[a] \o <<m>>, wrote[a])
    BY <1>1, <1>3, <1>4, <1>5, <1>16, <2>2, FinishedSent
  <2> QED BY <1>1, <1>4, <1>14, <1>15, <2>3, AdvancesOn
<1>18. Enqueued(a, e, g)
  BY <1>2, <1>7, <1>8, <1>9
<1>19. e.msgs = <<m>> \/ e.msgs = <<>>
  BY <1>6 DEF SentOrNot
<1> QED BY <1>3, <1>5, <1>15, <1>16, <1>17, <1>18, <1>19, EnqueueStep

(* The function is started: for a handle that has not run it, and to whose *)
(* caller nothing was sent.                                                *)
LEMMA SubmitStarts == ASSUME IInv, NEW a \in Attempts, submitStarts(a) PROVE IInv'
<1>1. IsRecord(r[a]) /\ Fields(r[a]) /\ r[a] \in Handles /\ Fits(a, r[a], toLB[a], wrote[a])
  BY HandleOf
<1>2. /\ r[a].sub = "queued" /\ executed' = executed \cup {a} /\ runs' = runs + 1
      /\ UNCHANGED <<detached, clientVars, link, toRunner, wrote>>
  BY DEF submitStarts
<1>3. r[a].eng # "none"
  BY <1>2, HandleOf DEF NoHandle
<1>4. /\ executed = {} /\ w = <<>> /\ a \in executed' /\ a \notin executed
      /\ \A b \in Attempts \ {a} : b \in executed' <=> b \in executed
  BY <1>2, NothingSentYet
<1>5. ~Refused(r[a], a \in executed)
  BY <1>2 DEF Refused
<1>6. toLB[a] \in Seq(Msgs)
  BY DEF IInv, TypeOK
(* What the runner has said so far says nothing of a run. *)
<1>7. \A k \in 1..Len(toLB[a]) :
        /\ toLB[a][k].type \notin {"start", "data"}
        /\ ~(toLB[a][k].type = "finished" /\ toLB[a][k].v = "ok")
        /\ ~(toLB[a][k].type \in {"finished", "status"} /\ toLB[a][k].v = "busy")
  BY <1>1, <1>4, <1>5 DEF Fits, Carried, BusyIsRefused
<1>8. PICK g \in Handles, q \in Seq(Msgs) :
        /\ r' = [r EXCEPT ![a] = g] /\ toLB' = [toLB EXCEPT ![a] = q]
        /\ g.sub = "run" /\ g.eng = r[a].eng /\ g.out = r[a].out /\ g.wr = r[a].wr
        /\ g.rctx = r[a].rctx /\ g.err \in {r[a].err, "err"}
        /\ ~detached => q = toLB[a]
        /\ \A k \in 1..Len(q) :
             (k \in 1..Len(toLB[a]) /\ q[k] = toLB[a][k]) \/ q[k].type = "start"
        /\ recv[a] = "off" => q = toLB[a] \/ q = <<>>
  <2>1. CASE ~detached /\ r' = [r EXCEPT ![a].sub = "run"] /\ UNCHANGED toLB
    <3>1. PICK g : g = [r[a] EXCEPT !.sub = "run"]
      OBVIOUS
    <3>2. g \in Handles
      BY <1>1, <3>1 DEF Handles
    <3>3. /\ g.sub = "run" /\ g.eng = r[a].eng /\ g.out = r[a].out /\ g.wr = r[a].wr
          /\ g.rctx = r[a].rctx /\ g.err = r[a].err
      BY <1>1, <3>1 DEF IsRecord, FieldNames
    <3>4. r' = [r EXCEPT ![a] = g] /\ toLB' = [toLB EXCEPT ![a] = toLB[a]]
      BY <2>1, <3>1 DEF IInv, TypeOK
    <3> QED BY <1>6, <3>2, <3>3, <3>4
  <2>2. CASE /\ detached
             /\ \E e \in enqueueMsgStrict(r[a], [type |-> "start"], link[a] = "up") :
                  Enqueued(a, e, [e.h EXCEPT !.sub = "run", !.header = TRUE])
    <3> DEFINE m == [type |-> "start"]
    <3>1. PICK e \in enqueueMsgStrict(r[a], m, link[a] = "up") :
            Enqueued(a, e, [e.h EXCEPT !.sub = "run", !.header = TRUE])
      BY <2>2
    <3>2. m \in Msgs /\ m.type = "start"
      BY DEF Msgs
    <3> HIDE DEF m
    <3>3. SentOrNot(a, r[a], m, e)
      BY <1>1, <3>1, EnqueuesStrict
    <3>4. PICK b : b = e.h
      OBVIOUS
    <3>5. PICK g : g = [b EXCEPT !.sub = "run", !.header = TRUE]
      OBVIOUS
    <3>6. IsRecord(b) /\ Fields(b) /\ Alike(r[a], b) /\ b.err \in {r[a].err, "err"}
      BY <3>3, <3>4, HandleFields DEF SentOrNot
    <3>7. IsRecord(g)
      BY <3>5, <3>6 DEF IsRecord
    <3>8. Fields(g)
      BY <3>5, <3>6 DEF Fields, IsRecord, FieldNames
    <3>9. /\ g.sub = "run" /\ g.eng = b.eng /\ g.out = b.out /\ g.wr = b.wr
          /\ g.rctx = b.rctx /\ g.err = b.err
      BY <3>5, <3>6 DEF IsRecord, FieldNames
    <3>10. g \in Handles /\ ~Over(g)
      BY <3>7, <3>8, <3>9, HandleByFields DEF Over
    <3>11. r' = [r EXCEPT ![a] = g]
      BY <3>1, <3>4, <3>5, <3>10 DEF Enqueued, SetHandle
    <3>12. e.msgs = <<m>> \/ e.msgs = <<>>
      BY <3>3 DEF SentOrNot
    <3>13. PICK q : q = IF recv[a] \in {"off", "done"} THEN <<>> ELSE toLB[a] \o e.msgs
      OBVIOUS
    <3>14. toLB' = [toLB EXCEPT ![a] = q]
      BY <3>1, <3>13 DEF Enqueued
    <3>15. q \in {<<>>, toLB[a], toLB[a] \o <<m>>} /\ (recv[a] = "off" => q = <<>>)
      BY <3>12, <3>13, <1>6, Nothing
    <3>16. q \in Seq(Msgs)
      BY <3>15, <3>2, <1>6, Appended, Nothing
    <3>17. \A k \in 1..Len(q) :
             (k \in 1..Len(toLB[a]) /\ q[k] = toLB[a][k]) \/ q[k].type = "start"
      <4>1. CASE q = <<>>
        BY <4>1
      <4>2. CASE q = toLB[a]
        BY <4>2
      <4>3. CASE q = toLB[a] \o <<m>>
        BY <4>3, <3>2, <1>6, Appended
      <4> QED BY <4>1, <4>2, <4>3, <3>15
    <3>18. /\ g.eng = r[a].eng /\ g.out = r[a].out /\ g.wr = r[a].wr
           /\ g.rctx = r[a].rctx /\ g.err \in {r[a].err, "err"}
      BY <3>6, <3>9 DEF Alike
    <3> QED BY <2>2, <3>9, <3>10, <3>11, <3>14, <3>15, <3>16, <3>17, <3>18
  <2> QED BY <2>1, <2>2 DEF submitStarts
<1>9. /\ r'[a] = g /\ toLB'[a] = q /\ wrote'[a] = wrote[a] /\ try'[a] = try[a]
      /\ recv'[a] = recv[a] /\ recvDone'[a] = recvDone[a] /\ link'[a] = link[a]
      /\ detached' = detached /\ w' = w
  BY <1>2, <1>8 DEF IInv, TypeOK, clientVars
<1>10. TypeOK'
  <2>1. runs' \in Nat
    BY <1>2 DEF IInv, TypeOK
  <2> QED BY <1>2, <1>8, <2>1 DEF IInv, TypeOK, clientVars
<1>11. InTurn' /\ OneAnswer'
  BY <1>2, <1>4 DEF IInv, InTurn, OneAnswer, clientVars
<1>12. wrote[a] = 0 /\ r[a].wr = "none" /\ try[a] # "idle" /\ try[a] # "notplaced"
  BY <1>1, <1>3, <1>4, <1>5 DEF Fits, Shape, Untouched, NotPlaced, NoHandle
<1>13. Untouched(g, q, wrote[a], TRUE, try[a], recv[a], recvDone[a])
  BY <1>3, <1>8, <1>12 DEF Untouched
<1>14. Shape(g, wrote[a], TRUE)
  BY <1>1, <1>2, <1>8, <1>12 DEF Fits, Shape
<1>15. BusyIsRefused(g, q, TRUE, recvDone[a])
  BY <1>1, <1>5, <1>7, <1>8 DEF Fits, BusyIsRefused
<1>16. NotPlaced(g, TRUE, try[a])
  BY <1>12 DEF NotPlaced
<1>17. Carried(q, TRUE, detached)
  BY <1>7, <1>8 DEF Carried
<1>18. Stream(q, g, wrote[a], TRUE, detached, recv[a], link[a], w)
  <2> SUFFICES ASSUME ~detached
               PROVE  /\ HeaderDue(toLB[a], g, wrote[a])
                      /\ InOrder(toLB[a], Len(w))
                      /\ Continues(toLB[a], g, wrote[a], link[a], Len(w))
    BY <1>8 DEF Stream
  <2>1. HeaderDue(toLB[a], g, wrote[a])
    BY <1>7, <1>12 DEF HeaderDue
  <2>2. \A k \in 1..Len(toLB[a]) : ~Open(toLB[a], k)
    BY <1>7 DEF Open
  <2>3. InOrder(toLB[a], Len(w))
    BY <1>7 DEF InOrder
  <2>4. Continues(toLB[a], g, wrote[a], link[a], Len(w))
    <3> SUFFICES ASSUME Open(toLB[a], Len(toLB[a]))
                 PROVE  wrote[a] = Len(w) + Len(toLB[a]) - Offset(toLB[a])
      BY DEF Continues
    <3>1. Len(toLB[a]) = 0 /\ toLB[a] = <<>>
      BY <1>6, <2>2, Nothing
    <3>2. Len(w) = 0 /\ Offset(toLB[a]) = 0
      BY <1>4, <3>1 DEF Offset
    <3> QED BY <3>1, <3>2, <1>12
  <2> QED BY <2>1, <2>3, <2>4
<1>19. Result(TRUE, detached, try[a], recv[a], recvDone[a], w)
  BY <1>1, <1>4 DEF Fits, Result
<1>20. AttemptInv(a)'
  <2>1. (a \in executed') = TRUE
    BY <1>4
  <2> QED BY <1>9, <1>13, <1>14, <1>15, <1>16, <1>17, <1>18, <1>19, <2>1 DEF AttemptInv, Fits
<1>21. \A b \in Attempts \ {a} :
         /\ try'[b] = try[b] /\ recv'[b] = recv[b] /\ recvDone'[b] = recvDone[b]
         /\ link'[b] = link[b] /\ toLB'[b] = toLB[b] /\ r'[b] = r[b] /\ wrote'[b] = wrote[b]
  BY <1>2, <1>8 DEF IInv, TypeOK, clientVars
<1> QED BY <1>4, <1>9, <1>10, <1>11, <1>20, <1>21, Framed

-----------------------------------------------------------------------------
(* The steps of the client.                                                *)

LEMMA TurnKept ==
  ASSUME IInv, NEW a \in Attempts, NEW t, try' = [try EXCEPT ![a] = t],
         MayTry(a) \/ try[a] = "wait"
  PROVE  InTurn'
<1> SUFFICES ASSUME NEW c \in Attempts, try'[c] # "idle", NEW b \in 1..(c - 1)
             PROVE  try'[b] = "notplaced"
  BY DEF InTurn
<1>4. b \in Attempts /\ b # c
  BY AttemptsAssumption DEF Attempts
<1>1. /\ b \in Attempts /\ b # c
      /\ try \in [Attempts -> {"idle", "wait", "notplaced", "ok", "err", "ctx"}]
  BY <1>4 DEF IInv, TypeOK
<1>2. CASE c = a
  BY <1>1, <1>2 DEF MayTry, IInv, InTurn
<1>3. CASE c # a
  <2>1. try[c] # "idle" /\ try[b] = "notplaced"
    BY <1>1, <1>3 DEF IInv, InTurn
  <2> QED BY <1>1, <2>1 DEF MayTry
<1> QED BY <1>2, <1>3

(* A client step: nothing of the run changes. *)
LEMMA ClientMoves ==
  ASSUME IInv, NEW a \in Attempts, TypeOK', InTurn', OneAnswer',
         UNCHANGED <<detached, wrote, executed, runs>>, w' = w \/ a \in executed,
         \A b \in Attempts \ {a} :
           /\ try'[b] = try[b] /\ recv'[b] = recv[b] /\ recvDone'[b] = recvDone[b]
           /\ link'[b] = link[b] /\ toLB'[b] = toLB[b] /\ r'[b] = r[b],
         Untouched(r'[a], toLB'[a], wrote[a], a \in executed, try'[a], recv'[a], recvDone'[a]),
         Shape(r'[a], wrote[a], a \in executed),
         BusyIsRefused(r'[a], toLB'[a], a \in executed, recvDone'[a]),
         NotPlaced(r'[a], a \in executed, try'[a]),
         Carried(toLB'[a], a \in executed, detached),
         Stream(toLB'[a], r'[a], wrote[a], a \in executed, detached, recv'[a], link'[a], w'),
         Result(a \in executed, detached, try'[a], recv'[a], recvDone'[a], w')
  PROVE  IInv'
<1>1. AttemptInv(a)'
  BY DEF AttemptInv, Fits
<1> QED BY <1>1, Framed

LEMMA TryCallFails == ASSUME IInv, NEW a \in Attempts, TryFails(a) PROVE IInv'
<1>1. PICK t \in {"notplaced", "err"} : try' = [try EXCEPT ![a] = t]
  BY DEF TryFails
<1>2. /\ MayTry(a) /\ try[a] = "idle" /\ r' = r
      /\ UNCHANGED <<detached, sent, recv, recvDone, w, link, toRunner, toLB, wrote, executed, runs>>
  BY DEF TryFails, MayTry, runnerVars
<1>3. TypeOK
  BY DEF IInv
<1>4. try'[a] = t /\ \A b \in Attempts \ {a} : try'[b] = try[b]
  BY <1>1, <1>3 DEF TypeOK
<1>5. TypeOK' /\ InTurn' /\ OneAnswer'
  <2>1. TypeOK'
    BY <1>1, <1>2, <1>3 DEF TypeOK
  <2>2. InTurn'
    BY <1>1, <1>2, TurnKept
  <2>3. OneAnswer'
    BY <1>2 DEF IInv, OneAnswer
  <2> QED BY <2>1, <2>2, <2>3
<1>6. Fits(a, r[a], toLB[a], wrote[a]) /\ r[a] = NoHandle /\ a \notin executed
  BY <1>2 DEF IInv, AttemptInv, Fits, Untouched
<1>7. Untouched(r[a], toLB[a], wrote[a], a \in executed, t, recv[a], recvDone[a])
  BY <1>6 DEF Untouched
<1>8. NotPlaced(r[a], a \in executed, t)
  BY <1>6 DEF NotPlaced, NoHandle
<1>9. Result(a \in executed, detached, t, recv[a], recvDone[a], w)
  BY <1>2, <1>6 DEF Fits, Untouched, Result
<1>10. /\ Shape(r[a], wrote[a], a \in executed)
       /\ BusyIsRefused(r[a], toLB[a], a \in executed, recvDone[a])
       /\ Carried(toLB[a], a \in executed, detached)
       /\ Stream(toLB[a], r[a], wrote[a], a \in executed, detached, recv[a], link[a], w)
  BY <1>6 DEF Fits
<1> QED BY <1>2, <1>4, <1>5, <1>7, <1>8, <1>9, <1>10, ClientMoves

(* TryLost and TrySent: the runner has, or will have, TryCall. *)
LEMMA TryCallMade ==
  ASSUME IInv, NEW a \in Attempts, TryLost(a) \/ TrySent(a) PROVE IInv'
<1>1. PICK t \in {"wait", "err"}, c \in {"off", "data"}, l \in {"up", "down"} :
        /\ try' = [try EXCEPT ![a] = t] /\ recv' = [recv EXCEPT ![a] = c]
        /\ link' = [link EXCEPT ![a] = l]
  <2>1. TypeOK
    BY DEF IInv
  <2>2. CASE TrySent(a)
    BY <2>2 DEF TrySent
  <2>3. CASE TryLost(a)
    <3>1. recv[a] = "off"
      BY <2>3 DEF TryLost, MayTry, IInv, AttemptInv, Fits, Untouched
    <3>2. recv' = [recv EXCEPT ![a] = "off"]
      BY <2>1, <2>3, <3>1 DEF TryLost, TypeOK
    <3> QED BY <2>3, <3>2 DEF TryLost
  <2> QED BY <2>2, <2>3
<1>2. /\ MayTry(a) /\ try[a] = "idle" /\ toRunner' = [toRunner EXCEPT ![a] = <<Try>>]
      /\ r' = [r EXCEPT ![a].eng = "try"]
      /\ UNCHANGED <<detached, sent, recvDone, w, toLB, wrote, executed, runs>>
  BY DEF TryLost, TrySent, MayTry
<1>3. TypeOK
  BY DEF IInv
<1>4. /\ Fits(a, r[a], toLB[a], wrote[a]) /\ r[a] = NoHandle /\ a \notin executed
      /\ wrote[a] = 0 /\ toLB[a] = <<>> /\ recvDone[a] = <<>>
  BY <1>2 DEF IInv, AttemptInv, Fits, Untouched
<1>5. PICK g : g = [NoHandle EXCEPT !.eng = "try"]
  OBVIOUS
<1>6. g \in Handles
  BY <1>5, GoneIsHandle DEF Handles
<1>7. g.eng = "try" /\ g.sub = "none" /\ g.out = "ok" /\ g.wr = "none" /\ g.err = "none"
  BY <1>5 DEF NoHandle
<1>8. r' = [r EXCEPT ![a] = g]
  BY <1>2, <1>4, <1>5
<1>9. /\ try'[a] = t /\ recv'[a] = c /\ link'[a] = l /\ r'[a] = g
      /\ \A b \in Attempts \ {a} : /\ try'[b] = try[b] /\ recv'[b] = recv[b]
                                    /\ link'[b] = link[b] /\ r'[b] = r[b]
  BY <1>1, <1>3, <1>8 DEF TypeOK
<1>10. TypeOK'
  <2>1. <<Try>> \in Seq(0..Frames)
    BY FramesAssumption DEF Try
  <2> QED BY <1>1, <1>2, <1>3, <1>6, <1>8, <2>1, ZenonT(40) DEF TypeOK
<1>11. InTurn' /\ OneAnswer'
  <2>1. InTurn'
    BY <1>1, <1>2, TurnKept
  <2> QED BY <1>2, <2>1 DEF IInv, OneAnswer
<1>12. Untouched(g, toLB[a], wrote[a], a \in executed, t, c, recvDone[a])
  BY <1>7 DEF Untouched
<1>13. Shape(g, wrote[a], a \in executed) /\ NotPlaced(g, a \in executed, t)
  BY <1>4, <1>7 DEF Shape, NotPlaced
<1>14. BusyIsRefused(g, toLB[a], a \in executed, recvDone[a]) /\ Carried(toLB[a], a \in executed, detached)
  BY <1>4, <1>7 DEF BusyIsRefused, Carried
<1>15. /\ Stream(toLB[a], g, wrote[a], a \in executed, detached, c, l, w)
       /\ Result(a \in executed, detached, t, c, recvDone[a], w)
  BY <1>4 DEF Stream, Result
<1> QED BY <1>2, <1>9, <1>10, <1>11, <1>12, <1>13, <1>14, <1>15, ClientMoves

LEMMA FrameSent == ASSUME IInv, NEW a \in Attempts, sendToRunner(a) PROVE IInv'
<1>1. PICK f \in 0..Frames : /\ sent' = [sent EXCEPT ![a] = f]
                             /\ toRunner' = [toRunner EXCEPT ![a] = Append(@, f)]
  <2>1. sent[a] \in 0..Frames /\ sent[a] < Frames
    BY DEF sendToRunner, IInv, TypeOK
  <2>2. sent[a] + 1 \in 0..Frames /\ Eof \in 0..Frames
    BY <2>1, FramesAssumption DEF Eof
  <2> QED BY <2>2 DEF sendToRunner
<1>2. /\ UNCHANGED <<detached, try, recv, recvDone, w, link, toLB, wrote, executed, runs>>
      /\ r' = r
  BY DEF sendToRunner, runnerVars
<1>3. TypeOK
  BY DEF IInv
<1>4. Append(toRunner[a], f) \in Seq(0..Frames)
  BY <1>3 DEF TypeOK
<1>5. TypeOK'
  BY <1>1, <1>2, <1>3, <1>4 DEF TypeOK
<1>6. InTurn' /\ OneAnswer'
  BY <1>2 DEF IInv, InTurn, OneAnswer
<1>7. AttemptInv(a)'
  BY <1>2 DEF IInv, AttemptInv, Fits
<1> QED BY <1>2, <1>5, <1>6, <1>7, Framed

(* A message was received: what is left says no more of the run. *)
LEMMA Received ==
  ASSUME NEW a \in Attempts, NEW h, NEW q \in Seq(Msgs), NEW n, q # <<>>, Fits(a, h, q, n)
  PROVE  /\ try[a] # "idle" /\ Tail(q) \in Seq(Msgs) /\ Head(q) = q[1]
         /\ BusyIsRefused(h, Tail(q), a \in executed, recvDone[a])
         /\ Carried(Tail(q), a \in executed, detached)
         /\ a \in executed /\ ~detached => HeaderDue(Tail(q), h, n)
         /\ q[1].type \in {"finished", "status"} /\ q[1].v = "busy" => Refused(h, a \in executed)
         /\ q[1].type = "data" => a \in executed /\ ~detached
         /\ q[1].type = "finished" /\ q[1].v = "ok" => a \in executed
<1>1. \A k \in 1..Len(Tail(q)) : k + 1 \in 1..Len(q) /\ Tail(q)[k] = q[k + 1]
  BY TailOf
<1>2. 1 \in 1..Len(q) /\ Tail(q) \in Seq(Msgs) /\ Head(q) = q[1]
  BY TailOf
<1>3. try[a] # "idle"
  BY DEF Fits, Untouched
<1>4. BusyIsRefused(h, Tail(q), a \in executed, recvDone[a]) /\ Carried(Tail(q), a \in executed, detached)
  BY <1>1 DEF Fits, BusyIsRefused, Carried
<1>5. a \in executed /\ ~detached => HeaderDue(Tail(q), h, n)
  BY <1>1 DEF Fits, Stream, HeaderDue
<1>6. /\ q[1].type \in {"finished", "status"} /\ q[1].v = "busy" => Refused(h, a \in executed)
      /\ q[1].type = "data" => a \in executed /\ ~detached
      /\ q[1].type = "finished" /\ q[1].v = "ok" => a \in executed
  BY <1>2 DEF Fits, BusyIsRefused, Carried
<1> QED BY <1>2, <1>3, <1>4, <1>5, <1>6

(* What tryQueueError leaves in recvDone. *)
LEMMA QueuedError ==
  ASSUME IInv, NEW a \in Attempts, NEW e \in Errors, NEW h, NEW q,
         BusyIsRefused(h, q, a \in executed, recvDone[a]),
         e = "busy" => Refused(h, a \in executed)
  PROVE  /\ BusyIsRefused(h, q, a \in executed, tryQueueError(a, e))
         /\ tryQueueError(a, e) \in Seq(Errors) /\ Len(tryQueueError(a, e)) <= 1
         /\ try[a] = "wait" => tryQueueError(a, e) # <<>>
<1>1. recvDone[a] \in Seq(Errors) /\ Len(recvDone[a]) <= 1
  BY DEF IInv, TypeOK
<1>2. <<e>> \in Seq(Errors) /\ Len(<<e>>) = 1 /\ <<e>> # <<>> /\ <<e>>[1] = e
  OBVIOUS
<1>3. tryQueueError(a, e) = <<e>> \/ tryQueueError(a, e) = recvDone[a]
  BY DEF tryQueueError
<1>4. try[a] = "wait" => tryQueueError(a, e) # <<>>
  BY <1>2 DEF tryQueueError
<1>5. BusyIsRefused(h, q, a \in executed, tryQueueError(a, e))
  BY <1>2, <1>3 DEF BusyIsRefused
<1> QED BY <1>1, <1>2, <1>3, <1>4, <1>5

(* Whatever is received: the state of the receiver and its queue of errors. *)
LEMMA ReceiverMoves ==
  ASSUME IInv, NEW a \in Attempts, NEW c \in {"data", "skip", "eof", "done"},
         NEW d \in Seq(Errors), Len(d) <= 1, NEW q \in Seq(Msgs),
         recv' = [recv EXCEPT ![a] = c], recvDone' = [recvDone EXCEPT ![a] = d],
         toLB' = [toLB EXCEPT ![a] = q],
         UNCHANGED <<detached, try, sent, link, toRunner, runnerVars>>,
         w' = w \/ a \in executed, w' \in Seq(Attempts \X (1..Chunks)), OneAnswer',
         try[a] # "idle",
         BusyIsRefused(r[a], q, a \in executed, d), Carried(q, a \in executed, detached),
         a \in executed /\ ~detached => HeaderDue(q, r[a], wrote[a]),
         a \in executed /\ ~detached /\ c = "data" =>
           InOrder(q, Len(w')) /\ Continues(q, r[a], wrote[a], link[a], Len(w')),
         Result(a \in executed, detached, try[a], c, d, w')
  PROVE  IInv'
<1> USE DEF runnerVars
<1>1. TypeOK
  BY DEF IInv
<1>2. TypeOK'
  BY <1>1 DEF TypeOK
<1>3. InTurn'
  BY DEF IInv, InTurn
<1>4. /\ recv'[a] = c /\ recvDone'[a] = d /\ toLB'[a] = q
      /\ \A b \in Attempts \ {a} : /\ recv'[b] = recv[b] /\ recvDone'[b] = recvDone[b]
                                    /\ toLB'[b] = toLB[b]
  BY <1>1 DEF TypeOK
<1>5. Fits(a, r[a], toLB[a], wrote[a])
  BY DEF IInv, AttemptInv
<1>6. Untouched(r[a], q, wrote[a], a \in executed, try[a], c, d)
  BY <1>5 DEF Fits, Untouched
<1>7. Shape(r[a], wrote[a], a \in executed) /\ NotPlaced(r[a], a \in executed, try[a])
  BY <1>5 DEF Fits
<1>8. Stream(q, r[a], wrote[a], a \in executed, detached, c, link[a], w')
  BY DEF Stream
<1>9. /\ UNCHANGED <<detached, wrote, executed, runs>>
      /\ try'[a] = try[a] /\ link'[a] = link[a] /\ r'[a] = r[a]
      /\ \A b \in Attempts \ {a} : try'[b] = try[b] /\ link'[b] = link[b] /\ r'[b] = r[b]
  OBVIOUS
<1> QED BY <1>2, <1>3, <1>4, <1>6, <1>7, <1>8, <1>9, ClientMoves

LEMMA ReceiverKeeps ==
  ASSUME IInv, NEW a \in Attempts, NEW c \in {"data", "skip", "eof", "done"},
         NEW d \in Seq(Errors), Len(d) <= 1, NEW q \in Seq(Msgs),
         recv' = [recv EXCEPT ![a] = c], recvDone' = [recvDone EXCEPT ![a] = d],
         toLB' = [toLB EXCEPT ![a] = q], w' = w,
         UNCHANGED <<detached, try, sent, link, toRunner, runnerVars>>,
         try[a] # "idle",
         BusyIsRefused(r[a], q, a \in executed, d), Carried(q, a \in executed, detached),
         a \in executed /\ ~detached => HeaderDue(q, r[a], wrote[a]),
         a \in executed /\ ~detached /\ c = "data" =>
           InOrder(q, Len(w)) /\ Continues(q, r[a], wrote[a], link[a], Len(w)),
         Result(a \in executed, detached, try[a], c, d, w)
  PROVE  IInv'
<1>1. OneAnswer' /\ w' \in Seq(Attempts \X (1..Chunks))
  BY DEF IInv, TypeOK, OneAnswer, runnerVars
<1>2. a \in executed /\ ~detached /\ c = "data" =>
        InOrder(q, Len(w')) /\ Continues(q, r[a], wrote[a], link[a], Len(w'))
  OBVIOUS
<1>3. Result(a \in executed, detached, try[a], c, d, w')
  OBVIOUS
<1> QED BY <1>1, <1>2, <1>3, ReceiverMoves

LEMMA MsgReceived == ASSUME IInv, NEW a \in Attempts, receiveMsg(a) PROVE IInv'
<1> DEFINE q == toLB[a]
           m == Head(q)
<1>1. /\ recv[a] \in {"data", "skip"} /\ q # <<>> /\ toLB' = [toLB EXCEPT ![a] = Tail(q)]
      /\ UNCHANGED <<detached, try, sent, link, toRunner, runnerVars>>
  BY DEF receiveMsg
<1>2. Fits(a, r[a], q, wrote[a])
  BY DEF IInv, AttemptInv
<1>3. /\ q \in Seq(Msgs) /\ recvDone[a] \in Seq(Errors) /\ Len(recvDone[a]) <= 1
      /\ w \in Seq(Attempts \X (1..Chunks)) /\ Len(w) \in Nat
      /\ recv = [recv EXCEPT ![a] = recv[a]] /\ recvDone = [recvDone EXCEPT ![a] = recvDone[a]]
  BY DEF IInv, TypeOK
<1> HIDE DEF q
<1>4. /\ try[a] # "idle" /\ Tail(q) \in Seq(Msgs) /\ m = q[1]
      /\ BusyIsRefused(r[a], Tail(q), a \in executed, recvDone[a])
      /\ Carried(Tail(q), a \in executed, detached)
      /\ a \in executed /\ ~detached => HeaderDue(Tail(q), r[a], wrote[a])
      /\ q[1].type \in {"finished", "status"} /\ q[1].v = "busy" => Refused(r[a], a \in executed)
      /\ q[1].type = "data" => a \in executed /\ ~detached
      /\ q[1].type = "finished" /\ q[1].v = "ok" => a \in executed
  BY <1>1, <1>2, <1>3, Received
<1>5. q[1] \in Msgs /\ Len(Tail(q)) = Len(q) - 1 /\ Len(q) \in Nat \ {0} /\ 1 \in 1..Len(q)
  BY <1>1, <1>3, TailOf
<1>6. q[1].type \in {"finished", "status"} => q[1].v \in Errors \cup {"ok"}
  BY <1>5 DEF Msgs
<1>7. a \in executed /\ ~detached /\ recv[a] = "data" =>
        InOrder(q, Len(w)) /\ Continues(q, r[a], wrote[a], link[a], Len(w))
  BY <1>2 DEF Fits, Stream
<1>8. OneAnswer
  BY DEF IInv
<1>9. /\ try[a] = "ok" => recv[a] = "done"
      /\ recv[a] = "skip" => try[a] # "wait" \/ recvDone[a] # <<>>
  BY <1>2 DEF Fits, Result
(* What is left of a stream whose first message is the header or a chunk. *)
<1>10. ASSUME a \in executed, ~detached, recv[a] = "data", q[1].type \in {"start", "data"},
              NEW l \in Nat, l = IF q[1].type = "start" THEN Len(w) ELSE Len(w) + 1
       PROVE  InOrder(Tail(q), l) /\ Continues(Tail(q), r[a], wrote[a], link[a], l)
  <2>1. /\ q[1].type = "start" => Len(w) = 0 /\ InOrder(Tail(q), Len(w))
        /\ q[1].type = "data" => q[1].n = Len(w) + 1 /\ InOrder(Tail(q), Len(w) + 1)
        /\ Offset(Tail(q)) = 0 /\ (q[1].type = "start" <=> Offset(q) = 1) /\ Offset(q) \in {0, 1}
    BY <1>1, <1>3, <1>7, <1>10, InOrderTail
  <2>2. ASSUME Sendable(r[a], link[a]), Open(Tail(q), Len(Tail(q)))
        PROVE  wrote[a] = l + Len(Tail(q)) - Offset(Tail(q))
    <3>4. Len(Tail(q)) \in 0..Len(Tail(q))
      BY <1>5
    <3>1. Open(q, Len(Tail(q)) + 1)
      BY <2>2, <1>1, <1>3, <1>10, <3>4, OpenTail
    <3>2. Len(Tail(q)) + 1 = Len(q)
      BY <1>5
    <3>3. wrote[a] = Len(w) + Len(q) - Offset(q)
      BY <3>1, <3>2, <2>2, <1>7, <1>10 DEF Continues
    <3> QED BY <3>3, <2>1, <1>3, <1>5, <1>10
  <2> QED BY <2>1, <2>2, <1>10 DEF Continues
<1>11. CASE m.type = "start" /\ UNCHANGED <<recv, recvDone, w>>
  <2>1. PICK c \in {"data", "skip"}, d \in Seq(Errors) : c = recv[a] /\ d = recvDone[a] /\ Len(d) <= 1
    BY <1>1, <1>3
  <2>2. recv' = [recv EXCEPT ![a] = c] /\ recvDone' = [recvDone EXCEPT ![a] = d] /\ w' = w
    BY <1>3, <1>11, <2>1
  <2>3. Result(a \in executed, detached, try[a], c, d, w)
    BY <1>2, <2>1 DEF Fits
  <2>4. a \in executed /\ ~detached /\ c = "data" =>
          InOrder(Tail(q), Len(w)) /\ Continues(Tail(q), r[a], wrote[a], link[a], Len(w))
    BY <1>3, <1>4, <1>10, <1>11, <2>1
  <2>5. BusyIsRefused(r[a], Tail(q), a \in executed, d)
    BY <1>4, <2>1
  <2> QED BY <1>1, <1>4, <2>1, <2>2, <2>3, <2>4, <2>5, ReceiverKeeps, ZenonT(40)
<1>12. CASE /\ m.type = "data" /\ recv[a] = "data" /\ w' = Append(w, <<a, m.n>>)
            /\ UNCHANGED <<recv, recvDone>>
  <2>1. q[1].type = "data" /\ a \in executed /\ ~detached
    BY <1>4, <1>12
  <2>2. m.n = Len(w) + 1
    BY <1>1, <1>3, <1>4, <1>7, <1>12, <2>1, InOrderTail
  <2>3. m.n \in 1..Chunks
    BY <1>4, <1>5, <2>1 DEF Msgs
  <2>4. /\ w' \in Seq(Attempts \X (1..Chunks)) /\ Len(w') = Len(w) + 1
        /\ w'[Len(w) + 1] = <<a, m.n>> /\ \A k \in 1..Len(w) : w'[k] = w[k]
    BY <1>3, <1>12, <2>3
  <2>5. w # <<>> => w[1][1] = a
    <3>1. w # <<>> => w[1][1] \in executed /\ w[1][1] \in Attempts
      BY <1>8 DEF OneAnswer, IInv, TypeOK
    <3> QED BY <3>1, <2>1, OnePlaced DEF Placed
  <2>6. OneAnswer'
    <3>1. \A k \in 1..Len(w') : w'[k][1] = a /\ w'[k][2] = k
      <4> SUFFICES ASSUME NEW k \in 1..Len(w') PROVE w'[k][1] = a /\ w'[k][2] = k
        OBVIOUS
      <4>1. CASE k \in 1..Len(w)
        <5>1. w[k][2] = k /\ w[k][1] = w[1][1]
          BY <4>1, <1>8 DEF OneAnswer
        <5>2. w # <<>>
          BY <4>1, <1>3
        <5>3. w'[k] = w[k]
          BY <4>1, <2>4
        <5> QED BY <2>5, <5>1, <5>2, <5>3
      <4>2. CASE k = Len(w) + 1
        BY <4>2, <2>2, <2>4
      <4> QED BY <4>1, <4>2, <1>3, <2>4
    <3>2. 1 \in 1..Len(w') /\ executed' = executed
      BY <1>1, <1>3, <2>4 DEF runnerVars
    <3> QED BY <3>1, <3>2, <2>1 DEF OneAnswer
  <2>7. InOrder(Tail(q), Len(w')) /\ Continues(Tail(q), r[a], wrote[a], link[a], Len(w'))
    BY <1>3, <1>10, <1>12, <2>1, <2>4
  <2>8. PICK d \in Seq(Errors) : d = recvDone[a] /\ Len(d) <= 1
    BY <1>3
  <2>9. recv' = [recv EXCEPT ![a] = "data"] /\ recvDone' = [recvDone EXCEPT ![a] = d]
    BY <1>3, <1>12, <2>8
  <2>10. Result(a \in executed, detached, try[a], "data", d, w')
    BY <1>9, <1>12 DEF Result
  <2>11. BusyIsRefused(r[a], Tail(q), a \in executed, d)
    BY <1>4, <2>8
  <2>12. w' \in Seq(Attempts \X (1..Chunks))
    BY <2>4
  <2> QED BY <1>1, <1>4, <2>1, <2>6, <2>7, <2>8, <2>9, <2>10, <2>11, <2>12, ReceiverMoves
<1>13. CASE /\ m.type = "data" /\ recv[a] = "data" /\ recv' = [recv EXCEPT ![a] = "skip"]
            /\ recvDone' = [recvDone EXCEPT ![a] = tryQueueError(a, "err")] /\ UNCHANGED w
  <2>1. PICK d : d = tryQueueError(a, "err")
    OBVIOUS
  <2>2. /\ BusyIsRefused(r[a], Tail(q), a \in executed, d) /\ d \in Seq(Errors) /\ Len(d) <= 1
        /\ try[a] = "wait" => d # <<>>
    BY <1>4, <2>1, QueuedError DEF Errors
  <2>3. Result(a \in executed, detached, try[a], "skip", d, w)
    BY <1>9, <1>13, <2>2 DEF Result
  <2>4. recv' = [recv EXCEPT ![a] = "skip"] /\ recvDone' = [recvDone EXCEPT ![a] = d] /\ w' = w
    BY <1>13, <2>1
  <2>5. /\ BusyIsRefused(r[a], Tail(q), a \in executed, d) /\ d \in Seq(Errors) /\ Len(d) <= 1
        /\ Carried(Tail(q), a \in executed, detached) /\ try[a] # "idle" /\ Tail(q) \in Seq(Msgs)
        /\ a \in executed /\ ~detached => HeaderDue(Tail(q), r[a], wrote[a])
    BY <1>4, <2>2
  <2> QED BY <1>1, <2>3, <2>4, <2>5, ReceiverKeeps
<1>14. CASE m.type = "data" /\ recv[a] = "skip" /\ UNCHANGED <<recv, recvDone, w>>
  <2>1. PICK d \in Seq(Errors) : d = recvDone[a] /\ Len(d) <= 1
    BY <1>3
  <2>2. recv' = [recv EXCEPT ![a] = "skip"] /\ recvDone' = [recvDone EXCEPT ![a] = d] /\ w' = w
    BY <1>3, <1>14, <2>1
  <2>3. Result(a \in executed, detached, try[a], "skip", d, w)
    BY <1>2, <1>14, <2>1 DEF Fits
  <2>4. BusyIsRefused(r[a], Tail(q), a \in executed, d)
    BY <1>4, <2>1
  <2> QED BY <1>1, <1>4, <2>1, <2>2, <2>3, <2>4, ReceiverKeeps
<1>15. CASE /\ m.type = "finished" /\ recv' = [recv EXCEPT ![a] = "eof"] /\ UNCHANGED w
            /\ recvDone' = [recvDone EXCEPT ![a] =
                              IF m.v = "ok" THEN @ ELSE tryQueueError(a, m.v)]
  <2>1. PICK d : d = IF m.v = "ok" THEN recvDone[a] ELSE tryQueueError(a, m.v)
    OBVIOUS
  <2>2. recvDone' = [recvDone EXCEPT ![a] = d]
    BY <1>15, <2>1
  <2>3. m.v # "ok" => m.v \in Errors /\ (m.v = "busy" => Refused(r[a], a \in executed))
    BY <1>4, <1>6, <1>15
  <2>4. /\ BusyIsRefused(r[a], Tail(q), a \in executed, d) /\ d \in Seq(Errors) /\ Len(d) <= 1
        /\ m.v # "ok" /\ try[a] = "wait" => d # <<>>
    BY <1>3, <1>4, <2>1, <2>3, QueuedError
  <2>5. m.v = "ok" /\ recv[a] = "data" => a \in executed /\ (~detached => Len(w) = Chunks)
    <3> SUFFICES ASSUME m.v = "ok", recv[a] = "data", ~detached PROVE Len(w) = Chunks
      BY <1>4, <1>15
    <3>1. InOrder(q, Len(w)) /\ q[1].type = "finished" /\ q[1].v = "ok"
      BY <1>4, <1>7, <1>15
    <3>2. Open(q, 1 - 1) /\ Offset(q) = 0
      BY <3>1 DEF Open, Offset
    <3>3. Chunks = Len(w) + 1 - 1 - Offset(q)
      BY <1>5, <3>1, <3>2 DEF InOrder
    <3> QED BY <1>3, <3>2, <3>3
  <2>6. Result(a \in executed, detached, try[a], "eof", d, w)
    BY <1>1, <1>9, <2>1, <2>4, <2>5 DEF Result
  <2> QED BY <1>1, <1>3, <1>4, <1>15, <2>2, <2>4, <2>6, ReceiverKeeps
<1>16. CASE /\ m.type = "status" /\ recv' = [recv EXCEPT ![a] = "done"] /\ UNCHANGED w
            /\ recvDone' = [recvDone EXCEPT ![a] =
                              tryQueueError(a, IF m.v = "ok" THEN "err" ELSE m.v)]
  <2>1. PICK e : e = IF m.v = "ok" THEN "err" ELSE m.v
    OBVIOUS
  <2>2. recvDone' = [recvDone EXCEPT ![a] = tryQueueError(a, e)]
    BY <1>16, <2>1
  <2>3. e \in Errors /\ (e = "busy" => Refused(r[a], a \in executed))
    BY <1>4, <1>6, <1>16, <2>1 DEF Errors
  <2>4. /\ BusyIsRefused(r[a], Tail(q), a \in executed, tryQueueError(a, e))
        /\ tryQueueError(a, e) \in Seq(Errors) /\ Len(tryQueueError(a, e)) <= 1
        /\ try[a] = "wait" => tryQueueError(a, e) # <<>>
    BY <1>4, <2>3, QueuedError
  <2>5. Result(a \in executed, detached, try[a], "done", tryQueueError(a, e), w)
    BY <1>1, <1>9, <2>4 DEF Result
  <2> QED BY <1>1, <1>3, <1>4, <1>16, <2>2, <2>4, <2>5, ReceiverKeeps
<1> QED BY <1>11, <1>12, <1>13, <1>14, <1>15, <1>16 DEF receiveMsg, q

LEMMA EofReceived == ASSUME IInv, NEW a \in Attempts, receiveEof(a) PROVE IInv'
<1> DEFINE q == toLB[a]
           m == Head(q)
<1>1. /\ recv[a] = "eof" /\ q # <<>> /\ toLB' = [toLB EXCEPT ![a] = Tail(q)] /\ w' = w
      /\ UNCHANGED <<detached, try, sent, link, toRunner, runnerVars>>
  BY DEF receiveEof
<1>2. Fits(a, r[a], q, wrote[a])
  BY DEF IInv, AttemptInv
<1>3. /\ q \in Seq(Msgs) /\ recvDone[a] \in Seq(Errors) /\ Len(recvDone[a]) <= 1
      /\ recv = [recv EXCEPT ![a] = recv[a]]
  BY DEF IInv, TypeOK
<1>4. PICK c \in {"eof", "done"}, e \in Errors, keep \in BOOLEAN :
        /\ recv' = [recv EXCEPT ![a] = c] /\ (keep => c = "done")
        /\ recvDone' = [recvDone EXCEPT ![a] = IF keep THEN @ ELSE tryQueueError(a, e)]
        /\ e = "busy" => m.type = "status" /\ m.v = "busy"
  <2>1. CASE m.type = "status"
    <3>1. q[1] \in Msgs /\ m = q[1]
      BY <1>1, <1>3, TailOf
    <3>2. m.v \in Errors \cup {"ok"}
      BY <2>1, <3>1 DEF Msgs
    <3>3. CASE m.v = "ok"
      BY <2>1, <3>3 DEF receiveEof, Errors
    <3>4. CASE m.v # "ok"
      BY <2>1, <3>2, <3>4 DEF receiveEof
    <3> QED BY <3>3, <3>4
  <2>2. CASE m.type # "status"
    <3>1. recv' = [recv EXCEPT ![a] = "eof"]
      BY <1>1, <1>3, <2>2 DEF receiveEof
    <3>2. recvDone' = [recvDone EXCEPT ![a] = tryQueueError(a, "err")]
      BY <2>2 DEF receiveEof
    <3> QED BY <3>1, <3>2 DEF Errors
  <2> QED BY <2>1, <2>2
<1> HIDE DEF q
<1>5. /\ try[a] # "idle" /\ Tail(q) \in Seq(Msgs) /\ m = q[1]
      /\ BusyIsRefused(r[a], Tail(q), a \in executed, recvDone[a])
      /\ Carried(Tail(q), a \in executed, detached)
      /\ a \in executed /\ ~detached => HeaderDue(Tail(q), r[a], wrote[a])
      /\ q[1].type \in {"finished", "status"} /\ q[1].v = "busy" => Refused(r[a], a \in executed)
  BY <1>1, <1>2, <1>3, Received
<1>6. PICK d : d = IF keep THEN recvDone[a] ELSE tryQueueError(a, e)
  OBVIOUS
<1>7. recvDone' = [recvDone EXCEPT ![a] = d]
  BY <1>4, <1>6
<1>8. e = "busy" => Refused(r[a], a \in executed)
  BY <1>4, <1>5
<1>9. /\ BusyIsRefused(r[a], Tail(q), a \in executed, d) /\ d \in Seq(Errors) /\ Len(d) <= 1
      /\ ~keep /\ try[a] = "wait" => d # <<>>
  BY <1>3, <1>5, <1>6, <1>8, QueuedError
<1>10. Result(a \in executed, detached, try[a], c, d, w)
  BY <1>1, <1>2, <1>6, <1>9 DEF Fits, Result
<1>11. recv' = [recv EXCEPT ![a] = c] /\ c \in {"data", "skip", "eof", "done"} /\ c # "data"
  BY <1>4
<1>12. BusyIsRefused(r[a], Tail(q), a \in executed, d) /\ d \in Seq(Errors) /\ Len(d) <= 1
  BY <1>9
<1> QED BY <1>1, <1>5, <1>7, <1>10, <1>11, <1>12, ReceiverKeeps

LEMMA ReceiveFailed == ASSUME IInv, NEW a \in Attempts, receiveFails(a) PROVE IInv'
<1>1. /\ recv[a] \in {"data", "skip", "eof"} /\ recv' = [recv EXCEPT ![a] = "done"]
      /\ toLB' = [toLB EXCEPT ![a] = <<>>] /\ w' = w
      /\ recvDone' = [recvDone EXCEPT ![a] = tryQueueError(a, "err")]
      /\ UNCHANGED <<detached, try, sent, link, toRunner, runnerVars>>
  BY DEF receiveFails, recvError
<1>2. Fits(a, r[a], toLB[a], wrote[a])
  BY DEF IInv, AttemptInv
<1>3. PICK d : d = tryQueueError(a, "err")
  OBVIOUS
<1>4. <<>> \in Seq(Msgs) /\ \A k \in 1..Len(<<>>) : FALSE
  OBVIOUS
<1>5. /\ BusyIsRefused(r[a], <<>>, a \in executed, recvDone[a])
      /\ Carried(<<>>, a \in executed, detached)
      /\ a \in executed /\ ~detached => HeaderDue(<<>>, r[a], wrote[a])
  BY <1>2, <1>4 DEF Fits, BusyIsRefused, Carried, Stream, HeaderDue
<1>6. /\ BusyIsRefused(r[a], <<>>, a \in executed, d) /\ d \in Seq(Errors) /\ Len(d) <= 1
      /\ try[a] = "wait" => d # <<>>
  BY <1>3, <1>5, QueuedError DEF Errors
<1>7. try[a] # "idle" /\ Result(a \in executed, detached, try[a], "done", d, w)
  BY <1>1, <1>2, <1>6 DEF Fits, Untouched, Result
<1>8. recvDone' = [recvDone EXCEPT ![a] = d]
  BY <1>1, <1>3
<1> QED BY <1>1, <1>4, <1>5, <1>6, <1>7, <1>8, ReceiverKeeps

(* The stream is gone: TryReturns, which may say so, and LinkBreaks. *)
LEMMA StreamGone ==
  ASSUME IInv, NEW a \in Attempts, Cancel(a),
         NEW t \in {"idle", "wait", "notplaced", "ok", "err", "ctx"},
         NEW d \in Seq(Errors), Len(d) <= 1, try' = [try EXCEPT ![a] = t],
         t = try[a] \/ (try[a] = "wait" /\ t # "idle"),
         d = recvDone[a] \/ d = <<>>, recvDone' = [recvDone EXCEPT ![a] = d],
         sent' \in [Attempts -> 0..Frames],
         UNCHANGED <<detached, recv, w, runnerVars>>,
         NotPlaced(r[a], a \in executed, t),
         Result(a \in executed, detached, t, recv[a], d, w)
  PROVE  IInv'
<1> USE DEF runnerVars
<1>1. TypeOK
  BY DEF IInv
<1>2. PICK k \in {0, 1} \cap 0..Len(toLB[a]) : toLB' = [toLB EXCEPT ![a] = SubSeq(@, 1, k)]
  BY DEF Cancel
<1>3. PICK j \in 0..Len(toRunner[a]) : toRunner' = [toRunner EXCEPT ![a] = SubSeq(@, 1, j)]
  BY DEF Cancel
<1>4. link' = [link EXCEPT ![a] = "down"]
  BY DEF Cancel
<1>5. PICK q : q = SubSeq(toLB[a], 1, k)
  OBVIOUS
<1>6. toLB[a] \in Seq(Msgs) /\ toRunner[a] \in Seq(0..Frames)
  BY <1>1 DEF TypeOK
<1>7. /\ q \in Seq(Msgs)
      /\ \A i \in 1..Len(q) : i \in 1..Len(toLB[a]) /\ q[i] = toLB[a][i]
      /\ toLB[a] = <<>> => q = <<>>
  BY <1>2, <1>5, <1>6, PrefixOf, Nothing
<1>8. SubSeq(toRunner[a], 1, j) \in Seq(0..Frames)
  BY <1>3, <1>6, PrefixIn
<1>9. TypeOK'
  BY <1>1, <1>2, <1>3, <1>4, <1>5, <1>7, <1>8 DEF TypeOK
<1>10. /\ try'[a] = t /\ recvDone'[a] = d /\ link'[a] = "down" /\ toLB'[a] = q
       /\ \A b \in Attempts \ {a} : /\ try'[b] = try[b] /\ recvDone'[b] = recvDone[b]
                                     /\ link'[b] = link[b] /\ toLB'[b] = toLB[b]
  BY <1>1, <1>2, <1>4, <1>5 DEF TypeOK
<1>11. InTurn'
  <2>1. CASE t = try[a]
    <3>1. try' = try
      BY <1>1, <2>1 DEF TypeOK
    <3> QED BY <3>1 DEF IInv, InTurn
  <2>2. CASE t # try[a]
    BY <2>2, TurnKept
  <2> QED BY <2>1, <2>2
<1>12. OneAnswer'
  BY DEF IInv, OneAnswer
<1>13. Fits(a, r[a], toLB[a], wrote[a])
  BY DEF IInv, AttemptInv
<1>14. Untouched(r[a], q, wrote[a], a \in executed, t, recv[a], d)
  BY <1>7, <1>13 DEF Fits, Untouched
<1>15. BusyIsRefused(r[a], q, a \in executed, d) /\ Carried(q, a \in executed, detached)
  BY <1>7, <1>13 DEF Fits, BusyIsRefused, Carried
<1>16. Stream(q, r[a], wrote[a], a \in executed, detached, recv[a], "down", w)
  <2>1. a \in executed /\ ~detached => HeaderDue(q, r[a], wrote[a])
    BY <1>7, <1>13 DEF Fits, Stream, HeaderDue
  <2>2. a \in executed /\ ~detached /\ recv[a] = "data" => InOrder(q, Len(w))
    BY <1>2, <1>5, <1>6, <1>13, InOrderPrefix DEF Fits, Stream
  <2> QED BY <2>1, <2>2 DEF Stream, Continues, Sendable
<1>17. Shape(r[a], wrote[a], a \in executed)
  BY <1>13 DEF Fits
<1>18. /\ UNCHANGED <<detached, wrote, executed, runs>> /\ recv'[a] = recv[a] /\ r'[a] = r[a] /\ w' = w
       /\ \A b \in Attempts \ {a} : recv'[b] = recv[b] /\ r'[b] = r[b]
  OBVIOUS
<1> QED BY <1>9, <1>10, <1>11, <1>12, <1>14, <1>15, <1>16, <1>17, <1>18, ClientMoves

LEMMA TryReturned == ASSUME IInv, NEW a \in Attempts, TryReturns(a) PROVE IInv'
<1>1. /\ try[a] = "wait" /\ Cancel(a) /\ recvDone' = [recvDone EXCEPT ![a] = <<>>]
      /\ UNCHANGED <<detached, recv, w, runnerVars>>
  BY DEF TryReturns
<1>2. sent' \in [Attempts -> 0..Frames]
  <2>1. Frames \in 0..Frames
    BY FramesAssumption
  <2> QED BY <2>1 DEF TryReturns, IInv, TypeOK
<1>3. Fits(a, r[a], toLB[a], wrote[a])
  BY DEF IInv, AttemptInv
<1>4. <<>> \in Seq(Errors) /\ Len(<<>>) <= 1
  OBVIOUS
<1>5. PICK t \in {"notplaced", "ok", "err", "ctx"} :
        /\ try' = [try EXCEPT ![a] = t]
        /\ t = "notplaced" => recvDone[a] # <<>> /\ Head(recvDone[a]) = "busy"
        /\ t = "ok" => recvDone[a] = <<>> /\ recv[a] = "done"
  BY DEF TryReturns, isTooBusy
<1>6. NotPlaced(r[a], a \in executed, t)
  <2>1. recvDone[a] # <<>> => Head(recvDone[a]) = recvDone[a][1]
    BY DEF IInv, TypeOK
  <2> QED BY <1>3, <1>5, <2>1 DEF Fits, BusyIsRefused, NotPlaced
<1>7. Result(a \in executed, detached, t, recv[a], <<>>, w)
  BY <1>1, <1>3, <1>5 DEF Fits, Result
<1> QED BY <1>1, <1>2, <1>4, <1>5, <1>6, <1>7, StreamGone

LEMMA LinkBroken == ASSUME IInv, NEW a \in Attempts, LinkBreaks(a) PROVE IInv'
<1>1. Cancel(a) /\ UNCHANGED <<detached, try, sent, recv, recvDone, w, runnerVars>>
  BY DEF LinkBreaks, clientVars
<1>2. PICK t, d : t = try[a] /\ d = recvDone[a]
  OBVIOUS
<1>3. /\ t \in {"idle", "wait", "notplaced", "ok", "err", "ctx"}
      /\ d \in Seq(Errors) /\ Len(d) <= 1
      /\ try' = [try EXCEPT ![a] = t] /\ recvDone' = [recvDone EXCEPT ![a] = d]
      /\ sent' \in [Attempts -> 0..Frames]
  BY <1>1, <1>2 DEF IInv, TypeOK
<1>4. NotPlaced(r[a], a \in executed, t) /\ Result(a \in executed, detached, t, recv[a], d, w)
  BY <1>2 DEF IInv, AttemptInv, Fits
<1> QED BY <1>1, <1>2, <1>3, <1>4, StreamGone, ZenonT(40)

-----------------------------------------------------------------------------
(* The theorems.                                                           *)

LEMMA IInvInit == Init => IInv
<1> SUFFICES ASSUME Init PROVE IInv
  OBVIOUS
<1> USE DEF Init
<1>1. TypeOK
  BY AttemptsAssumption, FramesAssumption, GoneIsHandle DEF TypeOK
<1>2. InTurn /\ OneAnswer
  BY DEF InTurn, OneAnswer
<1>3. ASSUME NEW a \in Attempts PROVE AttemptInv(a)
  <2>1. /\ try[a] = "idle" /\ recv[a] = "off" /\ recvDone[a] = <<>> /\ toLB[a] = <<>>
        /\ r[a] = NoHandle /\ wrote[a] = 0 /\ a \notin executed
    BY <1>3
  <2>2. /\ NoHandle.eng = "none" /\ NoHandle.sub = "none" /\ NoHandle.wr = "none"
        /\ NoHandle.out = "ok" /\ NoHandle.err = "none"
    BY DEF NoHandle
  <2>3. Len(<<>>) = 0
    OBVIOUS
  <2> QED
    BY <2>1, <2>2, <2>3 DEF AttemptInv, Fits, Untouched, Shape, BusyIsRefused, NotPlaced,
                            Carried, Stream, Result
<1> QED BY <1>1, <1>2, <1>3 DEF IInv

LEMMA IInvNext == IInv /\ [Next]_vars => IInv'
<1> SUFFICES ASSUME IInv, [Next]_vars PROVE IInv'
  OBVIOUS
<1>1. ASSUME NEW a \in Attempts, ClientStep(a) PROVE IInv'
  BY <1>1, TryCallFails, TryCallMade, FrameSent, MsgReceived, EofReceived, ReceiveFailed,
     TryReturned DEF ClientStep
<1>2. ASSUME NEW a \in Attempts, RunnerStep(a) PROVE IInv'
  BY <1>2, GetTryMsg, GetDataMsg, FeedData, EngagementReturns, ReceiverFails, PipeToFn,
     SubmitRefused, SubmitStarts, FnReads, FnResponds, HeaderWritten, ChunkWritten, WriteEnds,
     SubmitReturns, ResponseEnqueued, Finalize DEF RunnerStep
<1>3. ASSUME NEW a \in Attempts, LinkBreaks(a) \/ EngagementDone(a) PROVE IInv'
  BY <1>3, LinkBroken, ContextDone
<1>4. CASE UNCHANGED vars
  <2> USE <1>4 DEF vars, clientVars, runnerVars
  <2>1. TypeOK' /\ InTurn' /\ OneAnswer'
    BY DEF IInv, TypeOK, InTurn, OneAnswer
  <2>2. ASSUME NEW a \in Attempts PROVE AttemptInv(a)'
    BY DEF IInv, AttemptInv, Fits
  <2> QED BY <2>1, <2>2 DEF IInv
<1> QED BY <1>1, <1>2, <1>3, <1>4 DEF Next

(* The invariant holds, whatever the goroutines of both sides, the function  *)
(* and the connection do.                                                    *)
THEOREM InvariantHolds == Spec => []IInv
  BY IInvInit, IInvNext, PTL DEF Spec

(* At most one runner runs the function. *)
LEMMA RunOnce == IInv => RetryIsSafe
<1> SUFFICES ASSUME IInv PROVE RetryIsSafe
  OBVIOUS
<1>1. \A a \in executed : try[a] # "notplaced"
  BY DEF IInv, TypeOK, AttemptInv, Fits, NotPlaced, Untouched, Refused
<1>2. \A a, b \in executed : a = b
  BY OnePlaced DEF IInv, TypeOK, Placed
<1>3. Cardinality(executed) <= 1
  <2>1. CASE executed = {}
    BY <2>1, FS_EmptySet
  <2>2. CASE executed # {}
    <3>1. PICK a : executed = {a}
      BY <1>2, <2>2
    <3> QED BY <3>1, FS_Singleton
  <2> QED BY <2>1, <2>2
<1> QED BY <1>1, <1>3 DEF RetryIsSafe

(* A call TryExec reports as not placed was not and will not be started by  *)
(* that runner, and at most one runner starts it, however many are tried.   *)
THEOREM RetrySafe == Spec => []RetryIsSafe
  BY InvariantHolds, RunOnce, PTL

(* The caller is sent the chunks of one run, in order, and an answer        *)
(* without an error is that of a run whose whole response it was sent.      *)
THEOREM AnswersComplete == Spec => []CompleteAnswer
<1>1. IInv => CompleteAnswer
  BY DEF IInv, AttemptInv, Fits, Result, CompleteAnswer
<1> QED BY <1>1, InvariantHolds, PTL

(* The variables of client, stream and runner keep their types. *)
THEOREM RunnerProtocolTyped == Spec => []TypeOK
<1>1. IInv => TypeOK
  BY DEF IInv
<1> QED BY <1>1, InvariantHolds, PTL

-----------------------------------------------------------------------------
(* The refinement of OneCall.                                              *)

Final == {"ok", "err", "ctx"}

(* At most one attempt gives the caller its answer: the last one made. *)
LEMMA AnswerOf ==
  ASSUME IInv
  PROVE  /\ \A a \in Attempts : try[a] \in Final => answerOf = try[a]
         /\ (\A a \in Attempts : try[a] \notin Final) =>
              answerOf = IF \A a \in Attempts : try[a] = "notplaced" THEN "refused" ELSE "none"
         /\ answerOf = "ok" => executed # {}
         /\ answerOf = "refused" => executed = {} /\ \A a \in Attempts : try[a] = "notplaced"
<1> USE DEF Final
<1>1. \A a, b \in Attempts : try[a] \in Final /\ try[b] \in Final => a = b
  <2> SUFFICES ASSUME NEW a \in Attempts, NEW b \in Attempts,
                      try[a] \in Final, try[b] \in Final
               PROVE  a = b
    OBVIOUS
  <2>1. a \in Nat /\ b \in Nat /\ a >= 1 /\ b >= 1
    BY AttemptsAssumption DEF Attempts
  <2>2. ~(a < b) /\ ~(b < a)
    BY <2>1 DEF IInv, InTurn
  <2> QED BY <2>1, <2>2
<1>2. \A a \in Attempts : try[a] \in Final => answerOf = try[a]
  <2> SUFFICES ASSUME NEW a \in Attempts, try[a] \in Final PROVE answerOf = try[a]
    OBVIOUS
  <2> DEFINE c == CHOOSE b \in Attempts : try[b] \in {"ok", "err", "ctx"}
  <2>1. c \in Attempts /\ try[c] \in {"ok", "err", "ctx"}
    OBVIOUS
  <2>2. c = a
    BY <1>1, <2>1
  <2>3. answerOf = try[c]
    BY DEF answerOf
  <2> QED BY <2>2, <2>3
<1>3. (\A a \in Attempts : try[a] \notin Final) =>
        answerOf = IF \A a \in Attempts : try[a] = "notplaced" THEN "refused" ELSE "none"
  BY DEF answerOf
<1>4. answerOf = "ok" => executed # {}
  <2> SUFFICES ASSUME answerOf = "ok" PROVE executed # {}
    OBVIOUS
  <2>1. PICK a \in Attempts : try[a] = "ok"
    BY <1>2, <1>3
  <2> QED BY <2>1 DEF IInv, AttemptInv, Fits, Result
<1>5. answerOf = "refused" => executed = {} /\ \A a \in Attempts : try[a] = "notplaced"
  <2> SUFFICES ASSUME answerOf = "refused"
               PROVE  executed = {} /\ \A a \in Attempts : try[a] = "notplaced"
    OBVIOUS
  <2>1. \A a \in Attempts : try[a] = "notplaced"
    BY <1>2, <1>3
  <2>2. RetryIsSafe /\ executed \subseteq Attempts
    BY RunOnce DEF IInv, TypeOK
  <2> QED BY <2>1, <2>2 DEF RetryIsSafe
<1> QED BY <1>2, <1>3, <1>4, <1>5

(* An answer without an error is that of a run, a refusal that of none. *)
Truthful == (answerOf = "ok" => executed # {}) /\ (answerOf = "refused" => executed = {})

LEMMA AnswerTruthful == IInv => Truthful
  BY AnswerOf DEF Truthful

(* What a step can do to the answers of TryExec and to the runs. *)
LEMMA StepKinds ==
  ASSUME IInv, [Next]_vars
  PROVE  \/ try' = try /\ UNCHANGED <<executed, runs>>
         \/ try' = try /\ \E a \in Attempts : submitStarts(a)
         \/ /\ UNCHANGED <<executed, runs>>
            /\ \E a \in Attempts, t \in Final \cup {"wait", "notplaced"} :
                 /\ try' = [try EXCEPT ![a] = t]
                 /\ MayTry(a) \/ try[a] = "wait"
<1> USE DEF clientVars, runnerVars, Final
<1>1. ASSUME NEW a \in Attempts, TryFails(a) \/ TryLost(a) \/ TrySent(a) \/ TryReturns(a)
      PROVE  /\ UNCHANGED <<executed, runs>>
             /\ \E t \in Final \cup {"wait", "notplaced"} :
                  try' = [try EXCEPT ![a] = t] /\ (MayTry(a) \/ try[a] = "wait")
  BY <1>1 DEF TryFails, TryLost, TrySent, TryReturns
<1>2. ASSUME NEW a \in Attempts,
             sendToRunner(a) \/ receiveMsg(a) \/ receiveEof(a) \/ receiveFails(a)
      PROVE  try' = try /\ UNCHANGED <<executed, runs>>
  BY <1>2 DEF sendToRunner, receiveMsg, receiveEof, receiveFails
<1>3. ASSUME NEW a \in Attempts, RunnerStep(a), ~submitStarts(a)
      PROVE  try' = try /\ UNCHANGED <<executed, runs>>
  BY <1>3 DEF RunnerStep, getTryMsg, getDataMsg, feedData, EngageReturns, receiverFails, pipeToFn,
              submitRefused, fnReads, fnResponds, WriteHeader, Write, writeEnds, submitReturns,
              enqueueCallResponse, finalize, Handle
<1>4. ASSUME NEW a \in Attempts, submitStarts(a) PROVE try' = try
  BY <1>4 DEF submitStarts
<1>5. ASSUME NEW a \in Attempts, LinkBreaks(a) \/ EngagementDone(a)
      PROVE  try' = try /\ UNCHANGED <<executed, runs>>
  BY <1>5 DEF LinkBreaks, EngagementDone, Handle
<1>6. CASE UNCHANGED vars
  BY <1>6 DEF vars
<1> QED BY <1>1, <1>2, <1>3, <1>4, <1>5, <1>6 DEF Next, ClientStep

(* The starts are counted exactly: the one attempt that ran did so once. *)
Counted == runs = IF executed = {} THEN 0 ELSE 1

LEMMA CountedNext == IInv /\ Counted /\ [Next]_vars => Counted'
<1> SUFFICES ASSUME IInv, Counted, [Next]_vars PROVE Counted'
  OBVIOUS
<1>1. CASE UNCHANGED <<executed, runs>>
  BY <1>1 DEF Counted
<1>2. ASSUME NEW a \in Attempts, submitStarts(a) PROVE Counted'
  <2>1. r[a].sub = "queued" /\ executed' = executed \cup {a} /\ runs' = runs + 1
    BY <1>2 DEF submitStarts
  <2>2. executed = {}
    BY <2>1, NothingSentYet
  <2> QED BY <2>1, <2>2 DEF Counted
<1> QED BY <1>1, <1>2, StepKinds

LEMMA AlwaysCounted == Spec => []Counted
<1>1. Init => Counted
  BY DEF Init, Counted
<1> QED BY <1>1, CountedNext, InvariantHolds, PTL DEF Spec

(* The protocol is one call: the function is started at most once, by      *)
(* whatever attempt, never once the call was refused, and the caller gets  *)
(* one answer.                                                             *)
THEOREM RunnerProtocolRefines == Spec => ImplementsOneCall
<1>1. Init => Call!Init
  <2> SUFFICES ASSUME Init PROVE runs = 0 /\ answerOf = "none"
    BY DEF Call!Init
  <2>1. IInv
    BY IInvInit
  <2>2. 1 \in Attempts /\ \A a \in Attempts : try[a] = "idle"
    BY AttemptsAssumption DEF Init, Attempts
  <2>3. answerOf = "none"
    BY <2>1, <2>2, AnswerOf DEF Final
  <2> QED BY <2>3 DEF Init
<1>2. IInv /\ Counted /\ Truthful' /\ [Next]_vars =>
        [Call!Run \/ Call!Answer]_<<runs, answerOf>>
  <2> SUFFICES ASSUME IInv, Counted, Truthful', [Next]_vars
               PROVE  [Call!Run \/ Call!Answer]_<<runs, answerOf>>
    OBVIOUS
  <2>1. CASE try' = try /\ UNCHANGED <<executed, runs>>
    <3>1. answerOf' = answerOf
      BY <2>1 DEF answerOf
    <3> QED BY <2>1, <3>1
  <2>2. ASSUME NEW a \in Attempts, submitStarts(a), try' = try PROVE Call!Run
    <3>1. answerOf' = answerOf
      BY <2>2 DEF answerOf
    <3>2. r[a].sub = "queued" /\ runs' = runs + 1
      BY <2>2 DEF submitStarts
    <3>3. executed = {} /\ runs = 0
      BY <3>2, NothingSentYet DEF Counted
    <3>4. try[a] # "notplaced"
      BY <3>2 DEF IInv, AttemptInv, Fits, NotPlaced, Refused, Untouched, NoHandle
    <3>5. answerOf \notin {"ok", "refused"}
      BY <3>3, <3>4, AnswerOf
    <3> QED BY <3>1, <3>2, <3>3, <3>5 DEF Call!Run
  <2>3. ASSUME NEW a \in Attempts, NEW t \in Final \cup {"wait", "notplaced"},
               UNCHANGED <<executed, runs>>, try' = [try EXCEPT ![a] = t], MayTry(a) \/ try[a] = "wait"
        PROVE  Call!Answer \/ UNCHANGED <<runs, answerOf>>
    <3>1. try \in [Attempts -> {"idle", "wait", "notplaced", "ok", "err", "ctx"}]
      BY DEF IInv, TypeOK
    <3>2. try[a] \in {"idle", "wait"} /\ try'[a] = t
      BY <2>3, <3>1 DEF MayTry
    <3>3. \A b \in Attempts : try[b] \notin Final
      <4> SUFFICES ASSUME NEW b \in Attempts, try[b] \in Final PROVE FALSE
        OBVIOUS
      <4>1. a \in Nat /\ b \in Nat /\ a >= 1 /\ b >= 1 /\ a # b
        BY <3>2, AttemptsAssumption DEF Attempts, Final
      <4>2. ~(b < a)
        BY <2>3, <4>1 DEF MayTry, IInv, InTurn, Final
      <4>3. ~(a < b)
        BY <3>2, <4>1 DEF IInv, InTurn, Final
      <4> QED BY <4>1, <4>2, <4>3
    <3>4. answerOf = "none"
      BY <3>2, <3>3, AnswerOf
    <3>5. answerOf' = "ok" => runs = 1
      BY <2>3 DEF Truthful, Counted
    <3>6. answerOf' = "refused" => runs = 0
      BY <2>3 DEF Truthful, Counted
    <3>7. answerOf' \in Final \cup {"refused", "none"}
      BY DEF answerOf, Final
    <3> QED BY <2>3, <3>4, <3>5, <3>6, <3>7 DEF Call!Answer, Final
  <2> QED BY <2>1, <2>2, <2>3, StepKinds
<1> QED BY <1>1, <1>2, InvariantHolds, AlwaysCounted, AnswerTruthful, PTL DEF Spec, ImplementsOneCall, Call!Spec

=============================================================================
