------------------------------ MODULE LoadTest ------------------------------
(***************************************************************************)
(* The load generators built into the server (api/server/                  *)
(* runner_fninvoke.go handleCache, handleRealSpike, handleRealSpike2,      *)
(* handleSpikeCall, randomInvoke; runner_httptrigger.go benchmark).        *)
(*                                                                         *)
(* A spike test goes through the minutes of a file of request counts: for  *)
(* each minute a goroutine (a wave) starts that many calls, each of which  *)
(* stores its latency in a cell of its own, waits for them (wg2) and       *)
(* averages; the handler waits for the waves (wg) and writes the report.   *)
(* A benchmark starts workers that call until a timer fires; the handler   *)
(* gathers their counts over channels.                                     *)
(*                                                                         *)
(* Latencies are kept as the number of times a cell was stored to.         *)
(***************************************************************************)
EXTENDS FnInvoke

CONSTANTS
  Minutes,      \* test_minute: 10, or 1440
  Quarter,      \* the counts of the file are divided by it: 4
  Slots,        \* the seconds of a minute: 60
  Scale,        \* handleSpikeCall divides by it: 240
  First, Second,\* the two waves of handleCache in a minute: 240 and 480
  MaxNoise,     \* bound of the random calls of randomInvoke: 99
  MaxPerMinute, \* bound of the calls of a minute
  MaxLoops      \* bound of the calls of a benchmark worker

ASSUME LoadTestAssumption ==
  /\ {Minutes, Quarter, Slots, Scale, MaxPerMinute, MaxLoops} \subseteq Nat \ {0}
  /\ {First, Second, MaxNoise} \subseteq Nat

VARIABLES
  test,      \* [kind, rows, count, lb, detached]: what the client asked for, of a
             \* load balancer or not, with Fn-Invoke-Type detached or not
  main,      \* the handler: pc, and the wave or worker it is at
  wave,      \* [Waves -> the goroutine of a wave]
  stored,    \* [minute -> [cell -> stores]]: all_latency
  worker     \* [worker -> the goroutine of a benchmark worker]

ltVars == <<test, main, wave, stored, worker>>

NoTest == [kind |-> "none", rows |-> <<>>, count |-> 0, lb |-> FALSE, detached |-> FALSE]
Spikes == {"cache", "realspike", "realspike2", "spike", "random"}

Waves == (1 .. Minutes) \X {1, 2}
\* The waves in the order the handler starts them.
Halves == IF test.kind = "cache" THEN 2 ELSE 1
WaveAt(k) == <<((k - 1) \div Halves) + 1, ((k - 1) % Halves) + 1>>
Launches == Minutes * Halves

NoWave == [pc |-> "off", sent |-> 0, open |-> {}, total |-> 0, averaged |-> 0]

LTInit(t) ==
  /\ test = t
  /\ main = [pc |-> "run", at |-> 1, ok |-> 0, bad |-> 0]
  /\ wave = [w \in Waves |-> NoWave]
  /\ stored = [m \in 1 .. Minutes |-> <<>>]
  /\ worker = [w \in 1 .. t.count |-> [pc |-> "new", ok |-> 0, bad |-> 0]]

-----------------------------------------------------------------------------
(* How many calls a wave makes, how many cells its minute has, how many     *)
(* calls are started at once, and the cell each one stores to.              *)

handleCache(h) ==
  [total |-> IF h = 1 THEN First ELSE Second, cells |-> First + Second,
   batch |-> IF h = 1 THEN First ELSE Second, shift |-> IF h = 1 THEN 0 ELSE First]

\* Exactly Slots calls a minute are neither few nor many, and not made.
handleRealSpike(row) ==
  LET n == row \div Quarter
      each == n \div Slots
  IN  IF n < Slots THEN [total |-> n, cells |-> n, batch |-> n, shift |-> 0]
      ELSE IF n = Slots THEN [total |-> 0, cells |-> 0, batch |-> 0, shift |-> 0]
      ELSE [total |-> each * Slots, cells |-> each * Slots, batch |-> each, shift |-> 0]

handleRealSpike2(row) ==
  LET n == row \div Quarter IN [total |-> n, cells |-> n, batch |-> n, shift |-> 0]

handleSpikeCall(row) ==
  LET n == IF row < Scale /\ row # 0 THEN 1 ELSE row \div Scale
  IN  [total |-> n, cells |-> n, batch |-> n, shift |-> 0]

\* Calls that nobody measures.
randomInvoke(row, noise) ==
  LET n == IF row = 0 THEN 0 ELSE noise
  IN  [total |-> n, cells |-> 0, batch |-> n, shift |-> 0]

Plan(w, noise) ==
  LET row == test.rows[w[1]] IN
  CASE test.kind = "cache" -> handleCache(w[2])
    [] test.kind = "realspike" -> handleRealSpike(row)
    [] test.kind = "realspike2" -> handleRealSpike2(row)
    [] test.kind = "spike" -> handleSpikeCall(row)
    [] test.kind = "random" -> randomInvoke(row, noise)

\* The q-th call of the wave, r-th of its second: second * calls per second + r.
cellOf(p, q) == p.shift + ((q \div p.batch) * p.batch) + (q % p.batch)

\* The calls of a wave, numbered from 0.
CallOf(w, q) == (w[1] - 1) * MaxPerMinute + (w[2] - 1) * First + q

-----------------------------------------------------------------------------
(* The handler starts a wave every minute.  The goroutine reads its count:  *)
(* a file that is missing or short is an index out of range in a goroutine  *)
(* nobody recovers, which ends the process.                                 *)
launch ==
  /\ test.kind \in Spikes
  /\ main.pc = "run" /\ main.at <= Launches
  /\ LET w == WaveAt(main.at) IN
     IF test.kind # "cache" /\ Len(test.rows) < w[1]
     THEN /\ main' = [main EXCEPT !.pc = "crashed"]
          /\ UNCHANGED <<wave, stored>>
     ELSE \E noise \in 1 .. MaxNoise :
          /\ test.kind # "random" => noise = 1
          /\ wave' = [wave EXCEPT ![w] = [NoWave EXCEPT !.pc = "sending", !.total = Plan(w, noise).total]]
          /\ stored' = IF w[2] = 2 THEN stored
                       ELSE [stored EXCEPT ![w[1]] = [i \in 0 .. Plan(w, noise).cells - 1 |-> 0]]
          /\ main' = [main EXCEPT !.at = @ + 1]
  /\ UNCHANGED <<test, worker, invokeVars>>

Unsent(w) == wave[w].sent < wave[w].total
BatchOf(w) == IF test.kind = "random" THEN wave[w].total ELSE Plan(w, 1).batch

\* The calls are made with the client's request, and a syncResponseWriter.
spikeWay == IF test.lb /\ test.detached THEN "panics" ELSE "spike"

\* The calls of one second: wg2.Add was called for all of them before.
sendBatch(w) ==
  /\ wave[w].pc = "sending" /\ Unsent(w)
  /\ LET cs == {CallOf(w, q) : q \in wave[w].sent .. wave[w].sent + BatchOf(w) - 1}
     IN  /\ Start(cs, spikeWay)
         /\ wave' = [wave EXCEPT ![w].sent = @ + BatchOf(w), ![w].open = @ \cup cs]
  /\ UNCHANGED <<test, main, stored, worker, content, pool, writing>>

\* A call is over, well or not: its cell is stored to, a failed one writes its
\* error to the response, and wg2 is counted down.
callDone(w, q) ==
  LET c == CallOf(w, q)
      i == cellOf(Plan(w, 1), q)
  IN
  /\ c \in wave[w].open /\ Ended(c)
  /\ wave' = [wave EXCEPT ![w].open = @ \ {c}]
  /\ IF test.kind = "random" THEN UNCHANGED <<main, stored>>
     ELSE IF i \in DOMAIN stored[w[1]]
     THEN stored' = [stored EXCEPT ![w[1]][i] = @ + 1] /\ UNCHANGED main
     ELSE main' = [main EXCEPT !.pc = "crashed"] /\ UNCHANGED stored
  /\ UNCHANGED <<test, worker, invokeVars>>

\* The calls of a test share one response, and its headers are a map.  Submit adds
\* those of the function to it (writeResp), that of a load balancer copies it
\* (receiveFromRunner), and a failed call sets its own (WriteError).
Uses(c, pcs) == \E w \in Waves : c \in wave[w].open /\ call[c].pc \in pcs
HeadersShared ==
  \E c, d \in Calls : /\ c # d
                     /\ Uses(c, IF test.lb THEN {"failed"} ELSE {"submit", "failed"})
                     /\ Uses(d, {"submit", "failed"})

\* The runtime finds two of them at it and ends the process.
headersRace ==
  /\ test.kind \in Spikes /\ HeadersShared
  /\ main' = [main EXCEPT !.pc = "raced"]
  /\ UNCHANGED <<test, wave, stored, worker, invokeVars>>

\* Mutant: the wave does not wait for its calls.
wg2ZeroAlways(w) == TRUE
wg2Zero(w) == wave[w].open = {}

\* wg2.Wait returned: the average is taken over what is stored by now.
waveEnds(w) ==
  /\ wave[w].pc = "sending" /\ ~Unsent(w) /\ wg2Zero(w)
  /\ wave' = [wave EXCEPT ![w].pc = "done",
                ![w].averaged = Cardinality({i \in DOMAIN stored[w[1]] : stored[w[1]][i] > 0})]
  /\ UNCHANGED <<test, main, stored, worker, invokeVars>>

\* wg counts a minute down once; the first wave of handleCache is not counted.
Counted(w) == w[2] = Halves

\* The files of the report; one that cannot be created is an error to the client,
\* and the next is tried.
report ==
  /\ test.kind \in Spikes
  /\ main.pc = "run" /\ main.at > Launches
  /\ \A w \in Waves : Counted(w) => wave[w].pc = "done"
  /\ \E p \in {"reported", "error"} : main' = [main EXCEPT !.pc = p]
  /\ UNCHANGED <<test, wave, stored, worker, invokeVars>>

-----------------------------------------------------------------------------
(* benchmark: one worker per call number, Workers 1 .. count.               *)

startWorkers ==
  /\ test.kind = "benchmark" /\ main.pc = "run"
  /\ Start(DOMAIN worker, "task")
  /\ worker' = [w \in DOMAIN worker |-> [worker[w] EXCEPT !.pc = "loop"]]
  /\ main' = [main EXCEPT !.pc = "gather"]
  /\ UNCHANGED <<test, wave, stored, content, pool, writing>>

\* A call is over: it is counted, then the timer is looked at.
loop(w) ==
  /\ worker[w].pc = "loop" /\ Ended(w)
  /\ LET x == IF call[w].pc = "ok" THEN [worker[w] EXCEPT !.ok = @ + 1]
                                   ELSE [worker[w] EXCEPT !.bad = @ + 1]
     IN  \/ worker' = [worker EXCEPT ![w] = [x EXCEPT !.pc = "send"]] /\ UNCHANGED call
         \/ /\ x.ok + x.bad < MaxLoops
            /\ worker' = [worker EXCEPT ![w] = x]
            /\ Start({w}, "task")
  /\ UNCHANGED <<test, main, wave, stored, content, pool, writing>>

adds(x) == [main EXCEPT !.at = @ + 1, !.ok = @ + x.ok, !.bad = @ + x.bad]

\* The handler takes the workers in order; a worker waits until it is its turn.
gather(w) ==
  /\ main.pc = "gather" /\ main.at = w /\ worker[w].pc = "send"
  /\ main' = adds(worker[w])
  /\ worker' = [worker EXCEPT ![w].pc = "gone"]
  /\ UNCHANGED <<test, wave, stored, invokeVars>>

\* No worker at all is an index out of range, which gin recovers; a completed
\* call per worker is needed for a latency that JSON can express.
benchmarkEnds ==
  /\ main.pc = "gather" /\ main.at > test.count
  /\ main' = [main EXCEPT !.pc = IF test.count = 0 THEN "panicked"
                                 ELSE IF main.ok \div test.count = 0 THEN "error" ELSE "reported"]
  /\ UNCHANGED <<test, wave, stored, worker, invokeVars>>

-----------------------------------------------------------------------------
WaveStep(w) ==
  \/ sendBatch(w) \/ waveEnds(w)
  \/ \E q \in 0 .. MaxPerMinute - 1 : callDone(w, q)
WorkerStep(w) == loop(w) \/ gather(w)

LTNext ==
  \/ launch \/ report \/ headersRace \/ startWorkers \/ benchmarkEnds
  \/ \E w \in Waves : WaveStep(w)
  \/ \E w \in DOMAIN worker : WorkerStep(w)

\* The calls the workers have counted, as completed and as failed.
Completed == {u \in (DOMAIN worker) \X (1 .. MaxLoops) : u[2] <= worker[u[1]].ok}
Failures == {u \in (DOMAIN worker) \X (1 .. MaxLoops) : u[2] <= worker[u[1]].bad}

(* A report is about all of the test.  When a spike test reports, every     *)
(* call of a minute that wg counts has stored its latency, once, in a cell  *)
(* of its own, and was there when the average was taken (the first wave of  *)
(* handleCache is not waited for and may be missing); when a benchmark      *)
(* reports, no worker is calling any more and every call of every worker is *)
(* counted once, as completed or as failed.                                 *)
ReportComplete ==
  /\ main.pc \in {"reported", "error"} /\ test.kind \in Spikes =>
       \A w \in {v \in Waves : Counted(v)} :
         /\ wave[w].open = {} /\ wave[w].sent = wave[w].total
         /\ test.kind # "random" =>
              /\ \A i \in DOMAIN stored[w[1]] :
                   stored[w[1]][i] = 1 \/ (test.kind = "cache" /\ i < First)
              /\ wave[w].averaged >= wave[w].total
  /\ main.pc \in {"reported", "error"} /\ test.kind = "benchmark" =>
       /\ \A w \in DOMAIN worker : worker[w].pc = "gone"
       /\ main.ok = Cardinality(Completed) /\ main.bad = Cardinality(Failures)
=============================================================================
