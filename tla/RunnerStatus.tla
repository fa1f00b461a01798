---------------------------- MODULE RunnerStatus ----------------------------
(***************************************************************************)
(* The status tracker of a pure runner (api/agent/runner_status.go): the   *)
(* load balancers ask a runner for its status, which the runner finds out  *)
(* by running a status image.  Concurrent requests share one run, and its  *)
(* result is cached for StatusCallCacheDuration.                           *)
(*                                                                         *)
(* A request goes new, check (the time is read, the lock is not yet held), *)
(* then fetch if the cache is fresh, or waiting on the channel of a run;   *)
(* the request that made the channel also starts the run.  A run goes      *)
(* running, timed (it is over, its end is read) and out (published).       *)
(* Every run has its own channel, so a channel is named by its run.        *)
(***************************************************************************)
EXTENDS Integers, FiniteSets

CONSTANTS
  Reqs,          \* the status requests
  CacheDuration, \* StatusCallCacheDuration, in ticks of the clock
  MaxTime,       \* bound of the clock
  MaxRuns        \* bound of the status calls run

ASSUME StatusAssumption ==
  CacheDuration \in Nat /\ MaxTime \in Nat /\ MaxRuns \in Nat

Runs == 1 .. MaxRuns
NoRun == 0

VARIABLES
  clock,    \* the time
  req,      \* [Reqs -> the goroutine of a request]
  run,      \* [Runs -> the goroutine of a run]
  cache,    \* statusTracker.cache: a run, or NoRun for nil
  expiry,   \* statusTracker.expiry
  wait,     \* statusTracker.wait: the run whose channel it is, or NoRun
  closed,   \* the closed channels
  isCached  \* the runs whose RunnerStatus has Cached set

statusVars == <<clock, req, run, cache, expiry, wait, closed, isCached>>

NewReq == [pc |-> "new", now |-> 0, on |-> NoRun, got |-> NoRun, cached |-> FALSE]

\* The zero time.Time of a new tracker lies before every time.
ZeroTime == 0

StatusInit ==
  /\ clock = 1
  /\ req = [r \in Reqs |-> NewReq]
  /\ run = [i \in Runs |-> [pc |-> "new", end |-> 0, out |-> 0]]
  /\ cache = NoRun /\ expiry = ZeroTime /\ wait = NoRun
  /\ closed = {} /\ isCached = {}

Tick ==
  /\ clock < MaxTime
  /\ clock' = clock + 1
  /\ UNCHANGED <<req, run, cache, expiry, wait, closed, isCached>>

-----------------------------------------------------------------------------
(* handleStatusCall.                                                        *)

\* A status image is configured; without one the gauges are answered at once.
\* checkStatusCall reads the time before it takes the lock.
Arrive(r) ==
  /\ req[r].pc = "new"
  /\ req' = [req EXCEPT ![r].pc = "check", ![r].now = clock]
  /\ UNCHANGED <<clock, run, cache, expiry, wait, closed, isCached>>

fromCacheStale(now) == cache # NoRun        \* mutant: the expiry is ignored
fromCache(now) == expiry > now              \* st.expiry.After(now)

alreadyRunning == wait # NoRun

NextRun == {i \in Runs : run[i].pc = "new" /\ \A j \in Runs : run[j].pc = "new" => i <= j}

checkStatusCall(r) ==
  /\ req[r].pc = "check"
  /\ \/ /\ fromCache(req[r].now)
        /\ req' = [req EXCEPT ![r].pc = "fetch"]
        /\ UNCHANGED <<run, wait>>
     \/ /\ ~fromCache(req[r].now) /\ alreadyRunning
        /\ req' = [req EXCEPT ![r].pc = "waiting", ![r].on = wait]
        /\ UNCHANGED <<run, wait>>
     \/ /\ ~fromCache(req[r].now) /\ ~alreadyRunning
        /\ \E i \in NextRun :
             /\ wait' = i
             /\ run' = [run EXCEPT ![i].pc = "running"]
             /\ req' = [req EXCEPT ![r].pc = "waiting", ![r].on = i]
  /\ UNCHANGED <<clock, cache, expiry, closed, isCached>>

\* The select: the client's context ended, or the channel was closed.
GiveUp(r) ==
  /\ req[r].pc = "waiting"
  /\ req' = [req EXCEPT ![r].pc = "error"]
  /\ UNCHANGED <<clock, run, cache, expiry, wait, closed, isCached>>

Woken(r) ==
  /\ req[r].pc = "waiting" /\ req[r].on \in closed
  /\ req' = [req EXCEPT ![r].pc = "fetch"]
  /\ UNCHANGED <<clock, run, cache, expiry, wait, closed, isCached>>

markCached == isCached \cup {cache}

\* fetchStatusCall copies what is in the cache now, then marks it cached; the
\* answer carries ctx.Err(), an error if the client is gone by now.
fetchStatusCall(r) ==
  /\ req[r].pc = "fetch"
  /\ \E to \in {"done", "error"} :
       req' = [req EXCEPT ![r].pc = to, ![r].got = cache, ![r].cached = cache \in isCached]
  /\ isCached' = markCached
  /\ UNCHANGED <<clock, run, cache, expiry, wait, closed>>

-----------------------------------------------------------------------------
(* spawnStatusCall.  The run is cut from its client's context and has a     *)
(* timeout of its own, so it always ends.  A bad result is a result too,    *)
(* cached like a good one.                                                  *)

runStatusCall(i) ==
  /\ run[i].pc = "running"
  /\ run' = [run EXCEPT ![i].pc = "timed", ![i].end = clock]
  /\ UNCHANGED <<clock, req, cache, expiry, wait, closed, isCached>>

newExpiry(i) == run[i].end + CacheDuration

publish(i) ==
  /\ run[i].pc = "timed"
  /\ cache' = i
  /\ expiry' = newExpiry(i)
  /\ wait' = NoRun
  /\ run' = [run EXCEPT ![i].pc = "closing", ![i].out = clock]
  /\ UNCHANGED <<clock, req, closed, isCached>>

\* The channel taken from st.wait before it was reset.
waitChanLate(i) == wait             \* mutant: st.wait is read after the reset
waitChan(i) == i

closeWait(i) ==
  /\ run[i].pc = "closing"
  /\ closed' = closed \cup {waitChan(i)}
  /\ run' = [run EXCEPT ![i].pc = "over"]
  /\ UNCHANGED <<clock, req, cache, expiry, wait, isCached>>

-----------------------------------------------------------------------------
ReqStep(r) == checkStatusCall(r) \/ Woken(r) \/ fetchStatusCall(r)
RunStep(i) == runStatusCall(i) \/ publish(i) \/ closeWait(i)

StatusNext ==
  \/ Tick
  \/ \E r \in Reqs : Arrive(r) \/ ReqStep(r) \/ GiveUp(r)
  \/ \E i \in Runs : RunStep(i)

(* Goroutines run; the timeout of runStatusCall ends every run.  A client   *)
(* need not ask and need not go away.                                       *)
StatusSpec == StatusInit /\ [][StatusNext]_statusVars
             /\ \A r \in Reqs : WF_statusVars(ReqStep(r))
             /\ \A i \in Runs : WF_statusVars(RunStep(i))

-----------------------------------------------------------------------------
Live(i) == run[i].pc \in {"running", "timed"}

(* No request is answered with a stale status: the run behind the answer    *)
(* was published after the request came, or was not expired when it came.   *)
FreshAnswer ==
  \A r \in Reqs : req[r].pc = "done" =>
    LET a == run[req[r].got] IN
      \/ a.out >= req[r].now
      \/ a.end + CacheDuration > req[r].now

(* Every request that came is answered or given up, also the ones whose     *)
(* spawner went away and the ones that wait for a failing run.              *)
StatusAnswered ==
  \A r \in Reqs : req[r].pc = "check" ~> req[r].pc \in {"done", "error"}
=============================================================================
