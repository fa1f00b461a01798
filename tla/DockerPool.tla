----------------------------- MODULE DockerPool -----------------------------
(***************************************************************************)
(* dockerPool (api/agent/drivers/docker/docker_pool.go): pre-forked        *)
(* containers whose network function containers join.  One nanny goroutine *)
(* per container creates, starts, registers, waits and starts again; the   *)
(* container keeps the id of its task over all of its lives.               *)
(***************************************************************************)
EXTENDS Integers, Sequences, FiniteSets, SequencesExt

CONSTANT PoolIds        \* the task ids, one per nanny

VARIABLES
  inuse,        \* ids handed out
  free,         \* ids to hand out, a stack
  nanny,        \* [PoolIds -> where the nanny goroutine is]
  cancelled,    \* [PoolIds -> the registered life was cancelled by FreePoolId]
  poolCtx,      \* FALSE once Close has cancelled the pool's context
  gate,         \* pullGate is closed
  poolClose,    \* Close: "idle", "waiting", "returned"
  fatal,        \* log.Fatal: the process is gone
  exitedInUse   \* history: a container died while its id was handed out

poolVars == <<inuse, free, nanny, cancelled, poolCtx, gate, poolClose, fatal, exitedInUse>>

\* gate: before the loop; limit: in limiter.Wait; init: past it; ready: created;
\* up: registered; down: unregistered, about to be killed; done: left the loop;
\* gone: torn down
NannyState == {"gate", "limit", "init", "ready", "up", "down", "done", "gone"}

PoolInit(start, opened) ==
  /\ inuse = {} /\ free = <<>>
  /\ nanny = [p \in PoolIds |-> start]
  /\ cancelled = [p \in PoolIds |-> FALSE]
  /\ poolCtx = TRUE /\ gate = opened
  /\ poolClose = "idle" /\ fatal = FALSE /\ exitedInUse = FALSE

Nanny(p, from, to) == nanny[p] = from /\ nanny' = [nanny EXCEPT ![p] = to]

\* The head of the loop: leave it when the context is over.
Loop(state) == IF poolCtx THEN state ELSE "done"

(* prepareImage loops only while the context has an error: it pulls nothing *)
(* and opens the gate, unless Close was faster: then limiter.Wait fails and *)
(* log.Fatal ends the process.                                              *)
prepareImage ==
  /\ ~gate /\ ~fatal
  /\ IF poolCtx THEN gate' = TRUE /\ UNCHANGED fatal
                ELSE fatal' = TRUE /\ UNCHANGED gate
  /\ UNCHANGED <<inuse, free, nanny, cancelled, poolCtx, poolClose, exitedInUse>>

nannyGate(p) ==
  /\ gate \/ ~poolCtx
  /\ Nanny(p, "gate", Loop("limit"))
  /\ UNCHANGED <<inuse, free, cancelled, poolCtx, gate, poolClose, fatal, exitedInUse>>

(* limiter.Wait returns an error when the context ends while it waits.      *)
nannyFatal(p) ==
  /\ nanny[p] = "limit" /\ ~poolCtx /\ ~fatal
  /\ fatal' = TRUE
  /\ UNCHANGED <<inuse, free, nanny, cancelled, poolCtx, gate, poolClose, exitedInUse>>

nannyWaited(p) ==
  /\ poolCtx
  /\ Nanny(p, "limit", "init")
  /\ UNCHANGED <<inuse, free, cancelled, poolCtx, gate, poolClose, fatal, exitedInUse>>

(* performInitState: remove what is left, create; a failure is tried again, *)
(* unless it is the end of the context that made it fail.                   *)
performInitState(p) ==
  /\ Nanny(p, "init", "ready") \/ Nanny(p, "init", Loop("limit"))
  /\ UNCHANGED <<inuse, free, cancelled, poolCtx, gate, poolClose, fatal, exitedInUse>>

(* performReadyState: start and register.  A start that fails still kills   *)
(* and goes back to the initial state.                                      *)
register(p) ==
  /\ Nanny(p, "ready", "up")
  /\ free' = Append(free, p)
  /\ cancelled' = [cancelled EXCEPT ![p] = FALSE]
  /\ UNCHANGED <<inuse, poolCtx, gate, poolClose, fatal, exitedInUse>>

startFails(p) ==
  /\ Nanny(p, "ready", Loop("limit"))
  /\ UNCHANGED <<inuse, free, cancelled, poolCtx, gate, poolClose, fatal, exitedInUse>>

(* The container exits, or its wait is cancelled: the id leaves the pool,   *)
(* whoever holds it.                                                        *)
unregister(p) ==
  /\ Nanny(p, "up", "down")
  /\ IF p \in inuse THEN inuse' = inuse \ {p} /\ UNCHANGED free
                    ELSE free' = RemoveFirst(free, p) /\ UNCHANGED inuse
  /\ exitedInUse' = (exitedInUse \/ (p \in inuse /\ poolCtx))
  /\ UNCHANGED <<cancelled, poolCtx, gate, poolClose, fatal>>

(* The deferred kill: only a life cancelled on purpose, and killed, may be  *)
(* started again without being created anew.                                *)
killed(p) ==
  /\ \/ cancelled[p] /\ poolCtx /\ Nanny(p, "down", "ready")
     \/ Nanny(p, "down", Loop("limit"))
  /\ UNCHANGED <<inuse, free, cancelled, poolCtx, gate, poolClose, fatal, exitedInUse>>

(* wg.Done runs before the teardown: the defers unwind in reverse order.    *)
performTeardown(p) ==
  /\ Nanny(p, "done", "gone")
  /\ UNCHANGED <<inuse, free, cancelled, poolCtx, gate, poolClose, fatal, exitedInUse>>

PoolClose ==
  /\ poolClose = "idle"
  /\ poolClose' = "waiting" /\ poolCtx' = FALSE
  /\ UNCHANGED <<inuse, free, nanny, cancelled, gate, fatal, exitedInUse>>

PoolClosed ==
  /\ poolClose = "waiting" /\ gate
  /\ \A p \in PoolIds : nanny[p] \in {"done", "gone"}
  /\ poolClose' = "returned"
  /\ UNCHANGED <<inuse, free, nanny, cancelled, poolCtx, gate, fatal, exitedInUse>>

(* AllocPoolId takes the id freed last.                                     *)
AllocPoolIdKeeps ==                     \* mutant: the id stays on the stack
  /\ free # <<>>
  /\ inuse' = inuse \cup {Last(free)}
  /\ UNCHANGED <<free, nanny, cancelled, poolCtx, gate, poolClose, fatal, exitedInUse>>

AllocPoolId ==
  /\ free # <<>>
  /\ free' = Front(free) /\ inuse' = inuse \cup {Last(free)}
  /\ UNCHANGED <<nanny, cancelled, poolCtx, gate, poolClose, fatal, exitedInUse>>

(* FreePoolId goes by the id alone.  A recycled container is cancelled.     *)
FreePoolId(p, isRecycle) ==
  /\ inuse' = inuse \ {p}
  /\ cancelled' = [cancelled EXCEPT ![p] = @ \/ (p \in inuse /\ isRecycle)]
  /\ free' = IF p \in inuse /\ ~isRecycle THEN Append(free, p) ELSE free
  /\ UNCHANGED <<nanny, poolCtx, gate, poolClose, fatal, exitedInUse>>

nannyStep(p) ==
  \/ nannyGate(p) \/ nannyFatal(p) \/ nannyWaited(p) \/ performInitState(p) \/ register(p)
  \/ startFails(p) \/ unregister(p) \/ killed(p) \/ performTeardown(p)

=============================================================================
