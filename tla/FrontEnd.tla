------------------------------ MODULE FrontEnd ------------------------------
(***************************************************************************)
(* The invocation endpoints of a server side by side: plain invocations by *)
(* function id or HTTP trigger, a state machine, a load test, all on the   *)
(* one buffer pool of api/server.  A scene says which clients there are.   *)
(***************************************************************************)
EXTENDS StateMachine, LoadTest

CONSTANT Scenes   \* [machine, input, plain, test, late]; machine is <<>> for none;
                  \* late bounds the writers that calls have left behind

ASSUME FrontEndAssumption ==
  \A s \in Scenes :
    /\ \A c \in DOMAIN s.plain : s.plain[c] \in {"invoke", "detached"}
    /\ s.test.rows \in Seq(Nat) /\ s.test.count \in Nat

VARIABLE scene

frontVars == <<scene, invokeVars, smVars, ltVars>>

FrontInit ==
  /\ scene \in Scenes
  /\ InvokeInit
  /\ IF scene.machine = <<>> THEN SMIdle ELSE SMInit(scene.machine[1], scene.input)
  /\ LTInit(scene.test)

\* A client posts to the invoke endpoint or to the path of an HTTP trigger;
\* its call, and whether it is a detached one, are given by the scene.
handleFnInvokeCall(c) ==
  /\ c \in DOMAIN scene.plain /\ call[c].pc = "idle"
  /\ Start({c}, scene.plain[c])
  /\ UNCHANGED <<content, pool, writing>>

\* A panic that nobody recovers ends the process and everything in it.
Alive ==
  /\ main.pc \notin {"crashed", "raced"}
  /\ \A e \in Execs : exec[e].pc # "crashed"
  /\ \A c \in Calls : call[c].pc # "panicked"

FrontNext ==
  /\ Alive
  /\ UNCHANGED scene
  /\ \/ CallNext(Cardinality(writing) < scene.late) /\ UNCHANGED <<smVars, ltVars>>
     \/ (\E c \in Calls : handleFnInvokeCall(c)) /\ UNCHANGED <<smVars, ltVars>>
     \/ SMNext /\ UNCHANGED ltVars
     \/ LTNext /\ UNCHANGED smVars

(* The server goes on as long as a handler can: goroutines run, every call  *)
(* ends (it has a timeout), the timer of a benchmark worker fires, waves    *)
(* are started.  Clients and late writers promise nothing.                  *)
Work ==
  /\ Alive
  /\ UNCHANGED scene
  /\ \/ (\E c \in Calls : CallStep(c)) /\ UNCHANGED <<smVars, ltVars>>
     \/ SMNext /\ UNCHANGED ltVars
     \/ LTNext /\ UNCHANGED smVars

FrontSpec == FrontInit /\ [][FrontNext]_frontVars /\ WF_frontVars(Work)

-----------------------------------------------------------------------------
AllAnswered ==
  /\ scene.machine # <<>> => exec[Root].pc = "answered"
  /\ scene.test.kind # "none" => main.pc \in {"reported", "error", "panicked"}
  /\ \A c \in Calls : call[c].pc = "idle" \/ Ended(c)

\* What takes the server down.
Excused ==
  /\ main.pc = "crashed" => test.kind \in Spikes \ {"cache"} /\ Len(test.rows) < Minutes
  /\ main.pc = "raced" => HeadersShared
  /\ (\E c \in Calls : call[c].pc = "panicked") => test.kind \in Spikes /\ test.lb /\ test.detached
  /\ \A e \in Execs : exec[e].pc = "crashed" => e # Root /\ State(e) = Null

=============================================================================
