---------------------------- MODULE StateMachine ----------------------------
(***************************************************************************)
(* State machines (api/server/runner_httptrigger.go, models/               *)
(* state_machine.go): a client posts a machine and an input, the server    *)
(* goes from state to state, a Task state calls a function with the input, *)
(* a Parallel state runs another machine once for every element of a list  *)
(* in the input, each in a goroutine, and gathers the results.             *)
(*                                                                         *)
(* An execution of handleStateMachine is a number, Root or Kid(e, i) for   *)
(* the i-th branch of e; it makes its calls as that call of FnInvoke.      *)
(* Strings are trees: what a function made of its input, JSON objects of   *)
(* one key and JSON arrays.                                                *)
(***************************************************************************)
EXTENDS FnInvoke, FiniteSetsExt

CONSTANTS
  Execs,      \* the executions, a subset of Calls
  MaxItems,   \* bound of the lists that are run in parallel
  Splitters,  \* the functions that answer an object with a list
  SplitKey    \* the key under which they do

Root == 0
Kid(e, i) == e * MaxItems + i

ASSUME StateMachineAssumption == Root \in Execs /\ Execs \subseteq Calls /\ MaxItems \in Nat \ {0}

VARIABLES
  exec,     \* [Execs -> handleStateMachine and, at a Parallel state, handleParallel]
  failedAt  \* the tasks <<execution, state>> that failed so far

smVars == <<exec, failedAt>>

-----------------------------------------------------------------------------
(* Strings                                                                  *)

Text(name, of) == [tag |-> "text", name |-> name, parts |-> of]
Object(key, v) == [tag |-> "object", name |-> key, parts |-> <<v>>]
Array(vs) == [tag |-> "array", name |-> "", parts |-> vs]

\* What the user's functions answer.
Apply(fn, v) ==
  IF fn \in Splitters
  THEN Object(SplitKey, Array([i \in 1 .. MaxItems |-> Text(fn, [j \in 1 .. i |-> v])]))
  ELSE Text(fn, <<v>>)
Spoilt == Text("spoilt", <<>>)

Ok(v) == [ok |-> TRUE, val |-> v, err |-> <<"", Root>>]
Error(what, e) == [ok |-> FALSE, val |-> Text("nil", <<>>), err |-> <<what, e>>]

\* The list a Parallel state runs over, or why there is none.
itemsOf(state, v, e) ==
  IF v.tag # "object" THEN Error("json", e)
  ELSE IF state.Par = <<>> THEN Error("no ParallelExecution", e)
  ELSE IF v.name # state.Par[1].key THEN Error("key not found", e)
  ELSE IF v.parts[1].tag # "array" THEN Error("not a list", e)
  ELSE Ok(v.parts[1])

\* Mutant: every branch gets the last item, the loop variable is shared.
branchInputLast(state, items, i) == Object(state.Par[1].item, items[Len(items)])
branchInput(state, items, i) == Object(state.Par[1].item, items[i])

-----------------------------------------------------------------------------
NoExec == [pc |-> "none", m |-> <<>>, cur |-> "", in |-> Spoilt, i |-> 0,
           results |-> <<>>, errors |-> <<>>, res |-> Error("", Root)]

Running(m, v) == [NoExec EXCEPT !.pc = "state", !.m = m, !.cur = m.StartAt, !.in = v]

SMInit(m, v) ==
  /\ exec = [e \in Execs |-> IF e = Root THEN Running(m, v) ELSE NoExec]
  /\ failedAt = {}
SMIdle == exec = [e \in Execs |-> NoExec] /\ failedAt = {}

State(e) == exec[e].m.States[exec[e].cur]
Known(e) == exec[e].pc = "state" /\ exec[e].cur \in DOMAIN exec[e].m.States

\* A state that is null in the posted JSON: a nil *State.
Null == [nil |-> TRUE]

\* handleStateMachine returns: to the client or to the goroutine of the branch.
returns(x, e, r) == [x EXCEPT !.pc = IF e = Root THEN "answered" ELSE "sendResult", !.res = r]

\* The end of the loop body.
nextState(x, e, state, v) ==
  IF state.End THEN returns(x, e, Ok(v))
  ELSE [x EXCEPT !.pc = "state", !.in = v, !.cur = state.Next, !.i = 0, !.results = <<>>, !.errors = <<>>]

\* An unknown state or an unknown type ends the execution.
unknown(e) ==
  /\ exec[e].pc = "state"
  /\ \/ /\ ~Known(e)
        /\ exec' = [exec EXCEPT ![e] = returns(@, e, Error("Unknown state name", e))]
     \/ /\ Known(e) /\ State(e) # Null
        /\ State(e).Type \notin {"Task", "Parallel"}
        /\ exec' = [exec EXCEPT ![e] = returns(@, e, Error("Unknown state type", e))]
  /\ UNCHANGED <<failedAt, invokeVars>>

\* state.Type of a null state: gin recovers the panic of the handler, nobody
\* that of a branch.
nilState(e) ==
  /\ Known(e) /\ State(e) = Null
  /\ exec' = [exec EXCEPT ![e] = IF e = Root THEN returns(@, e, Error("nil", e)) ELSE [@ EXCEPT !.pc = "crashed"]]
  /\ UNCHANGED <<failedAt, invokeVars>>

at(e, type) == Known(e) /\ State(e) # Null /\ State(e).Type = type

\* handleTask calls the function and waits for its result.
handleTask(e) ==
  /\ at(e, "Task")
  /\ Start({e}, "task")
  /\ exec' = [exec EXCEPT ![e].pc = "task"]
  /\ UNCHANGED <<failedAt, content, pool, writing>>

taskReturns(e) ==
  /\ exec[e].pc = "task" /\ Ended(e)
  /\ \/ /\ call[e].pc = "ok"
        /\ LET v == IF call[e].got = {e} THEN Apply(State(e).FuncName, exec[e].in) ELSE Spoilt
           IN  exec' = [exec EXCEPT ![e] = nextState(@, e, State(e), v)]
        /\ UNCHANGED failedAt
     \/ /\ call[e].pc = "failed"
        /\ exec' = [exec EXCEPT ![e] = returns(@, e, Error("task", e))]
        /\ failedAt' = failedAt \cup {<<e, exec[e].cur>>}
  /\ UNCHANGED invokeVars

-----------------------------------------------------------------------------
(* handleParallel.  Starting the branches blocks nowhere and is one step.   *)

handleParallel(e) ==
  /\ at(e, "Parallel")
  /\ LET state == State(e)
         list == itemsOf(state, exec[e].in, e)
         items == list.val.parts
         branches == {Kid(e, i) : i \in DOMAIN items}
     IN  exec' = IF ~list.ok THEN [exec EXCEPT ![e] = returns(@, e, list)]
                 ELSE [d \in Execs |->
                        IF d = e THEN [exec[e] EXCEPT !.pc = "join", !.i = 1]
                        ELSE IF d \in branches
                        THEN Running(state.Par[1].m, branchInput(state, items, d - e * MaxItems))
                        ELSE exec[d]]
  /\ UNCHANGED <<failedAt, invokeVars>>

Count(e) == Len(exec[e].in.parts[1].parts)

\* results[i] = <-resultChannels[i]: branch and parent meet.
recvResult(e) ==
  LET k == Kid(e, exec[e].i) IN
  /\ exec[e].pc = "join" /\ exec[e].i <= Count(e)
  /\ Len(exec[e].results) < exec[e].i /\ exec[k].pc = "sendResult"
  /\ exec' = [exec EXCEPT ![e].results = Append(@, exec[k].res.val), ![k].pc = "sendError"]
  /\ UNCHANGED <<failedAt, invokeVars>>

\* errors[i] = <-errChannels[i]; the branch's goroutine ends.
recvError(e) ==
  LET k == Kid(e, exec[e].i) IN
  /\ exec[e].pc = "join" /\ exec[e].i <= Count(e)
  /\ Len(exec[e].results) = exec[e].i /\ exec[k].pc = "sendError"
  /\ exec' = [exec EXCEPT ![e].errors = IF exec[k].res.ok THEN @ ELSE Append(@, exec[k].res),
                          ![e].i = @ + 1,
                          ![k] = NoExec]
  /\ UNCHANGED <<failedAt, invokeVars>>

\* The last error of the branches, or the list of their results.
joined(e) ==
  /\ exec[e].pc = "join" /\ exec[e].i > Count(e)
  /\ exec' = [exec EXCEPT ![e] =
               IF @.errors # <<>> THEN returns(@, e, @.errors[Len(@.errors)])
               ELSE nextState(@, e, State(e), Array(@.results))]
  /\ UNCHANGED <<failedAt, invokeVars>>

ExecStep(e) ==
  \/ unknown(e) \/ nilState(e) \/ handleTask(e) \/ taskReturns(e)
  \/ handleParallel(e) \/ recvResult(e) \/ recvError(e) \/ joined(e)

SMNext == \E e \in Execs : ExecStep(e)
=============================================================================
