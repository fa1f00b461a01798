--------------------------- MODULE MachineMeaning ---------------------------
(***************************************************************************)
(* What a state machine means: the reference that the executions of        *)
(* StateMachine are compared with.                                         *)
(***************************************************************************)
EXTENDS FrontEnd

(* What a machine means: one execution after another, failures given.       *)
RECURSIVE Eval(_, _, _, _)
Eval(m, name, v, e) ==
  IF name \notin DOMAIN m.States THEN Error("Unknown state name", e)
  ELSE IF m.States[name] = Null THEN Error("nil", e)
  ELSE LET s == m.States[name]
           list == itemsOf(s, v, e)
           sub == s.Par[1].m
           rs == [i \in DOMAIN list.val.parts |->
                    Eval(sub, sub.StartAt, Object(s.Par[1].item, list.val.parts[i]), Kid(e, i))]
           bad == {i \in DOMAIN rs : ~rs[i].ok}
           r == CASE s.Type = "Task" -> IF <<e, name>> \in failedAt THEN Error("task", e)
                                        ELSE Ok(Apply(s.FuncName, v))
                  [] s.Type = "Parallel" -> IF ~list.ok THEN list
                                            ELSE IF bad # {} THEN rs[Max(bad)]
                                            ELSE Ok(Array([i \in DOMAIN rs |-> rs[i].val]))
                  [] OTHER -> Error("Unknown state type", e)
       IN  IF ~r.ok \/ s.End THEN r ELSE Eval(m, s.Next, r.val, e)

(* The answer to a state machine is what its states give one after the      *)
(* other on its input: the branches of a Parallel state may run and fail in *)
(* any order, and next to other calls, yet each result stands at the place  *)
(* of its item and of several failures the last branch's is reported.  No   *)
(* branch outlives the answer.                                              *)
AnswerIsEval ==
  scene.machine # <<>> /\ exec[Root].pc = "answered" /\ NoLateTask =>
    LET m == scene.machine[1] IN
      /\ exec[Root].res = Eval(m, m.StartAt, scene.input, Root)
      /\ \A e \in Execs \ {Root} : exec[e].pc = "none"
=============================================================================
