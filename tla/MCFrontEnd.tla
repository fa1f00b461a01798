----------------------------- MODULE MCFrontEnd -----------------------------
(* Small instances of FrontEnd: machines with a fan-out, a fan-out that      *)
(* follows a task, one inside another, and machines that are wrong in one    *)
(* place; load tests of every kind with counts on both sides of their        *)
(* boundaries; plain invocations alone and next to a machine.                *)
EXTENDS MachineMeaning, TLC

Task(fn, next) == [Type |-> "Task", FuncName |-> fn, Next |-> next, End |-> next = "", Par |-> <<>>]
Fan(m, next) == [Type |-> "Parallel", FuncName |-> "", Next |-> next, End |-> next = "",
                 Par |-> <<[key |-> "k", item |-> "x", m |-> m]>>]
Start1(states) == [StartAt |-> "a", States |-> states]

One == Start1("a" :> Task("f", ""))
Two == Start1("a" :> Task("f", "b") @@ "b" :> Task("g", ""))
\* A fan-out over what a task answered, and its results to a task.
FanOut == Start1("a" :> Task("split", "b") @@ "b" :> Fan(One, "c") @@ "c" :> Task("g", ""))
FanFirst == Start1("a" :> Fan(Two, ""))
\* A fan-out in each branch of a fan-out.
Nested == Start1("a" :> Fan(Start1("a" :> Task("split", "b") @@ "b" :> Fan(One, "")), ""))
Nil == Start1("a" :> Null)
Wrong == { Nil, Start1("a" :> Fan(Nil, "")), Start1("a" :> Fan(One, "b") @@ "b" :> Null),
           Start1("a" :> Task("f", "z")),
           Start1("a" :> [Task("f", "") EXCEPT !.Type = "Choice"]),
           Start1("a" :> [Fan(One, "") EXCEPT !.Par = <<>>]),
           Start1("a" :> Fan(One, "b") @@ "b" :> Fan(One, "")) }

Leaf(n) == Text(n, <<>>)
List(n) == Object("k", Array([i \in 1 .. n |-> Leaf(IF i = 1 THEN "i1" ELSE "i2")]))

Runs(m, v, plain) == [machine |-> <<m>>, input |-> v, plain |-> plain, test |-> NoTest,
                      late |-> IF plain = <<>> THEN 0 ELSE 1]
Tested(t) == [machine |-> <<>>, input |-> Spoilt, plain |-> <<>>, late |-> 0, test |-> t]
Spike(kind, rows) == Tested([NoTest EXCEPT !.kind = kind, !.rows = rows])
\* At a load balancer, with and without Fn-Invoke-Type detached.
SpikeLB(rows, d) == Tested([NoTest EXCEPT !.kind = "realspike2", !.rows = rows, !.lb = TRUE, !.detached = d])
Bench(n) == Tested([NoTest EXCEPT !.kind = "benchmark", !.count = n])

TheScenes ==
  {Runs(FanFirst, List(n), <<>>) : n \in 0 .. 2}
  \cup {Runs(FanOut, Leaf("i"), <<>>), Runs(Two, Leaf("i"), 101 :> "invoke" @@ 102 :> "invoke")}
  \cup {Runs(m, List(1), <<>>) : m \in Wrong \cup {Nested}}
  \cup {Runs(FanFirst, v, <<>>) : v \in {Leaf("i"), Object("k", Leaf("i")), Object("x", Leaf("i"))}}
  \cup {[machine |-> <<>>, input |-> Spoilt, test |-> NoTest, late |-> 1,
         plain |-> 101 :> "invoke" @@ 102 :> "invoke" @@ 103 :> w] : w \in {"invoke", "detached"}}
  \cup {Spike("cache", <<>>)}
  \cup {Spike("realspike", r) : r \in {<<1, 2>>, <<4, 0>>, <<3>>}}
  \cup {Spike("realspike2", <<2, 1>>), Spike("spike", <<2, 4>>), Spike("random", <<0, 1>>)}
  \cup {SpikeLB(<<1, 1>>, FALSE), SpikeLB(<<1, 0>>, TRUE)}
  \cup {Bench(n) : n \in 0 .. 2}
=============================================================================
