---------------------------- MODULE MCDatastore ----------------------------
(* Small instances of Datastore: databases of several ages and drivers       *)
(* opened by one or two servers that may be killed, and, in the              *)
(* configurations that leave room for requests, two clients at work.         *)
EXTENDS Datastore

Opened(d, b, n, k) ==
  [driver |-> d, base |-> b, starters |-> n, crashes |-> k, requests |-> 0, ops |-> {}]
Used(d, b, r, ops) ==
  [driver |-> d, base |-> b, starters |-> {"s1"}, crashes |-> 0, requests |-> r, ops |-> ops]

TheConfs ==
  LET one == {"s1"}
      two == {"s1", "s2"}
  IN  { Opened("sqlite3", Fresh, one, 1), Opened("sqlite3", NilVersion, one, 1),
        Opened("mysql", Fresh, two, 1), Opened("mysql", Fresh, one, 1), Opened("mysql", 7, one, 1),
        Opened("postgres", 14, two, 1), Opened("postgres", NilVersion, one, 0),
        Used("sqlite3", latestVersion, 3, {"app", "delete"}),
        Used("sqlite3", latestVersion, 3, {"fn", "delete"}),
        Used("sqlite3", latestVersion, 2, {"trigger", "change"}),
        Used("sqlite3", latestVersion, 3, {"trigger", "delete"}),
        Used("sqlite3", latestVersion, 3, {"trigger", "list"}),
        Used("sqlite3", latestVersion, 3, {"fn", "list"}),
        Used("postgres", 21, 2, {"app", "fn", "delete"}) }

TheApps == ("a1" :> [name |-> 1, conf |-> {}])
TheFns == ("f1" :> [app |-> "a1", name |-> 1, mem |-> 1])
TheTriggers == ("t1" :> [app |-> "a1", fn |-> "f1", name |-> 1, src |-> "x"])
=============================================================================
