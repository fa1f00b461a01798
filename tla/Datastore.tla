------------------------------ MODULE Datastore ------------------------------
(* Apps, functions and triggers as the API keeps them: the handlers of       *)
(* api/server, the listeners around the datastore (fnext), its validator and *)
(* the SQL store, once Migrations has opened the database.                   *)
(*                                                                           *)
(* A request is a list of steps, one per place where another request can get *)
(* in between: the reads of its transaction, its writes (they take effect at *)
(* the commit), and the calls after it.  sqlite3 is opened with a single     *)
(* connection, which a transaction keeps; the other databases run the        *)
(* statements of concurrent transactions side by side.  Names are numbers so *)
(* that a list can be ordered by them; 0 is the empty string.  Config and    *)
(* annotations are one set of keys, timestamps are left out.                 *)
EXTENDS Migrations, FiniteSetsExt

CONSTANTS
  Clients,
  AppIds, FnIds, TriggerIds,      \* what id.New can return: never the same twice
  Names, Sources, Keys,
  Memories,                       \* requested memory sizes; 0 is unset
  MaxMemory, DefaultMemory,
  PerPage,                        \* page size of a listing
  FirstApps, FirstFns, FirstTriggers   \* rows of a database that has some

VARIABLES
  apps, fns, triggers,  \* the tables: id -> row
  conn,                 \* the client whose transaction has the only connection, or Free
  req,                  \* req[c]: the request of c in progress
  left,                 \* requests still to come (bound)
  issued,               \* history: ids handed out
  patched,              \* history: triggers an update moved to another function, source or name
  unchecked,            \* history: functions inserted though their app could not be read
  want                  \* history: want[a]: config of a by the order of the commits

dsVars == <<apps, fns, triggers, conn, req, left, issued, patched, unchecked, want>>
vars == <<migVars, dsVars>>

None == "none"
Idle == [op |-> "idle", step |-> "idle"]
Empty == 0

ASSUME ClientsAssumption == Free \notin Clients
ASSUME IdsAssumption == IsFiniteSet(AppIds) /\ IsFiniteSet(FnIds) /\ IsFiniteSet(TriggerIds)
ASSUME PerPageAssumption == PerPage \in Nat \ {0}

\* Names are strings of bounded length: a set of them has a last one.
ASSUME NamesAssumption ==
  /\ Names \subseteq Nat \ {0}
  /\ \A S \in SUBSET Names : S # {} => \E n \in S : \A m \in S : m <= n

\* The rows a database has when the first server opens it are rows an earlier
\* one wrote.
ASSUME FirstRowsAssumption ==
  /\ DOMAIN FirstApps \subseteq AppIds /\ DOMAIN FirstFns \subseteq FnIds
  /\ DOMAIN FirstTriggers \subseteq TriggerIds
  /\ FirstApps \in [DOMAIN FirstApps -> [name : Names, conf : SUBSET Keys]]
  /\ FirstFns \in [DOMAIN FirstFns -> [app : DOMAIN FirstApps, name : Names, mem : 1 .. MaxMemory]]
  /\ FirstTriggers \in [DOMAIN FirstTriggers ->
                          [app : DOMAIN FirstApps, fn : DOMAIN FirstFns, name : Names, src : Sources]]
  /\ \A a, b \in DOMAIN FirstApps : a # b => FirstApps[a].name # FirstApps[b].name
  /\ \A f, g \in DOMAIN FirstFns :
       (f # g /\ FirstFns[f].app = FirstFns[g].app) => FirstFns[f].name # FirstFns[g].name
  /\ \A t \in DOMAIN FirstTriggers : FirstFns[FirstTriggers[t].fn].app = FirstTriggers[t].app
  /\ \A t, u \in DOMAIN FirstTriggers :
       (t # u /\ FirstTriggers[t].app = FirstTriggers[u].app) => FirstTriggers[t].src # FirstTriggers[u].src

-----------------------------------------------------------------------------
(* Models                                                                    *)

\* Config and Annotations: a key with an empty value is removed, others are set.
MergeChange(keys, patch) == (keys \ patch.del) \cup patch.set

ValidName(n) == n # Empty
ValidFn(f) == /\ ValidName(f.name)
              /\ f.app # None
              /\ f.mem \in 1 .. MaxMemory
ValidTrigger(t) == /\ t.app # None /\ ValidName(t.name) /\ t.fn # None /\ t.src # None

SetDefaults(f) == IF f.mem = 0 THEN [f EXCEPT !.mem = DefaultMemory] ELSE f

Or(patch, old, unset) == IF patch = unset THEN old ELSE patch

UpdateAppRow(a, p) == [a EXCEPT !.conf = MergeChange(@, p)]
UpdateFnRow(f, p) == [f EXCEPT !.mem = Or(p.mem, @, 0)]
UpdateTriggerRow(t, p) == [app |-> Or(p.app, t.app, None), fn |-> Or(p.fn, t.fn, None),
                           name |-> Or(p.name, t.name, Empty), src |-> Or(p.src, t.src, None)]

-----------------------------------------------------------------------------
(* Requests: what a client may send                                          *)

\* A patch sets one field; the others are empty.
AppPatches ==
  {[set |-> {k}, del |-> {}, name |-> Empty] : k \in Keys}
  \cup {[set |-> {}, del |-> {k}, name |-> Empty] : k \in Keys}
  \cup {[set |-> {}, del |-> {}, name |-> n] : n \in Names}
NewFns == [app : AppIds, name : Names \cup {Empty}, mem : Memories]
NoPatch == [app |-> None, fn |-> None, name |-> Empty, src |-> None]
NewTriggers == [app : AppIds, fn : FnIds, name : Names, src : Sources] \cup {NoPatch}
TriggerPatches ==
  {[NoPatch EXCEPT !.app = a] : a \in AppIds} \cup {[NoPatch EXCEPT !.fn = f] : f \in FnIds}
  \cup {[NoPatch EXCEPT !.name = n] : n \in Names} \cup {[NoPatch EXCEPT !.src = x] : x \in Sources}
Kinds == {"apps", "fns", "triggers"}

Serving == \E s \in Starters : pc[s] = "serving"

\* A request comes in; told is the status its client sees first.
Take(c, r) ==
  /\ Serving
  /\ req[c] = Idle
  /\ left > 0
  /\ left' = left - 1
  /\ req' = [req EXCEPT ![c] = r]
  /\ UNCHANGED <<apps, fns, triggers, conn, issued, patched, unchecked, want, migVars>>

Request(op, id, body) ==
  [op |-> op, step |-> "begin", id |-> id, body |-> body, told |-> None]

\* The handlers read the body, and the validator may refuse it: nothing is done.
Refused(op, body) ==
  \/ op = "InsertApp" /\ ~ValidName(body.name)
  \/ op = "InsertFn" /\ ~ValidFn(SetDefaults(body))
  \/ op = "InsertTrigger" /\ ~ValidTrigger(body)

handleErrorResponse(r) == [r EXCEPT !.step = "done", !.told = Or(@, "error", None)]
handled(r) == [r EXCEPT !.step = "done", !.told = Or(@, "ok", None)]

\* The bound on ids keeps one for every insertion in progress.
Create(c, op, body, ids) ==
  LET r == Request(op, None, body)
  IN  /\ Cardinality(ids \ issued) > Cardinality({d \in Clients : req[d].op = op})
      /\ Take(c, IF Refused(op, body) THEN handleErrorResponse(r) ELSE r)

handleAppCreate(c) == \E n \in Names \cup {Empty} : Create(c, "InsertApp", [name |-> n, conf |-> {}], AppIds)
handleFnCreate(c) == \E f \in NewFns : Create(c, "InsertFn", f, FnIds)
handleTriggerCreate(c) == \E t \in NewTriggers : Create(c, "InsertTrigger", t, TriggerIds)

\* The id of the path and that of the body differ.  The app handler returns;
\* the other two answer and go on with the id of the body.
mismatch(r) == [r EXCEPT !.told = "error"]

handleAppUpdate(c) ==
  \E id \in AppIds :
    \/ \E p \in AppPatches : Take(c, Request("UpdateApp", id, p))
    \/ Take(c, handleErrorResponse(Request("UpdateApp", id, None)))
handleFnUpdate(c) ==
  \E id \in FnIds, m \in Memories, same \in BOOLEAN :
    LET r == Request("UpdateFn", id, [mem |-> m])
    IN  Take(c, IF same THEN r ELSE mismatch(r))
handleTriggerUpdate(c) ==
  \E id \in TriggerIds, p \in TriggerPatches, same \in BOOLEAN :
    LET r == Request("UpdateTrigger", id, p)
    IN  Take(c, IF same THEN r ELSE mismatch(r))

handleAppDelete(c) == \E id \in AppIds : Take(c, Request("RemoveApp", id, None))
handleFnDelete(c) == \E id \in FnIds : Take(c, Request("RemoveFn", id, None))
handleTriggerDelete(c) == \E id \in TriggerIds : Take(c, Request("RemoveTrigger", id, None))

handleFnGet(c) == \E id \in FnIds : Take(c, Request("GetFn", id, None))
handleTriggerGet(c) == \E id \in TriggerIds : Take(c, Request("GetTrigger", id, None))

Table(k) == CASE k = "apps" -> apps [] k = "fns" -> fns [] k = "triggers" -> triggers

\* The rows a listing selects: functions and triggers are those of one app.
Selected(k, app) == {i \in DOMAIN Table(k) : k = "apps" \/ Table(k)[i].app = app}

\* A client walks through all pages: cursor is the last name of the page before.
handleList(c) ==
  \E k \in Kinds, app \in AppIds :
    Take(c, [op |-> "List", step |-> "begin", kind |-> k, app |-> app, cursor |-> Empty,
             start |-> Selected(k, app), seen |-> {}, twice |-> {}, cut |-> FALSE, told |-> None])

-----------------------------------------------------------------------------
(* The SQL store                                                             *)

Connected(c) == conn \in {Free, c}

\* Mutants: Tx forgets to roll back; a pool of more than one connection.
RollbackNot(c) == conn' = conn
BeginxShared(c) == conn' = conn
\* Tx: Begin takes the connection of sqlite3, Rollback and Commit give it back.
Beginx(c) == conn' = IF conf.driver = "sqlite3" THEN c ELSE conn
Rollback(c) == conn' = IF conn = c THEN Free ELSE conn
Commit(c) == conn' = IF conn = c THEN Free ELSE conn

Drop(table, ids) == [i \in DOMAIN table \ ids |-> table[i]]
Put(table, i, row) == [j \in DOMAIN table \cup {i} |-> IF j = i THEN row ELSE table[j]]

Has(t, constraint) == constraint \in db.schema[t]

\* UNIQUE constraints, where the schema has them.
AppTaken(row) == Has("apps", "UNIQUE name") /\ \E a \in DOMAIN apps : apps[a].name = row.name
FnTaken(row) ==
  /\ Has("fns", "UNIQUE app_id name")
  /\ \E f \in DOMAIN fns : fns[f].app = row.app /\ fns[f].name = row.name
TriggerTaken(row, but) ==
  /\ Has("triggers", "UNIQUE app_id fn_id name")
  /\ \E t \in DOMAIN triggers \ {but} :
       triggers[t].app = row.app /\ triggers[t].fn = row.fn /\ triggers[t].name = row.name

\* The SELECT of InsertTrigger on app, type and source.
SourceTaken(row) ==
  \E t \in DOMAIN triggers : triggers[t].app = row.app /\ triggers[t].src = row.src

tablesKept == UNCHANGED <<apps, fns, triggers, issued, patched, unchecked, want>>

\* The reads of a transaction and the checks on what they return; none of them
\* can become true again after another request made it false, so the reads of
\* InsertTrigger are one step.
Finds(r) ==
  CASE r.op = "UpdateApp" -> r.id \in DOMAIN apps /\ r.body.name \in {Empty, apps[r.id].name}
    [] r.op = "InsertFn" -> r.body.app \in DOMAIN apps
    [] r.op = "UpdateFn" -> r.id \in DOMAIN fns /\ ValidFn(UpdateFnRow(fns[r.id], r.body))
    [] r.op = "RemoveFn" -> r.id \in DOMAIN fns
    [] r.op = "InsertTrigger" -> /\ r.body.app \in DOMAIN apps
                                 /\ r.body.fn \in DOMAIN fns /\ fns[r.body.fn].app = r.body.app
                                 /\ ~SourceTaken(r.body)
    [] r.op = "UpdateTrigger" -> r.id \in DOMAIN triggers

\* The row the transaction will write.
Merged(r) ==
  CASE r.op = "UpdateApp" -> UpdateAppRow(apps[r.id], r.body)
    [] r.op = "UpdateFn" -> UpdateFnRow(fns[r.id], r.body)
    [] r.op = "UpdateTrigger" -> UpdateTriggerRow(triggers[r.id], r.body)
    [] r.op = "InsertFn" -> SetDefaults(r.body)
    [] OTHER -> r.body

Transactions == {"UpdateApp", "InsertFn", "UpdateFn", "RemoveFn", "InsertTrigger", "UpdateTrigger"}

txReads(c) ==
  LET r == req[c] IN
  /\ r.step = "begin" /\ r.op \in Transactions
  /\ Connected(c)
  /\ IF Finds(r)
     THEN /\ Beginx(c)
          /\ req' = [req EXCEPT ![c].step = "write", ![c].body =
                       [row |-> Merged(r), patch |-> r.body, checked |-> TRUE]]
     ELSE /\ Rollback(c)
          /\ req' = [req EXCEPT ![c] = handleErrorResponse(r)]
  /\ tablesKept /\ UNCHANGED <<left, migVars>>

\* A query fails.  The error is the answer, except that InsertFn and RemoveFn
\* look for no other error than sql.ErrNoRows and go on to write, which
\* PostgreSQL refuses for the rest of the transaction.
errorDropped(r) == r.step = "begin" /\ r.op \in {"InsertFn", "RemoveFn"} /\ conf.driver # "postgres"
queryFails(c) ==
  LET r == req[c] IN
  /\ r.step \in {"begin", "app"}
  /\ Connected(c)
  /\ IF errorDropped(r)
     THEN /\ Beginx(c)
          /\ req' = [req EXCEPT ![c].step = "write", ![c].body =
                       [row |-> Merged(r), patch |-> r.body, checked |-> FALSE]]
     ELSE /\ Rollback(c)
          /\ req' = [req EXCEPT ![c] = handleErrorResponse(r)]
  /\ tablesKept /\ UNCHANGED <<left, migVars>>

\* A statement or the commit fails: Tx rolls back.
txFails(c) ==
  /\ req[c].step = "write"
  /\ Rollback(c)
  /\ req' = [req EXCEPT ![c] = handleErrorResponse(req[c])]
  /\ tablesKept /\ UNCHANGED <<left, migVars>>

\* The writes of the transaction are committed; the After listeners come next.
Done(c) == req' = [req EXCEPT ![c].step = "after"]

Writes(c, op) ==
  /\ req[c].step = "write" /\ req[c].op = op
  /\ Commit(c)
  /\ UNCHANGED <<left, migVars>>

\* UPDATE apps ... WHERE name = the name that was read.
UpdateApp(c) ==
  LET r == req[c] IN
  /\ Writes(c, "UpdateApp")
  /\ apps' = [a \in DOMAIN apps |->
                IF apps[a].name = r.body.row.name THEN [apps[a] EXCEPT !.conf = r.body.row.conf]
                ELSE apps[a]]
  /\ want' = [a \in DOMAIN want |-> IF a = r.id THEN MergeChange(want[a], r.body.patch) ELSE want[a]]
  /\ Done(c)
  /\ UNCHANGED <<fns, triggers, issued, patched, unchecked>>

InsertFn(c) ==
  LET row == req[c].body.row IN
  /\ Writes(c, "InsertFn")
  /\ IF FnTaken(row)
     THEN /\ req' = [req EXCEPT ![c] = handleErrorResponse(req[c])]
          /\ UNCHANGED <<fns, issued, unchecked>>
     ELSE \E id \in FnIds \ issued :
            /\ fns' = Put(fns, id, row)
            /\ unchecked' = IF req[c].body.checked THEN unchecked ELSE unchecked \cup {id}
            /\ issued' = issued \cup {id}
            /\ Done(c)
  /\ UNCHANGED <<apps, triggers, patched, want>>

UpdateFn(c) ==
  /\ Writes(c, "UpdateFn")
  /\ fns' = [f \in DOMAIN fns |-> IF f = req[c].id THEN req[c].body.row ELSE fns[f]]
  /\ Done(c)
  /\ UNCHANGED <<apps, triggers, issued, patched, want, unchecked>>

\* Mutant: the triggers of the function are left behind.
RemoveFnOnly(c) ==
  /\ Writes(c, "RemoveFn")
  /\ fns' = Drop(fns, {req[c].id})
  /\ Done(c)
  /\ UNCHANGED <<apps, triggers, issued, patched, want, unchecked>>
\* DELETE FROM triggers ..., DELETE FROM fns ...
RemoveFn(c) ==
  /\ Writes(c, "RemoveFn")
  /\ triggers' = Drop(triggers, {t \in DOMAIN triggers : triggers[t].fn = req[c].id})
  /\ fns' = Drop(fns, {req[c].id})
  /\ Done(c)
  /\ UNCHANGED <<apps, issued, patched, want, unchecked>>

InsertTrigger(c) ==
  LET row == req[c].body.row IN
  /\ Writes(c, "InsertTrigger")
  /\ IF TriggerTaken(row, None)
     THEN /\ req' = [req EXCEPT ![c] = handleErrorResponse(req[c])]
          /\ UNCHANGED <<triggers, issued>>
     ELSE \E id \in TriggerIds \ issued :
            /\ triggers' = Put(triggers, id, row)
            /\ issued' = issued \cup {id}
            /\ Done(c)
  /\ UNCHANGED <<apps, fns, patched, want, unchecked>>

\* UPDATE triggers SET name, fn_id, source: the app is not written.
UpdateTrigger(c) ==
  LET r == req[c]
      row(t) == [r.body.row EXCEPT !.app = triggers[t].app]
  IN
  /\ Writes(c, "UpdateTrigger")
  /\ IF r.id \in DOMAIN triggers /\ TriggerTaken(row(r.id), r.id)
     THEN /\ req' = [req EXCEPT ![c] = handleErrorResponse(r)]
          /\ UNCHANGED <<triggers, patched>>
     ELSE /\ triggers' = [t \in DOMAIN triggers |-> IF t = r.id THEN row(t) ELSE triggers[t]]
          /\ patched' = patched \cup {r.id}
          /\ Done(c)
  /\ UNCHANGED <<apps, fns, issued, want, unchecked>>

\* Operations of one statement, or of writes only.
Single(c, op) ==
  /\ req[c].step = "begin" /\ req[c].op = op
  /\ Connected(c)
  /\ UNCHANGED <<left, conn, migVars>>

InsertApp(c) ==
  LET row == req[c].body IN
  /\ Single(c, "InsertApp")
  /\ IF AppTaken(row)
     THEN /\ req' = [req EXCEPT ![c] = handleErrorResponse(req[c])]
          /\ UNCHANGED <<apps, issued, want>>
     ELSE \E id \in AppIds \ issued :
            /\ apps' = Put(apps, id, row)
            /\ issued' = issued \cup {id}
            /\ want' = Put(want, id, row.conf)
            /\ Done(c)
  /\ UNCHANGED <<fns, triggers, patched, unchecked>>

RemoveApp(c) ==
  LET id == req[c].id IN
  /\ Single(c, "RemoveApp")
  /\ IF id \in DOMAIN apps
     THEN /\ apps' = Drop(apps, {id})
          /\ fns' = Drop(fns, {f \in DOMAIN fns : fns[f].app = id})
          /\ triggers' = Drop(triggers, {t \in DOMAIN triggers : triggers[t].app = id})
          /\ Done(c)
     ELSE /\ req' = [req EXCEPT ![c] = handleErrorResponse(req[c])]
          /\ UNCHANGED <<apps, fns, triggers>>
  /\ UNCHANGED <<issued, patched, want, unchecked>>

RemoveTrigger(c) ==
  LET id == req[c].id IN
  /\ Single(c, "RemoveTrigger")
  /\ IF id \in DOMAIN triggers
     THEN triggers' = Drop(triggers, {id}) /\ Done(c)
     ELSE req' = [req EXCEPT ![c] = handleErrorResponse(req[c])] /\ UNCHANGED triggers
  /\ UNCHANGED <<apps, fns, issued, patched, want, unchecked>>

\* The row, then in a statement of its own the app it belongs to.
getRow(c) ==
  LET r == req[c]
      table == IF r.op = "GetFn" THEN fns ELSE triggers
  IN
  /\ r.op \in {"GetFn", "GetTrigger"}
  /\ Single(c, r.op)
  /\ req' = [req EXCEPT ![c] = IF r.id \in DOMAIN table
                               THEN [r EXCEPT !.step = "app", !.body = table[r.id]]
                               ELSE handleErrorResponse(r)]
  /\ tablesKept

GetAppByID(c) ==
  LET r == req[c] IN
  /\ r.step = "app"
  /\ Connected(c)
  /\ req' = [req EXCEPT ![c] = IF r.body.app \in DOMAIN apps THEN handled(r)
                               ELSE handleErrorResponse(r)]
  /\ tablesKept /\ UNCHANGED <<left, conn, migVars>>

\* A listener called before the change refuses it.
beforeListeners(c) ==
  /\ req[c].step = "begin" /\ req[c].op \in Transactions \cup {"InsertApp", "RemoveApp", "RemoveTrigger"}
  /\ req' = [req EXCEPT ![c] = handleErrorResponse(req[c])]
  /\ tablesKept /\ UNCHANGED <<left, conn, migVars>>

\* The listeners called after the change; their error is what the client sees.
afterListeners(c) ==
  /\ req[c].step = "after"
  /\ \/ req' = [req EXCEPT ![c] = handled(req[c])]
     \/ req' = [req EXCEPT ![c] = handleErrorResponse(req[c])]
  /\ tablesKept /\ UNCHANGED <<left, conn, migVars>>

-----------------------------------------------------------------------------
(* Listings                                                                  *)

After(k, app, cursor) == {i \in Selected(k, app) : Table(k)[i].name > cursor}

\* ORDER BY name LIMIT: the first rows of rs, ties in any order.
FirstOf(k, rs, n) ==
  {p \in SUBSET rs : /\ Cardinality(p) = IF Cardinality(rs) < n THEN Cardinality(rs) ELSE n
                     /\ \A i \in p, j \in rs \ p : Table(k)[i].name <= Table(k)[j].name}

\* Mutant: there is a next page only if more rows than a page came back.
nextCursorOver(k, page) ==
  IF Cardinality(page) > PerPage THEN Max({Table(k)[i].name : i \in page}) ELSE Empty
\* A full page has a next cursor, the name of its last row.
nextCursor(k, page) ==
  IF Cardinality(page) = PerPage THEN Max({Table(k)[i].name : i \in page}) ELSE Empty

\* One page.  GetFns and GetTriggers pass over the rows they cannot scan, and
\* GetFns drops the error that broke the iteration off: fewer rows are shown, and
\* no cursor says that there are more.  handleFnList and handleTriggerList look
\* the app up for every page.
getPage(c) ==
  LET r == req[c] IN
  /\ r.op = "List"
  /\ Single(c, "List")
  /\ \E page \in FirstOf(r.kind, After(r.kind, r.app, r.cursor), PerPage) :
     \E items \in SUBSET page :
       LET next == nextCursor(r.kind, items)
           got == [r EXCEPT !.seen = @ \cup items, !.twice = @ \cup (r.seen \cap items),
                            !.cut = items # page, !.cursor = next]
       IN  /\ r.kind = "apps" => items = page
           /\ req' = [req EXCEPT ![c] =
                        IF r.kind # "apps" /\ items # {} /\ r.app \notin DOMAIN apps
                        THEN handleErrorResponse(r)
                        ELSE IF next = Empty THEN handled(got) ELSE got]
  /\ tablesKept

\* The response is sent.
respond(c) ==
  /\ req[c].step = "done"
  /\ req' = [req EXCEPT ![c] = Idle]
  /\ tablesKept /\ UNCHANGED <<left, conn, migVars>>

-----------------------------------------------------------------------------

Init ==
  /\ MigInit
  /\ LET some == conf.base >= 17 IN   \* the tables of apps, functions and triggers exist
     /\ apps = IF some THEN FirstApps ELSE << >>
     /\ fns = IF some THEN FirstFns ELSE << >>
     /\ triggers = IF some THEN FirstTriggers ELSE << >>
     /\ conn = Free
     /\ req = [c \in Clients |-> Idle]
     /\ left = conf.requests
     /\ issued = DOMAIN apps \cup DOMAIN fns \cup DOMAIN triggers
     /\ patched = {}
     /\ unchecked = {}
     /\ want = [a \in DOMAIN apps |-> apps[a].conf]

Accept(c) ==
  \/ "app" \in conf.ops /\ (handleAppCreate(c) \/ handleAppUpdate(c))
  \/ "fn" \in conf.ops /\ (handleFnCreate(c) \/ handleFnGet(c))
  \/ "change" \in conf.ops /\ (handleFnUpdate(c) \/ handleTriggerUpdate(c) \/ handleTriggerGet(c))
  \/ "trigger" \in conf.ops /\ handleTriggerCreate(c)
  \/ "delete" \in conf.ops /\ (handleAppDelete(c) \/ handleFnDelete(c) \/ handleTriggerDelete(c))
  \/ "list" \in conf.ops /\ handleList(c)

Handle(c) ==
  \/ beforeListeners(c) \/ txReads(c) \/ queryFails(c) \/ txFails(c)
  \/ UpdateApp(c) \/ InsertFn(c) \/ UpdateFn(c) \/ RemoveFn(c) \/ InsertTrigger(c)
  \/ UpdateTrigger(c) \/ InsertApp(c) \/ RemoveApp(c) \/ RemoveTrigger(c)
  \/ getRow(c) \/ GetAppByID(c) \/ afterListeners(c) \/ getPage(c) \/ respond(c)

AllDone == left = 0 /\ (\A s \in conf.starters : pc[s] = "serving") /\ \A c \in Clients : req[c] = Idle

Next ==
  \/ MigNext /\ UNCHANGED dsVars
  \/ \E c \in Clients : Accept(c) \/ Handle(c)
  \/ AllDone /\ UNCHANGED vars

Spec == Init /\ [][Next]_vars /\ \A c \in Clients : WF_vars(Handle(c))

-----------------------------------------------------------------------------
(* Properties                                                                *)

\* The transactions of sqlite3 run one after the other.
Serial == conf.driver = "sqlite3"

Unmoved(t) == t \notin patched

\* Migration 22 has not taken the constraint on function names away.
FnNamesKept == conf.driver # "postgres" \/ conf.base = Fresh

\* The tables agree: a function has its app and a trigger its app and a function
\* of that app (no foreign key says so: only the checks of InsertFn and
\* InsertTrigger and the deletes of RemoveApp and RemoveFn do), two triggers of
\* an app do not share a source, and two functions of an app do not share a
\* name.  UpdateTrigger checks neither function nor source, so the triggers it
\* changed are left out; so are, where it is the app of a function that may be
\* missing, the functions InsertFn wrote though its read of the app had failed;
\* an upgraded PostgreSQL database has lost the constraint on function names in
\* migration 22; and with databases that run transactions side by side the
\* checks are stale when the row is written.
TablesConsistent ==
  /\ Serial =>
       /\ \A f \in DOMAIN fns \ unchecked : fns[f].app \in DOMAIN apps
       /\ \A t \in DOMAIN triggers :
            /\ triggers[t].app \in DOMAIN apps
            /\ Unmoved(t) => /\ triggers[t].fn \in DOMAIN fns
                             /\ fns[triggers[t].fn].app = triggers[t].app
       /\ \A t, u \in DOMAIN triggers :
            (t # u /\ triggers[t].app = triggers[u].app /\ triggers[t].src = triggers[u].src)
              => ~Unmoved(t) \/ ~Unmoved(u)
  /\ FnNamesKept =>
       \A f, g \in DOMAIN fns : (f # g /\ fns[f].app = fns[g].app) => fns[f].name # fns[g].name

\* No update is lost: the config of an app is what its patches give in the order
\* they were committed, though each one reads the whole row, merges and writes
\* it back (sql.go UpdateApp, models App.Update).
PatchesSurvive == Serial => \A a \in DOMAIN apps : apps[a].conf = want[a]

\* Walking through the pages of a listing shows every row that was there all the
\* time exactly once, whatever is inserted or deleted meanwhile (GetApps,
\* GetFns, GetTriggers and their cursors).  Trigger names repeat within an app:
\* one whose name a page ended with may be skipped, and so may a function in a
\* database that has lost the constraint on their names.  A page of functions or
\* triggers that was cut short by a row that could not be read ends the walk
\* early; what it showed it showed once.
PagesCover ==
  \A c \in Clients :
    (req[c].op = "List" /\ req[c].told = "ok" /\ (req[c].kind = "fns" => FnNamesKept)) =>
      LET r == req[c] IN
      \A i \in (r.start \cap DOMAIN Table(r.kind)) \ patched :
        /\ i \notin r.twice
        /\ \/ i \in r.seen
           \/ r.cut
           \/ r.kind = "triggers" /\ \E j \in r.seen : \/ j \in patched \cup (TriggerIds \ DOMAIN triggers)
                                                     \/ triggers[j].name = triggers[i].name

\* Every request is answered: whichever way a transaction ends it gives the only
\* connection back (sql.go Tx), and a listing comes to an end.
Answered == \A c \in Clients : (req[c] # Idle) ~> (req[c] = Idle)
=============================================================================
