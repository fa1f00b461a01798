----------------------------- MODULE Migrations -----------------------------
(* Opening the SQL datastore: pinging it, finding out which schema it has,   *)
(* and bringing it to the latest one (datastore/sql/sql.go newDS,            *)
(* sql/migratex and sql/migrations).  One step is one SQL statement, because *)
(* a server may be killed between any two and, on MySQL, every DDL statement *)
(* commits what the transaction did before it.                               *)
(*                                                                           *)
(* A schema maps a table to the columns and constraints the migrations talk  *)
(* about; the columns no migration mentions are one token.  Statements that  *)
(* only move data are left out.                                              *)
EXTENDS Integers, Sequences, SequencesExt, FiniteSets

CONSTANTS
  Starters,   \* server processes that may open the database
  Confs,      \* configurations: [driver, base, starters, crashes, requests, ops]
  MaxPings    \* FN_DS_DB_PING_MAX_RETRIES

VARIABLES
  conf,       \* the configuration of this behaviour
  db,         \* the committed database: [schema, version, dirty]
  view,       \* view[s]: what the open transaction of s sees
  wrote,      \* wrote[s]: the version row was written and is not committed yet
  mutex,      \* the advisory lock of migratex: a starter or Free
  pc,         \* pc[s]: where newDS of s stands
  running,    \* running[s]: the migration s is running, or 0
  todo,       \* todo[s]: statements left of it
  pings,      \* pings[s]: failed pings
  crashes,    \* processes killed, or stopped by an error of the database, so far
  unmarked    \* history: run could not mark a migration and went on

migVars == <<conf, db, view, wrote, mutex, pc, running, todo, pings, crashes, unmarked>>

Free == "free"
NilVersion == -1
Fresh == -2      \* the base of a database without tables
Drivers == {"sqlite3", "mysql", "postgres"}

-----------------------------------------------------------------------------
(* SQL statements                                                            *)

Add(t, c) == [op |-> "add", t |-> t, cols |-> {c}]
DropColumn(t, c) == [op |-> "dropcolumn", t |-> t, cols |-> {c}]
CreateTable(t, cols) == [op |-> "create", t |-> t, cols |-> cols]
Rename(t, u) == [op |-> "rename", t |-> t, cols |-> {u}]
CopyInto(t, cols) == [op |-> "copy", t |-> t, cols |-> cols]
DropTable(t) == [op |-> "drop", t |-> t, cols |-> {}]
SetNotNull(t, c) == [op |-> "set", t |-> t, cols |-> {"NOT NULL " \o c}]
DropNotNull(t, c) == [op |-> "unset", t |-> t, cols |-> {"NOT NULL " \o c}]

Old(t) == "old_" \o t

Constraints == {"UNIQUE name", "UNIQUE app_id name", "UNIQUE app_id fn_id name",
                "NOT NULL annotations", "NOT NULL app_id"}

\* ALTER TABLE t RENAME TO old_t; CREATE TABLE t; INSERT INTO t SELECT ... FROM
\* old_t; DROP TABLE old_t
Rebuild(t, cols) ==
  << Rename(t, Old(t)), CreateTable(t, cols), CopyInto(t, cols \ Constraints), DropTable(Old(t)) >>

\* The database refuses the statement.
Fails(st, s) ==
  CASE st.op = "add"        -> st.t \notin DOMAIN s \/ st.cols \subseteq s[st.t]
    [] st.op = "dropcolumn" -> st.t \notin DOMAIN s \/ ~(st.cols \subseteq s[st.t])
    [] st.op = "rename"     -> st.t \notin DOMAIN s \/ st.cols \cap DOMAIN s # {}
    [] st.op = "copy"       -> Old(st.t) \notin DOMAIN s \/ ~(st.cols \subseteq s[Old(st.t)])
    [] st.op = "create"     -> FALSE
    [] OTHER                -> st.t \notin DOMAIN s

\* The schema after a statement that is not refused; CREATE TABLE is IF NOT
\* EXISTS except in a rebuild, which has just moved the table away.
Exec(s, st) ==
  CASE st.op \in {"add", "set"}          -> [s EXCEPT ![st.t] = @ \cup st.cols]
    [] st.op \in {"dropcolumn", "unset"} -> [s EXCEPT ![st.t] = @ \ st.cols]
    [] st.op = "create"     -> IF st.t \in DOMAIN s THEN s
                               ELSE [t \in DOMAIN s \cup {st.t} |-> IF t = st.t THEN st.cols ELSE s[t]]
    [] st.op = "rename"     -> [t \in (DOMAIN s \ {st.t}) \cup st.cols |->
                                  IF t \in st.cols THEN s[st.t] ELSE s[t]]
    [] st.op = "drop"       -> [t \in DOMAIN s \ {st.t} |-> s[t]]
    [] OTHER                -> s

Broken == << >>
Run(sts, s) ==
  FoldLeft(LAMBDA t, st : IF t = Broken \/ Fails(st, t) THEN Broken ELSE Exec(t, st), s, sts)

-----------------------------------------------------------------------------
(* The migrations                                                            *)

AppCols == {"id", "name", "config", "annotations", "created_at", "updated_at"}
CallCols == {"id", "app_id", "fn_id", "times", "stats", "error"}
FnCols == {"id", "name", "app_id", "image", "sizes", "config", "annotations", "times"}
TriggerCols == {"id", "name", "app_id", "fn_id", "times", "type", "source", "annotations"}
RouteCols == {"app_id", "path", "spec", "cpus", "annotations", "created_at", "updated_at"}

\* What migration 1 finds: the tables of the releases before it.
V0 == [apps   |-> {"name", "config"},
       routes |-> {"app_name", "path", "spec"},
       calls  |-> {"id", "app_name", "path", "times"},
       logs   |-> {"id", "app_name", "log"}]

\* Migrations 11 and 12: annotations may no longer be null.  On PostgreSQL the
\* statement is DROP NOT NULL.
Annotate(d, t, cols) ==
  CASE d = "mysql"    -> << SetNotNull(t, "annotations") >>
    [] d = "postgres" -> << DropNotNull(t, "annotations") >>
    [] OTHER          -> Rebuild(t, cols \cup {"NOT NULL annotations"})

\* Migrations 18 and 19: app_id may be null where a function id is present.
Nullable(d, t) == IF d = "sqlite3" THEN << >> ELSE << DropNotNull(t, "app_id") >>
Required(d, t) == IF d = "sqlite3" THEN << >> ELSE << SetNotNull(t, "app_id") >>

up1(d) == << Add("routes", "created_at") >>
up2(d) == << Add("calls", "stats") >>
up3(d) == << Add("calls", "error") >>
up4(d) == << Add("routes", "updated_at") >>
up5(d) == << Add("apps", "created_at") >>
up6(d) == << Add("apps", "updated_at") >>
up7(d) == << Add("routes", "cpus") >>
up8(d) == << Add("apps", "annotations") >>
up9(d) == << Add("routes", "annotations") >>
up10(d) ==
  << Add("apps", "id"), Add("calls", "app_id"), Add("logs", "app_id"), Add("routes", "app_id") >>
  \o IF d = "sqlite3"
     THEN Rebuild("routes", RouteCols)
          \o Rebuild("calls", (CallCols \ {"fn_id"}) \cup {"path", "NOT NULL app_id"})
          \o Rebuild("logs", {"id", "app_id", "log", "NOT NULL app_id"})
     ELSE << DropColumn("routes", "app_name"), DropColumn("calls", "app_name"),
             DropColumn("logs", "app_name") >>
up11(d) == Annotate(d, "routes", RouteCols)
up12(d) == Annotate(d, "apps", AppCols)
up13(d) == << Add("apps", "syslog_url") >>
up14(d) == << Add("routes", "tmpfs_size") >>
up15(d) == Rebuild("apps", AppCols \cup {"syslog_url", "UNIQUE name", "NOT NULL annotations"})
up16(d) == << CreateTable("fns", FnCols \cup {"format", "UNIQUE app_id name"}) >>
up17(d) == << CreateTable("triggers", TriggerCols \cup {"UNIQUE app_id fn_id name"}) >>
up18(d) == << Add("calls", "fn_id") >> \o Nullable(d, "calls")
up19(d) == << Add("logs", "fn_id") >> \o Nullable(d, "logs")
up20(d) == << DropTable("routes") >>
up21(d) == Rebuild("calls", CallCols)
\* PostgreSQL keeps the constraint with the renamed table, so the new one is
\* created without it.
up22(d) == Rebuild("fns", FnCols \cup IF d = "postgres" THEN {} ELSE {"UNIQUE app_id name"})
up23(d) == << DropTable("calls") >>
up24(d) == << DropTable("logs") >>

down1(d) == << DropColumn("routes", "created_at") >>
down2(d) == << DropColumn("calls", "stats") >>
down3(d) == << DropColumn("calls", "error") >>
down4(d) == << DropColumn("routes", "updated_at") >>
down5(d) == << DropColumn("apps", "created_at") >>
down6(d) == << DropColumn("apps", "updated_at") >>
down7(d) == << DropColumn("routes", "cpus") >>
down8(d) == << DropColumn("apps", "annotations") >>
down9(d) == << DropColumn("routes", "annotations") >>
down10(d) ==
  << Add("calls", "app_name"), Add("logs", "app_name"), Add("routes", "app_name"),
     DropColumn("logs", "app_id"), DropColumn("calls", "app_id"),
     DropColumn("routes", "app_id"), DropColumn("apps", "id") >>
down11(d) == << >>
down12(d) == << >>
down13(d) == << DropColumn("apps", "syslog_url") >>
down14(d) == << DropColumn("routes", "tmpfs_size") >>
down15(d) == Rebuild("apps", AppCols \cup {"syslog_url", "NOT NULL annotations"})
down16(d) == << DropTable("fns") >>
down17(d) == << DropTable("triggers") >>
down18(d) == << DropColumn("calls", "fn_id") >> \o Required(d, "calls")
down19(d) == << DropColumn("logs", "fn_id") >> \o Required(d, "logs")
down20(d) == << CreateTable("routes", RouteCols \cup {"tmpfs_size", "NOT NULL annotations"}) >>
down21(d) == << Add("calls", "path") >>
down22(d) == << Add("fns", "format") >>
down23(d) == << CreateTable("calls", CallCols) >>
down24(d) == << CreateTable("logs", {"id", "app_id", "fn_id", "log"}) >>

Up(d) == << up1(d), up2(d), up3(d), up4(d), up5(d), up6(d), up7(d), up8(d), up9(d),
            up10(d), up11(d), up12(d), up13(d), up14(d), up15(d), up16(d), up17(d),
            up18(d), up19(d), up20(d), up21(d), up22(d), up23(d), up24(d) >>
Down(d) == << down1(d), down2(d), down3(d), down4(d), down5(d), down6(d), down7(d), down8(d),
              down9(d), down10(d), down11(d), down12(d), down13(d), down14(d), down15(d),
              down16(d), down17(d), down18(d), down19(d), down20(d), down21(d), down22(d),
              down23(d), down24(d) >>

latestVersion == Len(Up("mysql"))

\* The schemas a database goes through when all migrations run on it, and the
\* one it has at version v.
Schemas ==
  [d \in Drivers |-> FoldLeft(LAMBDA past, up : Append(past, Run(up, Last(past))), <<V0>>, Up(d))]
SchemaAt(d, v) == Schemas[d][IF v = NilVersion THEN 1 ELSE v + 1]

\* The tables newDS creates in a database that has none.
tables ==
  [apps     |-> AppCols \cup {"syslog_url", "UNIQUE name", "NOT NULL annotations"},
   triggers |-> TriggerCols \cup {"UNIQUE app_id fn_id name"},
   fns      |-> FnCols \cup {"UNIQUE app_id name"}]

\* The schema of a database at version v - 1 after k statements of migration v.
Partial(d, v, k) == Run(SubSeq(Up(d)[v], 1, k), SchemaAt(d, v - 1))

\* Taking a migration back and running it again gives the schema it gave the
\* first time: what the datastore tests rely on when they run all migrations
\* down and up (sql/migrations).  sqlite3 cannot drop columns.
RedoRestores ==
  \A d \in Drivers \ {"sqlite3"}, v \in 1 .. latestVersion :
    Run(Up(d)[v], Run(Down(d)[v], SchemaAt(d, v))) = SchemaAt(d, v)

ASSUME ConfsAssumption ==
  \A k \in Confs : k.driver \in Drivers /\ k.base \in {Fresh, NilVersion} \cup 0 .. latestVersion

\* What the migrations of this repository compute; it has no parameters.
ASSUME SchemasAssumption ==
  /\ latestVersion \in Nat \ {0}
  /\ \A d \in Drivers :
       /\ \A v \in 1 .. latestVersion :
            /\ Up(d)[v] \in Seq([op : STRING, t : STRING, cols : SUBSET STRING])
            /\ Partial(d, v, 0) = SchemaAt(d, v - 1)
            /\ \A k \in 1 .. Len(Up(d)[v]) : Partial(d, v, k) = Exec(Partial(d, v, k - 1), Up(d)[v][k])
            /\ Partial(d, v, Len(Up(d)[v])) = SchemaAt(d, v)
       /\ \A v \in {NilVersion} \cup 0 .. latestVersion : "apps" \in DOMAIN SchemaAt(d, v)
       /\ SchemaAt(d, NilVersion) = SchemaAt(d, 0)
       /\ \A t \in DOMAIN tables :
            /\ t \in DOMAIN SchemaAt(d, latestVersion)
            /\ tables[t] \ Constraints = SchemaAt(d, latestVersion)[t] \ Constraints
       /\ SchemaAt(d, latestVersion) = [t \in DOMAIN SchemaAt(d, latestVersion) |-> SchemaAt(d, latestVersion)[t]]
       /\ "UNIQUE name" \in SchemaAt(d, latestVersion)["apps"]
       /\ d # "postgres" => "UNIQUE app_id name" \in SchemaAt(d, latestVersion)["fns"]
  /\ RedoRestores

-----------------------------------------------------------------------------
(* Opening the database                                                      *)

NoTx == [schema |-> << >>, version |-> NilVersion, dirty |-> FALSE]

Settled(s) == pc[s] \in {"off", "serving", "failed"}
Transactional == conf.driver # "mysql"

MigInit ==
  /\ conf \in Confs
  /\ db = IF conf.base = Fresh THEN [schema |-> << >>, version |-> NilVersion, dirty |-> FALSE]
          ELSE [schema |-> SchemaAt(conf.driver, conf.base), version |-> conf.base, dirty |-> FALSE]
  /\ view = [s \in Starters |-> NoTx]
  /\ wrote = [s \in Starters |-> FALSE]
  /\ mutex = Free
  /\ pc = [s \in Starters |-> "off"]
  /\ running = [s \in Starters |-> 0]
  /\ todo = [s \in Starters |-> << >>]
  /\ pings = [s \in Starters |-> 0]
  /\ crashes = 0
  /\ unmarked = FALSE

\* The process starts, or is started again after newDS failed: sql.Open and the
\* first ping.
New(s) ==
  /\ pc[s] \in {"off", "failed"}
  /\ s \in conf.starters
  /\ pc' = [pc EXCEPT ![s] = "ping"]
  /\ pings' = [pings EXCEPT ![s] = 0]
  /\ UNCHANGED <<conf, db, view, wrote, mutex, todo, crashes, running, unmarked>>

\* pingWithRetry: as many attempts as configured, a second apart.
pingFails(s) ==
  /\ pc[s] = "ping"
  /\ pings' = [pings EXCEPT ![s] = @ + 1]
  /\ pc' = [pc EXCEPT ![s] = IF pings[s] + 1 >= MaxPings THEN "failed" ELSE "ping"]
  /\ UNCHANGED <<conf, db, view, wrote, mutex, todo, crashes, running, unmarked>>

\* The ping is answered, the transaction begins and looks for the apps table:
\* a database without it is new and gets the latest version at once.  On
\* PostgreSQL the version table is taken to exist when apps does.
runMigrations(s) ==
  /\ pc[s] = "ping"
  /\ pc' = [pc EXCEPT ![s] =
              IF "apps" \notin DOMAIN db.schema THEN "fresh"
              ELSE IF db.dirty \/ (db.version = NilVersion /\ conf.driver = "postgres")
              THEN "failed" ELSE "next"]
  /\ view' = [view EXCEPT ![s] = IF pc'[s] = "failed" THEN NoTx ELSE db]
  /\ UNCHANGED <<conf, db, wrote, mutex, todo, pings, crashes, running, unmarked>>

\* A statement of another transaction on the version table waits for the one
\* that wrote it; MySQL commits the DDL of ensureVersionTable.
Writable(s) == \A r \in Starters \ {s} : ~wrote[r]

\* What the transaction of s has not committed goes to the database.
Committed(s) ==
  IF wrote[s] THEN [db EXCEPT !.version = view[s].version, !.dirty = view[s].dirty] ELSE db

\* The row of the version table.  Mutant: a running migration is not marked.
Clean(v) == [version |-> v, dirty |-> FALSE]
DirtyNot(v) == [version |-> v, dirty |-> FALSE]
Dirty(v) == [version |-> v, dirty |-> TRUE]

\* SetVersion: CREATE TABLE IF NOT EXISTS, DELETE, INSERT.
SetVersion(s, row) ==
  /\ Writable(s)
  /\ wrote' = [wrote EXCEPT ![s] = TRUE]
  /\ IF Transactional
     THEN /\ view' = [view EXCEPT ![s] =
                       [schema |-> IF wrote[s] THEN @.schema ELSE db.schema,
                        version |-> row.version, dirty |-> row.dirty]]
          /\ db' = db
     ELSE /\ db' = Committed(s)
          /\ view' = [view EXCEPT ![s] = [schema |-> db.schema, version |-> row.version, dirty |-> row.dirty]]

\* A database without tables: the version is set to the latest before they are
\* created.
setFresh(s) ==
  /\ pc[s] = "fresh"
  /\ SetVersion(s, Clean(latestVersion))
  /\ pc' = [pc EXCEPT ![s] = "create"]
  /\ UNCHANGED <<conf, mutex, todo, pings, crashes, running, unmarked>>

\* migrate goes to the next migration above the version it read, and run takes
\* the lock: PostgreSQL only tries, MySQL waits, sqlite3 has none.
lock(s) ==
  /\ pc[s] = "next"
  /\ view[s].version < latestVersion
  /\ \/ /\ mutex = Free
        /\ mutex' = IF conf.driver = "sqlite3" THEN Free ELSE s
        /\ pc' = [pc EXCEPT ![s] = "run"]
     \/ /\ mutex # Free
        /\ conf.driver = "postgres"
        /\ pc' = [pc EXCEPT ![s] = "failed"]
        /\ mutex' = mutex
  /\ view' = IF pc'[s] = "failed" THEN [view EXCEPT ![s] = NoTx] ELSE view
  /\ wrote' = IF pc'[s] = "failed" THEN [wrote EXCEPT ![s] = FALSE] ELSE wrote
  /\ UNCHANGED <<conf, db, todo, pings, crashes, running, unmarked>>

\* The version as the transaction sees it: its own write, on MySQL otherwise
\* the snapshot of its first read.
seen(s) == IF wrote[s] \/ ~Transactional THEN view[s] ELSE db

\* The migration the loop of migrate has come to.
following(s) == (IF view[s].version = NilVersion THEN 0 ELSE view[s].version) + 1

\* run reads the version again and refuses a dirty database and a gap.
refused(s) == seen(s).dirty \/ (seen(s).version # NilVersion /\ following(s) # seen(s).version + 1)

\* run starts migration v after it wrote this row.
StartMigration(s, row) ==
  /\ SetVersion(s, row)
  /\ running' = [running EXCEPT ![s] = following(s)]
  /\ todo' = [todo EXCEPT ![s] = Up(conf.driver)[following(s)]]
  /\ pc' = [pc EXCEPT ![s] = "up"]
  /\ mutex' = mutex

\* The first half of run: the check, and the version is marked dirty.
run(s) ==
  /\ pc[s] = "run"
  /\ IF refused(s)
     THEN /\ pc' = [pc EXCEPT ![s] = "failed"]
          /\ mutex' = Free
          /\ wrote' = [wrote EXCEPT ![s] = FALSE]
          /\ view' = [view EXCEPT ![s] = NoTx]
          /\ UNCHANGED <<db, running, todo>>
     ELSE StartMigration(s, Dirty(following(s)))
  /\ UNCHANGED <<conf, pings, crashes, unmarked>>

\* SetVersion fails and run, which overwrites the error with that of the
\* migration, goes on without the mark: the row is as it was, or, when only the
\* INSERT failed, gone.  PostgreSQL refuses all that follows in the transaction:
\* there it is an error like any other.  Once in a behaviour is enough.
runUnmarked(s) ==
  /\ pc[s] = "run"
  /\ conf.crashes > 0 /\ ~unmarked /\ conf.driver # "postgres"
  /\ ~refused(s)
  /\ \E v \in {seen(s).version, NilVersion} : StartMigration(s, Clean(v))
  /\ unmarked' = TRUE
  /\ UNCHANGED <<conf, pings, crashes>>

\* Migrations 18 and 19 drop the error of their first statement on MySQL.
shadowed(st) == conf.driver = "mysql" /\ st.op = "add" /\ st.cols = {"fn_id"}

\* One statement of the migration; on MySQL it commits before it is tried.
statement(s) ==
  /\ pc[s] = "up"
  /\ todo[s] # << >>
  /\ LET st == Head(todo[s])
         at == IF Transactional THEN view[s].schema ELSE db.schema
         committed == IF st.op = "copy" THEN db ELSE Committed(s)
     IN  IF Fails(st, at) /\ ~shadowed(st)
         THEN /\ pc' = [pc EXCEPT ![s] = "failed"]
              /\ mutex' = Free
              /\ db' = IF Transactional THEN db ELSE committed
              /\ wrote' = [wrote EXCEPT ![s] = FALSE]
              /\ view' = [view EXCEPT ![s] = NoTx]
              /\ todo' = [todo EXCEPT ![s] = << >>]
              /\ running' = [running EXCEPT ![s] = 0]
         ELSE /\ todo' = [todo EXCEPT ![s] = Tail(@)]
              /\ view' = [view EXCEPT ![s].schema = Exec(at, st)]
              /\ IF Transactional \/ st.op = "copy"
                 THEN UNCHANGED <<db, wrote>>
                 ELSE /\ db' = [committed EXCEPT !.schema = Exec(at, st)]
                      /\ wrote' = [wrote EXCEPT ![s] = FALSE]
              /\ UNCHANGED <<pc, mutex, running>>
  /\ UNCHANGED <<conf, pings, crashes, unmarked>>

\* The second half of run: the version is clean again and the lock is released.
unlock(s) ==
  /\ pc[s] = "up"
  /\ todo[s] = << >>
  /\ SetVersion(s, Clean(running[s]))
  /\ mutex' = Free
  /\ pc' = [pc EXCEPT ![s] = "next"]
  /\ running' = [running EXCEPT ![s] = 0]
  /\ UNCHANGED <<conf, todo, pings, crashes, unmarked>>

\* newDS creates the tables that are missing, in the order Go ranges over a map.
Creating(s) ==
  /\ pc[s] = "create" \/ (pc[s] = "next" /\ view[s].version >= latestVersion)
  /\ wrote[s] \/ Writable(s)
Present(s) == IF Transactional /\ wrote[s] THEN view[s].schema ELSE db.schema
createTable(s) ==
  /\ Creating(s)
  /\ \E t \in DOMAIN tables \ DOMAIN Present(s) :
       LET more == Exec(Present(s), CreateTable(t, tables[t]))
       IN  IF Transactional
           THEN /\ view' = [view EXCEPT ![s].schema = more]
                /\ wrote' = [wrote EXCEPT ![s] = TRUE]
                /\ db' = db
           ELSE /\ db' = [Committed(s) EXCEPT !.schema = more]
                /\ wrote' = [wrote EXCEPT ![s] = FALSE]
                /\ view' = view
  /\ UNCHANGED <<conf, mutex, pc, running, todo, pings, crashes, unmarked>>

\* They are all there: the transaction commits and newDS returns.
opened(s) ==
  /\ Creating(s)
  /\ DOMAIN tables \subseteq DOMAIN Present(s)
  /\ db' = [Committed(s) EXCEPT !.schema = Present(s)]
  /\ wrote' = [wrote EXCEPT ![s] = FALSE]
  /\ pc' = [pc EXCEPT ![s] = "serving"]
  /\ view' = [view EXCEPT ![s] = NoTx]
  /\ pings' = [pings EXCEPT ![s] = 0]
  /\ UNCHANGED <<conf, mutex, running, todo, crashes, unmarked>>

\* The process is killed while it opens the database, or a statement fails and
\* newDS returns the error: the transaction is rolled back and the lock released.
crash(s) ==
  /\ crashes < conf.crashes
  /\ ~Settled(s)
  /\ crashes' = crashes + 1
  /\ \E p \in {"off", "failed"} : pc' = [pc EXCEPT ![s] = p]
  /\ wrote' = [wrote EXCEPT ![s] = FALSE]
  /\ mutex' = IF mutex = s THEN Free ELSE mutex
  /\ todo' = [todo EXCEPT ![s] = << >>]
  /\ view' = [view EXCEPT ![s] = NoTx]
  /\ running' = [running EXCEPT ![s] = 0]
  /\ UNCHANGED <<conf, db, pings, unmarked>>

MigNext ==
  \E s \in Starters :
    \/ New(s) \/ pingFails(s) \/ runMigrations(s) \/ setFresh(s) \/ lock(s) \/ run(s)
    \/ runUnmarked(s) \/ statement(s) \/ unlock(s) \/ createTable(s) \/ opened(s) \/ crash(s)

-----------------------------------------------------------------------------
(* Properties                                                                *)

Expected(d, v) == {SchemaAt(d, v)} \cup IF v = latestVersion THEN {tables} ELSE {}

\* A server that got through newDS finds every table and column the queries of
\* sql.go use (one server at a time on MySQL, where a second one that read the
\* version before the first had finished marks the database dirty again).
ServesLatest ==
  (Transactional \/ Cardinality(conf.starters) = 1) =>
    \A s \in Starters : pc[s] = "serving" =>
      /\ db.version = latestVersion
      /\ \A t \in DOMAIN tables :
           t \in DOMAIN db.schema /\ tables[t] \ Constraints = db.schema[t] \ Constraints

\* The tables newDS has created so far in a new database.
PartOfTables(schema) == \E T \in SUBSET DOMAIN tables : schema = [t \in T |-> tables[t]]
\* A migration stopped half way.
PartOfMigration(d, schema) == \E v \in 1 .. latestVersion : \E k \in 0 .. Len(Up(d)[v]) : schema = Partial(d, v, k)

\* Whatever a killed or failing server leaves behind, the version row tells the
\* schema, which is one and the same whichever way up and down led to it: a
\* database that is not marked dirty has exactly the tables, columns
\* and constraints its version stands for (sql.go newDS, migratex run).  Where
\* DDL is transactional nothing half done is ever committed: the database keeps
\* its version or has the latest one, and is never dirty.  On MySQL the dirty
\* mark is what protects it, with one server at a time (one that took its
\* snapshot before another was killed does not see the mark), and not from
\* newDS itself, which gives a new database the latest version before it
\* creates the tables one by one; not when the mark could not be written, an
\* error run drops; and not when a server is killed between the renaming and
\* the creation of apps in migration 15, which leaves a database that looks new.
SchemaMatchesVersion ==
  /\ ServesLatest /\ RedoRestores
  /\ \/ db.schema = << >>
     \/ /\ ~Transactional
        /\ \/ db.dirty
           \/ Cardinality(conf.starters) > 1
           \/ conf.base = Fresh /\ db.version = latestVersion /\ PartOfTables(db.schema)
           \/ unmarked /\ PartOfMigration(conf.driver, db.schema)
           \/ crashes > 0 /\ Old("apps") \in DOMAIN db.schema
     \/ /\ ~db.dirty
        /\ db.schema \in Expected(conf.driver, db.version)
        /\ Transactional /\ conf.base # Fresh => db.version \in {conf.base, latestVersion}
=============================================================================
