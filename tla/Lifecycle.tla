----------------------------- MODULE Lifecycle ------------------------------
(***************************************************************************)
(* The life of the indexer process: main brings the database schema to the *)
(* current version, start_processing waits for kaspad, fetches the         *)
(* checkpoint blocks and spawns the tasks, and the process ends when all   *)
(* tasks ended, when one of them panicked or when a signal is repeated.    *)
(*                                                                         *)
(* execute_ddl runs a script statement by statement on one connection and  *)
(* without a transaction, so that whatever ends the process leaves the     *)
(* database between two statements.  Signal handlers exist only once       *)
(* start_processing runs: before that a signal just kills the process.     *)
(*                                                                         *)
(* What the tasks do is in the other modules; here a task runs until it    *)
(* sees the shutdown, and the two processors may find checkpoint_queue     *)
(* full, which only the checkpoint processor empties.                      *)
(***************************************************************************)
EXTENDS Schema, FiniteSets

CONSTANTS
    Databases,  \* versions the database may have at first, NoVersion for none
    Flags,      \* choices of [initialize_db, upgrade_db]
    Tasks,      \* the tasks the flags let start_processing spawn
    PruneDb,    \* is prune_db set?
    MaxStarts   \* bound: starts in a behaviour

AllTasks ==
    {"webserver", "block_fetcher", "process_blocks", "process_checkpoints",
     "process_transactions", "fetch_virtual_chain", "process_virtual_chain",
     "pruner"}

\* Tasks that announce their batches to the checkpoint processor.
Announcers == {"process_blocks", "process_transactions"} \cap Tasks

\* A table without rows has none of what belongs to its rows.
ASSUME NoRowsAssumption ==
    /\ NoRows \subseteq Facts
    /\ "transaction" \in NoRows => TransactionFacts \subseteq NoRows
    /\ "block" \in NoRows => BlockFacts \subseteq NoRows

ASSUME LifecycleAssumption ==
    /\ Databases \subseteq Nat \ 2..SCHEMA_VERSION
    /\ Flags \subseteq [initialize_db : BOOLEAN, upgrade_db : BOOLEAN]
    /\ {"webserver", "block_fetcher", "process_blocks", "process_checkpoints",
        "pruner"} \subseteq Tasks
    /\ Tasks \subseteq AllTasks
    /\ PruneDb \in BOOLEAN
    /\ MaxStarts \in Nat

VARIABLES
    (* PostgreSQL *)
    db,
    (* main *)
    pc,           \* "down" | "select" | "ddl" | "ladder" | "recheck" |
                  \* "connect" | "fetch" | "run"
    upgrade_db,   \* argument of create_schema
    script,       \* <<"up" or "down" or "migrate", version>>
    at,           \* the next statement of script
    version,      \* local of create_schema
    (* SignalHandler *)
    handler,      \* are the signal handlers installed?
    shutdown,     \* shutdown_sent
    (* start_processing *)
    status,       \* of each task: "off" | "spawned" | "running" | "pushing" |
                  \* "notified" | "panicked" | "ended"
    (* history *)
    starts,
    interrupted,  \* scripts that ended between two statements
    first,        \* the version found at first
    initialized   \* was initialize_db given?

schemaVars  == <<upgrade_db, script, at, version>>
mainVars    == <<pc, schemaVars>>
processVars == <<handler, shutdown, status>>
history     == <<starts, interrupted, first, initialized>>

vars == <<db, mainVars, processVars, history>>

Statements(s) ==
    IF s[1] = "up" THEN up
    ELSE IF s[1] = "down" THEN down ELSE Migration(s[2])

Off == [t \in Tasks |-> "off"]

\* Versions 2 to 23 come from version 1, by a stop between two migrations.
Init ==
    /\ first \in Databases
    /\ db = IF first = NoVersion THEN Empty
            ELSE IF first = 1 THEN Version1
            ELSE [objects |-> Fresh, held |-> {}, version |-> first]
    /\ pc = "down"
    /\ upgrade_db = FALSE /\ script = <<"up", NoVersion>> /\ at = 1
    /\ version = NoVersion
    /\ handler = FALSE /\ shutdown = FALSE /\ status = Off
    /\ starts = 0 /\ interrupted = {} /\ initialized = FALSE

-----------------------------------------------------------------------------
(***************************************************************************)
(* The end of the process                                                  *)
(***************************************************************************)

\* The locals of create_schema are gone.
CreateSchemaReturns ==
    /\ upgrade_db' = FALSE /\ script' = <<"up", NoVersion>> /\ at' = 1
    /\ version' = NoVersion

\* Nothing of the process is left; the session's temporary table goes too.
ProcessEnds ==
    /\ pc' = "down"
    /\ db' = Execute(db, DropIfExists(Table("subnetwork_compressed")))
    /\ interrupted' = IF pc = "ddl" /\ 1 < at /\ at <= Len(Statements(script))
                      THEN interrupted \cup {script} ELSE interrupted
    /\ CreateSchemaReturns
    /\ handler' = FALSE /\ shutdown' = FALSE /\ status' = Off
    /\ UNCHANGED <<starts, first, initialized>>

\* Killed, out of memory, or a panic of main: a failed connection or statement,
\* a checkpoint block that kaspad no longer has.
Crash ==
    /\ pc # "down"
    /\ ProcessEnds

-----------------------------------------------------------------------------
(***************************************************************************)
(* main and create_schema                                                  *)
(***************************************************************************)
RunScript(s) == pc' = "ddl" /\ script' = s /\ at' = 1

Start(f) ==
    /\ pc = "down"
    /\ starts < MaxStarts
    /\ starts' = starts + 1
    /\ upgrade_db' = f.upgrade_db
    /\ initialized' = (initialized \/ f.initialize_db)
    /\ IF f.initialize_db THEN RunScript(<<"down", NoVersion>>)
       ELSE pc' = "select" /\ UNCHANGED <<script, at>>
    /\ UNCHANGED <<db, version, processVars, interrupted, first>>

\* select_var("schema_version"): any error means that there is no schema.
SelectVersion(ok) ==
    /\ pc = "select"
    /\ IF ok /\ db.version # NoVersion
       THEN pc' = "ladder" /\ version' = db.version /\ UNCHANGED <<script, at>>
       ELSE RunScript(<<"up", NoVersion>>) /\ UNCHANGED version
    /\ UNCHANGED <<db, upgrade_db, processVars, history>>

\* The next migration, or none for this version.
Ladder ==
    /\ pc = "ladder"
    /\ version \in Migrated => upgrade_db
    /\ IF version \in Migrated THEN RunScript(<<"migrate", version>>)
       ELSE pc' = "recheck" /\ UNCHANGED <<script, at>>
    /\ UNCHANGED <<db, upgrade_db, version, processVars, history>>

\* "Found outdated schema": without -u main panics.
Outdated ==
    /\ pc = "ladder"
    /\ version \in Migrated /\ ~upgrade_db
    /\ ProcessEnds

\* Faulty: execute_ddl goes on after a statement that failed.
ExecuteStatementAnyway ==
    /\ pc = "ddl"
    /\ at <= Len(Statements(script))
    /\ LET s == Statements(script)[at]
       IN  db' = IF Fails(db, s) THEN db ELSE Execute(db, s)
    /\ at' = at + 1
    /\ UNCHANGED <<pc, upgrade_db, script, version, processVars, history>>

\* One statement of execute_ddl, committed by itself.
ExecuteStatement ==
    /\ pc = "ddl"
    /\ at <= Len(Statements(script))
    /\ ~Fails(db, Statements(script)[at])
    /\ db' = Execute(db, Statements(script)[at])
    /\ at' = at + 1
    /\ UNCHANGED <<pc, upgrade_db, script, version, processVars, history>>

\* The server rejects a statement: "Unable to create schema".
StatementFails ==
    /\ pc = "ddl"
    /\ at <= Len(Statements(script))
    /\ Fails(db, Statements(script)[at])
    /\ ProcessEnds

\* The script is through: on with select_var, start_processing or the ladder.
ScriptDone ==
    /\ pc = "ddl"
    /\ at > Len(Statements(script))
    /\ \/ script[1] = "down" /\ pc' = "select" /\ UNCHANGED schemaVars
       \/ script[1] = "up" /\ pc' = "connect" /\ CreateSchemaReturns
       \/ /\ script[1] = "migrate"
          /\ pc' = "ladder" /\ version' = NextVersion(script[2])
          /\ UNCHANGED <<upgrade_db, script, at>>
    /\ interrupted' = IF script[1] = "down" THEN {} ELSE interrupted
    /\ UNCHANGED <<db, processVars, starts, first, initialized>>

\* "Schema is up to date"
UpToDate ==
    /\ pc = "recheck"
    /\ db.version = SCHEMA_VERSION
    /\ pc' = "connect"
    /\ CreateSchemaReturns
    /\ UNCHANGED <<db, processVars, history>>

\* "Found old & unsupported schema", "Found newer & unsupported schema"
Unsupported ==
    /\ pc = "recheck"
    /\ db.version # SCHEMA_VERSION
    /\ ProcessEnds

-----------------------------------------------------------------------------
(***************************************************************************)
(* SignalHandler                                                           *)
(***************************************************************************)

\* The task that start_processing spawned first registers the handlers.
InstallHandler ==
    /\ pc \in {"connect", "fetch", "run"}
    /\ ~handler
    /\ handler' = TRUE
    /\ UNCHANGED <<db, mainVars, shutdown, status, history>>

\* The first SIGINT or SIGTERM sets the flag and wakes who subscribed before.
HandleSignal ==
    /\ handler /\ ~shutdown
    /\ shutdown' = TRUE
    /\ status' = [t \in Tasks |-> IF t = "webserver" /\ status[t] = "running"
                                  THEN "notified" ELSE status[t]]
    /\ UNCHANGED <<db, mainVars, handler, history>>

\* A signal without a handler, or the second one.
ForcedClose ==
    /\ pc # "down"
    /\ ~handler \/ shutdown
    /\ ProcessEnds

-----------------------------------------------------------------------------
(***************************************************************************)
(* start_processing                                                        *)
(***************************************************************************)

\* kaspad answered get_block_dag_info; else the loop sleeps.
Connect ==
    /\ pc = "connect"
    /\ ~shutdown
    /\ pc' = "fetch"
    /\ UNCHANGED <<db, schemaVars, processVars, history>>

\* The loop sees the shutdown and start_processing returns.
ConnectStops ==
    /\ pc = "connect"
    /\ shutdown
    /\ ProcessEnds

\* Both checkpoint blocks were fetched, which looks at no flag.
SpawnTasks ==
    /\ pc = "fetch"
    /\ pc' = "run"
    /\ status' = [t \in Tasks |-> "spawned"]
    /\ UNCHANGED <<db, schemaVars, handler, shutdown, history>>

\* The first poll of a task; the web server subscribes here.
TaskStarts(t) ==
    /\ status[t] = "spawned"
    /\ status' = [status EXCEPT ![t] = "running"]
    /\ UNCHANGED <<db, mainVars, handler, shutdown, history>>

\* checkpoint_queue is full; the loop around the push looks at no flag.
QueueFull(t) ==
    /\ t \in Announcers
    /\ status[t] = "running"
    /\ status' = [status EXCEPT ![t] = "pushing"]
    /\ UNCHANGED <<db, mainVars, handler, shutdown, history>>

\* process_checkpoints pops an entry.
QueueRoom(t) ==
    /\ t \in Announcers
    /\ status[t] = "pushing"
    /\ status["process_checkpoints"] = "running"
    /\ status' = [status EXCEPT ![t] = "running"]
    /\ UNCHANGED <<db, mainVars, handler, shutdown, history>>

\* Faulty: the web server is not told to stop.
TaskEndsUnlessServer(t) ==
    /\ t # "webserver"
    /\ status[t] = "running"
    /\ shutdown
    /\ status' = [status EXCEPT ![t] = "ended"]
    /\ UNCHANGED <<db, mainVars, handler, shutdown, history>>

\* A loop sees the flag, the web server its notification; a pruner without a
\* schedule ends at once.
TaskEnds(t) ==
    /\ IF t = "webserver" THEN status[t] = "notified"
       ELSE /\ status[t] = "running"
            /\ shutdown \/ (t = "pruner" /\ ~PruneDb)
    /\ status' = [status EXCEPT ![t] = "ended"]
    /\ UNCHANGED <<db, mainVars, handler, shutdown, history>>

\* A statement failed for good, a lock is poisoned, the port is in use.
TaskPanics(t) ==
    /\ status[t] \in {"spawned", "running"}
    /\ status' = [status EXCEPT ![t] = "panicked"]
    /\ UNCHANGED <<db, mainVars, handler, shutdown, history>>

\* Faulty: join_all waits for the tasks that are left.
JoinAll ==
    /\ pc = "run"
    /\ \A t \in Tasks : status[t] \in {"ended", "panicked"}
    /\ ProcessEnds

\* try_join_all(tasks).await.unwrap(): at the first panic, or when all ended.
TryJoinAll ==
    /\ pc = "run"
    /\ \/ \E t \in Tasks : status[t] = "panicked"
       \/ \A t \in Tasks : status[t] = "ended"
    /\ ProcessEnds

-----------------------------------------------------------------------------
Main ==
    \/ \E ok \in BOOLEAN : SelectVersion(ok)
    \/ Ladder \/ Outdated
    \/ ExecuteStatement \/ StatementFails \/ ScriptDone
    \/ UpToDate \/ Unsupported
    \/ ConnectStops \/ SpawnTasks
    \/ TryJoinAll

Task(t) == TaskStarts(t) \/ QueueRoom(t) \/ TaskEnds(t)

Next ==
    \/ \E f \in Flags : Start(f)
    \/ Main
    \/ Connect
    \/ InstallHandler
    \/ HandleSignal
    \/ ForcedClose
    \/ \E t \in Tasks : Task(t) \/ QueueFull(t) \/ TaskPanics(t)
    \/ Crash

Spec == Init /\ [][Next]_vars

\* main and the tasks keep running and statements return; kaspad may stay away,
\* and nobody has to send a signal or start the process.
FairSpec ==
    /\ Spec
    /\ WF_vars(Main)
    /\ \A t \in Tasks : WF_vars(Task(t))

-----------------------------------------------------------------------------
(***************************************************************************)
(* Properties                                                              *)
(***************************************************************************)

Ready == pc \in {"connect", "fetch", "run"}

\* Every object the current queries use is there, and everything that was ever
\* stored is where they look for it, but for transactions of blocks that were not
\* stored.
Complete ==
    /\ Current \subseteq db.objects
    /\ Keyed(db)
    /\ (first = 1 /\ ~initialized) => \A h \in Home : Joined(h[1]) => h \in db.held

\* "Schema v23 is up to date": the tasks start on a complete schema only.  A crash
\* in any migration, at any statement, is either repaired when it is run again or
\* refused by the server, never taken for a finished upgrade.  Exempt are up.sql,
\* which sets schema_version before it makes the tables, and down.sql, which
\* drops vars last: interrupted, they leave a version 23 without its tables.
\* (create_schema, execute_ddl and the order of the statements of each script)
UpgradeIsComplete ==
    interrupted \cap {<<"up", NoVersion>>, <<"down", NoVersion>>} = {}
        => (Ready => Complete)

\* No crash, restart or repeated migration loses what was stored: until somebody
\* asks for initialize_db, each fact is in some table.  Exempt is what
\* blocks_transactions holds of blocks that are not in blocks, which v22_to_v23
\* drops.  (the order of copies and drops in the migrations)
DataKept ==
    (first = 1 /\ ~initialized) =>
        \A f \in Facts : Joined(f) => \E h \in db.held : h[1] = f

\* The next statement is going to be refused.
Refused ==
    /\ pc = "ddl" /\ at <= Len(Statements(script))
    /\ Fails(db, Statements(script)[at])

\* A statement is refused only after a script was interrupted, when a read of
\* the version failed (up.sql then stops at its first statement), by down.sql on
\* a schema before version 20, or by v20_to_v21 where no transaction is stored:
\* otherwise the migrations fit together from any version on.  (create_schema)
MigrationsFit ==
    Refused =>
        \/ interrupted # {}
        \/ script[1] = "up" /\ at = 1 /\ db.version # NoVersion
        \/ script[1] = "down" /\ db.version < 20
        \/ script = <<"migrate", 20>> /\ "transaction" \in NoRows

\* The web server subscribed too late to hear of the shutdown.
ServerMissedSignal == shutdown /\ status["webserver"] = "running"

\* A processor waits for room in checkpoint_queue that nobody makes any more.
StuckOnQueue ==
    /\ status["process_checkpoints"] = "ended"
    /\ \E t \in Announcers : status[t] = "pushing"

\* After the first signal the process ends, whatever it was doing, unless the
\* broadcast came before the web server subscribed or the checkpoint processor
\* ended while another task waits for room in its queue.  Those two need the
\* second signal.  (handle_signal, WebServer::run, start_processing)
ShutdownEndsProcess ==
    shutdown ~> (pc = "down" \/ ServerMissedSignal \/ StuckOnQueue)

\* A task that panics takes the process down, so that the others do not go on
\* without it.  (try_join_all in start_processing)
PanicEndsProcess ==
    (\E t \in Tasks : status[t] = "panicked") ~> pc = "down"

=============================================================================
