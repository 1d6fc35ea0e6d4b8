----------------------------- MODULE Migrations -----------------------------
(***************************************************************************)
(* The migrate command (apps/core/management/commands): the public schema  *)
(* first, then the schemas of all instances by a pool of threads, a hundred *)
(* keys to a job, then the first instance if there is none yet.            *)
(*                                                                         *)
(* A schema that does not exist is made from the current models and the    *)
(* names of all migrations are recorded for it.  To that end a thread      *)
(* replaces a method of Django's MigrationLoader, which all threads share. *)
(*                                                                         *)
(* What a schema holds is the number of the migration it is at.            *)
(***************************************************************************)
EXTENDS Integers, FiniteSets

CONSTANTS
    Threads,            \* CONCURRENT_MIGRATION_THREADS of them
    Tenants,            \* keys of instances
    FirstTenant,        \* the instance of the init_instances fixture
    RangeOf,            \* the job of the pool that a key falls into
    Latest,             \* migrations of this release
    MaxCommands,        \* bound: how often the command is run
    MaxMigrateFaults    \* bound: statements that fail

ASSUME MigrationsAssumption ==
    /\ FirstTenant \in Tenants /\ Tenants \subseteq Nat /\ RangeOf \in [Tenants -> Nat]
    /\ Latest \in Nat \ {0} /\ MaxCommands \in Nat /\ MaxMigrateFaults \in Nat

VARIABLES
    tenantRows,  \* instances that have a row
    publicAt,    \* what the public schema is at
    schema,      \* each instance's schema
    loader,      \* MigrationLoader.migrations_module: "original" or "none"
    setBy,       \* history: the threads that replaced it last
    command,     \* progress of the command
    jobs,        \* ranges no thread has taken
    thread,      \* each thread: next step, rest of its range, created, what it saw
    known,       \* each thread's migration_cache: how many names, at most one number
    commands, migrateFaults,
    misled,      \* history: instances whose thread saw another thread's loader
    halfway,     \* history: instances whose first migration was broken off
    unindexed    \* history: instances whose custom SQL failed

migrationsVars == <<tenantRows, publicAt, schema, loader, setBy, command, jobs, thread, known, commands,
                    migrateFaults, misled, halfway, unindexed>>

(* Before it is created a schema is at no migration. *)
NoSchema == [made |-> "no", tables |-> 0, recorded |-> 0, sql |-> "no", defaults |-> {}]
OldSchema(n) == [made |-> "yes", tables |-> n, recorded |-> n, sql |-> "yes",
                 defaults |-> {"profile", "configs", "channels", "templates"}]
Parked == [pc |-> "parked", rest |-> {}, created |-> "no"]

(* Instances of an earlier release, and rows whose schema is still to come. *)
MigrationsInit ==
    /\ tenantRows \in SUBSET Tenants
    /\ publicAt = 0
    /\ schema \in [Tenants -> {NoSchema, OldSchema(Latest - 1)}]
    /\ \A t \in Tenants \ tenantRows : schema[t] = NoSchema
    /\ loader = "original" /\ setBy = {}
    /\ command = "ended" /\ jobs = {}
    /\ thread = [w \in Threads |-> Parked] /\ known = [w \in Threads |-> {}]
    /\ commands = 0 /\ migrateFaults = 0
    /\ misled = {} /\ halfway = {} /\ unindexed = {}

MigrateFault ==
    /\ migrateFaults < MaxMigrateFaults
    /\ migrateFaults' = migrateFaults + 1

-----------------------------------------------------------------------------
(* The command *)

(* handle: a new process, for the public schema and all instances. *)
StartCommand ==
    /\ command \in {"ended", "failed"} /\ commands < MaxCommands
    /\ command' = "public"
    /\ commands' = commands + 1
    /\ loader' = "original" /\ setBy' = {}
    /\ known' = [w \in Threads |-> {}]
    /\ UNCHANGED <<tenantRows, publicAt, schema, jobs, thread, migrateFaults, misled, halfway, unindexed>>

(* migrate_tenant_apps: the ranges from the first to the last key. *)
SubmitJobs(rows) == jobs' = {RangeOf[t] : t \in rows}

(* process: public apps and fixtures, before any thread is started. *)
MigratePublic ==
    /\ command = "public"
    /\ publicAt' = Latest
    /\ command' = "tenants"
    /\ SubmitJobs(tenantRows)
    /\ UNCHANGED <<tenantRows, schema, loader, setBy, thread, known, commands, migrateFaults, misled, halfway,
                   unindexed>>

(* instances_post_migrate_handler loads the fixture of the first instance. *)
LoadFirstInstance == tenantRows' = tenantRows \cup {FirstTenant}

AllParked == jobs = {} /\ \A w \in Threads : thread[w].pc = "parked"

(* Every future is done; a result that is an exception ends the command.    *)
(* Otherwise post_full_migrate makes the first instance if there is none    *)
(* and migrates all instances once more, with a new pool.                   *)
JoinThreads ==
    /\ AllParked
    /\ \/ /\ command = "broken"
          /\ command' = "failed"
          /\ UNCHANGED <<tenantRows, jobs, known>>
       \/ /\ command = "tenants" /\ FirstTenant \in tenantRows
          /\ command' = "ended"
          /\ UNCHANGED <<tenantRows, jobs, known>>
       \/ /\ command = "tenants" /\ FirstTenant \notin tenantRows
          /\ LoadFirstInstance
          /\ SubmitJobs(tenantRows')
          /\ known' = [w \in Threads |-> {}]
          /\ UNCHANGED command
    /\ UNCHANGED <<publicAt, schema, loader, setBy, thread, commands, migrateFaults, misled, halfway, unindexed>>

-----------------------------------------------------------------------------
(* _migrate_tenants, in one of the threads *)

TakeJob(w) ==
    /\ thread[w].pc = "parked"
    /\ \E job \in jobs :
        /\ jobs' = jobs \ {job}
        /\ thread' = [thread EXCEPT ![w] =
                [Parked EXCEPT !.pc = "schema", !.rest = {t \in tenantRows : RangeOf[t] = job}]]
    /\ UNCHANGED <<tenantRows, publicAt, schema, loader, setBy, command, known, commands, migrateFaults, misled,
                   halfway, unindexed>>

(* The instances of a range come in the order of their keys. *)
Current(w) == CHOOSE t \in thread[w].rest : \A u \in thread[w].rest : t <= u

Goes(w, pc) == thread' = [thread EXCEPT ![w].pc = pc]

(* _migrate_schema, and ensure_schema for the table of migrations. *)
MigrateSchema(w) ==
    LET t == Current(w)
        new == schema[t].made = "no"
    IN  /\ thread[w].pc = "schema"
        /\ schema' = [schema EXCEPT ![t].made = "yes"]
        /\ thread' = [thread EXCEPT ![w].pc = "patch", ![w].created = IF new THEN "yes" ELSE "no"]
        /\ halfway' = IF new THEN halfway \cup {t} ELSE halfway
        /\ UNCHANGED <<tenantRows, publicAt, loader, setBy, command, jobs, known, commands, migrateFaults, misled,
                       unindexed>>

(* run_migrations replaces migrations_module for all threads. *)
PatchLoader(w) ==
    /\ thread[w].pc = "patch"
    /\ loader' = IF thread[w].created = "yes" THEN "none" ELSE "original"
    /\ setBy' = {w}
    /\ Goes(w, "execute")
    /\ UNCHANGED <<tenantRows, publicAt, schema, command, jobs, known, commands, migrateFaults, misled, halfway,
                   unindexed>>

(* Another thread has taken the migrations away. *)
Misleads(w) == loader = "none" /\ setBy # {w}

(* Django's command: without migrations run_syncdb makes the tables of all  *)
(* apps; with them those that are not recorded are applied, which only      *)
(* works where the tables are what is recorded.                             *)
Executed(s, created) ==
    IF loader = "none"
    THEN IF created = "yes" THEN [s EXCEPT !.tables = Latest] ELSE s
    ELSE [s EXCEPT !.tables = Latest, !.recorded = Latest]

(* The future ends with an exception; the rest of its range is left. *)
Raises(w) ==
    /\ thread' = [thread EXCEPT ![w] = Parked]
    /\ command' = "broken"

ExecuteMigrate(w) ==
    LET t == Current(w)
        clash == loader = "original" /\ schema[t].tables # schema[t].recorded
    IN  /\ thread[w].pc = "execute"
        /\ \/ /\ ~clash
              /\ schema' = [schema EXCEPT ![t] = Executed(@, thread[w].created)]
              /\ Goes(w, IF thread[w].created = "yes" THEN "restore" ELSE "sql")
              /\ UNCHANGED <<command, migrateFaults>>
           \/ clash /\ Raises(w) /\ UNCHANGED <<schema, migrateFaults>>
           \/ MigrateFault /\ Raises(w) /\ UNCHANGED schema
        /\ misled' = IF Misleads(w) /\ thread[w].created = "no" THEN misled \cup {t} ELSE misled
        /\ UNCHANGED <<tenantRows, publicAt, loader, setBy, jobs, known, commands, halfway, unindexed>>

(* Fault: the names of the migrations are listed before the loader is       *)
(* restored.                                                                *)
FaultRestoreLoader(w) ==
    /\ thread[w].pc = "restore"
    /\ setBy' = {w}
    /\ Goes(w, "populate")
    /\ UNCHANGED <<tenantRows, publicAt, schema, loader, command, jobs, known, commands, migrateFaults, misled,
                   halfway, unindexed>>

(* _populate_migrations *)
RestoreLoader(w) ==
    /\ thread[w].pc = "restore"
    /\ loader' = "original"
    /\ setBy' = {w}
    /\ Goes(w, "populate")
    /\ UNCHANGED <<tenantRows, publicAt, schema, command, jobs, known, commands, migrateFaults, misled, halfway,
                   unindexed>>

(* _get_migrations looks for the modules of all apps, through the loader. *)
Names == IF loader = "none" THEN 0 ELSE Latest

(* get_migrations: each thread keeps what it found first. *)
Listed(w) == IF known[w] = {} THEN {Names} ELSE known[w]

(* A thread that has read another's loader misleads all it does later.      *)
PopulateMigrations(w) ==
    LET t == Current(w)
    IN  /\ thread[w].pc = "populate"
        /\ \/ /\ schema' = [schema EXCEPT ![t].recorded = IF Listed(w) = {0} THEN @ ELSE Latest]
              /\ Goes(w, "sql")
              /\ known' = [known EXCEPT ![w] = Listed(w)]
              /\ misled' = IF Misleads(w) \/ known[w] = {0} THEN misled \cup {t} ELSE misled
              /\ UNCHANGED <<command, migrateFaults>>
           \/ MigrateFault /\ Raises(w) /\ UNCHANGED <<schema, known, misled>>
        /\ UNCHANGED <<tenantRows, publicAt, loader, setBy, jobs, commands, halfway, unindexed>>

(* _run_custom_sql: only for a new schema, and an error is only printed. *)
RunCustomSql(w) ==
    LET t == Current(w)
    IN  /\ thread[w].pc = "sql"
        /\ Goes(w, "signal")
        /\ \/ /\ schema' = [schema EXCEPT ![t].sql = IF thread[w].created = "yes" THEN "yes" ELSE @]
              /\ UNCHANGED <<migrateFaults, unindexed>>
           \/ /\ thread[w].created = "yes" /\ MigrateFault
              /\ unindexed' = unindexed \cup {t}
              /\ UNCHANGED schema
        /\ UNCHANGED <<tenantRows, publicAt, loader, setBy, command, jobs, known, commands, misled, halfway>>

(* What the receivers of post_tenant_migrate make in a new schema. *)
UserProfile(created) == IF created = "yes" THEN {"profile"} ELSE {}
PushConfigs(created) == IF created = "yes" THEN {"configs"} ELSE {}
DefaultChannels(created) == IF created = "yes" THEN {"channels"} ELSE {}
Templates(created) == IF created = "yes" THEN {"templates"} ELSE {}

(* Then the next instance of the range. *)
SendPostMigrate(w) ==
    LET t == Current(w)
        c == thread[w].created
        rest == thread[w].rest \ {t}
    IN  /\ thread[w].pc = "signal"
        /\ schema' = [schema EXCEPT ![t].defaults =
                @ \cup UserProfile(c) \cup PushConfigs(c) \cup DefaultChannels(c) \cup Templates(c)]
        /\ halfway' = IF c = "yes" THEN halfway \ {t} ELSE halfway
        /\ thread' = [thread EXCEPT ![w] = IF rest = {} THEN Parked
                                           ELSE [Parked EXCEPT !.pc = "schema", !.rest = rest]]
        /\ UNCHANGED <<tenantRows, publicAt, loader, setBy, command, jobs, known, commands, migrateFaults, misled,
                       unindexed>>

(* The process dies with all of its threads. *)
KillCommand ==
    /\ command \in {"tenants", "broken"}
    /\ MigrateFault
    /\ command' = "failed"
    /\ jobs' = {}
    /\ thread' = [w \in Threads |-> Parked]
    /\ UNCHANGED <<tenantRows, publicAt, schema, loader, setBy, known, commands, misled, halfway, unindexed>>

MigrationsNext ==
    \/ StartCommand \/ MigratePublic \/ JoinThreads \/ KillCommand
    \/ \E w \in Threads : \/ TakeJob(w) \/ MigrateSchema(w) \/ PatchLoader(w) \/ ExecuteMigrate(w)
                          \/ RestoreLoader(w) \/ PopulateMigrations(w) \/ RunCustomSql(w) \/ SendPostMigrate(w)

MigrationsSpec == MigrationsInit /\ [][MigrationsNext]_migrationsVars

-----------------------------------------------------------------------------
(* No schema records what its tables do not have.                           *)
(* After a command that ends without an error every instance is at the      *)
(* latest migration and has all of them recorded - except those whose       *)
(* thread saw another thread's loader.  A schema whose first migration was  *)
(* not broken off has its initial data and, unless it failed, its own SQL.  *)
SchemasMigrated ==
    /\ \A t \in Tenants : schema[t].recorded <= schema[t].tables
    /\ commands > 0 /\ command = "ended" =>
        /\ publicAt = Latest /\ FirstTenant \in tenantRows
        /\ \A t \in tenantRows \ misled :
            /\ schema[t].tables = Latest /\ schema[t].recorded = Latest
            /\ t \notin halfway => /\ schema[t].defaults = OldSchema(Latest).defaults
                                   /\ t \notin unindexed => schema[t].sql = "yes"
=============================================================================
