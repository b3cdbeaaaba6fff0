----------------------------- MODULE Migrations -----------------------------
(***************************************************************************)
(* apply_migrations (data_platform/migrations.py), which every worker runs *)
(* when it starts: several starts at once on one database, on SQLite and   *)
(* on PostgreSQL, and starts that die half way.                            *)
(*                                                                         *)
(* Each member of Starters is one call; a restart is another member.       *)
(* PostgreSQL runs a version in one transaction. sqlite3 opens its         *)
(* transaction only at the INSERT: every DDL statement before it commits   *)
(* on its own, and other starts run between them.                          *)
(***************************************************************************)
EXTENDS Naturals, Sequences

CONSTANTS
    Starters,
    Dialects      \* the databases to consider

ASSUME MigrationsAssumption == Dialects \subseteq {"sqlite", "postgresql"}

VARIABLES
    dialect,      \* the database's; never changes
    schema,       \* the tables and added columns that exist
    recorded,     \* the versions in schema_migrations
    phase,        \* where each call is
    todo,         \* the versions it found not applied and has not yet run
    position      \* the statements of its current version it has executed

calls == <<phase, todo, position>>
migrationVars == <<dialect, schema, recorded, calls>>

\* What the statements of each version create, in order.
Script ==
    <<  <<"staging_orders", "dim_customers", "fact_orders",
          "quarantined_orders", "pipeline_runs">>,
        <<"data_quality_results">>,
        <<"batch_date", "trigger_type", "pipeline_locks">>,
        <<"file_manifest">>  >>

Versions == DOMAIN Script

\* Columns come by ALTER TABLE ... ADD COLUMN, which raises when the column
\* is there; tables by CREATE TABLE IF NOT EXISTS, which does not.
Columns == {"batch_date", "trigger_type"}

Created(v) == {Script[v][i] : i \in DOMAIN Script[v]}

Objects == {"schema_migrations"} \cup UNION {Created(v) : v \in Versions}

Ended == {"done", "raised", "dead"}

MigrationsTypeOK ==
    /\ dialect \in Dialects
    /\ schema \subseteq Objects
    /\ recorded \subseteq Versions
    /\ phase \in [Starters -> {"idle", "creating", "reading", "running"} \cup Ended]
    /\ todo \in [Starters -> SUBSET Versions]
    /\ position \in [Starters -> 0 .. 5]

MigrationsInit ==
    /\ dialect \in Dialects
    /\ schema = {}
    /\ recorded = {}
    /\ phase = [s \in Starters |-> "idle"]
    /\ todo = [s \in Starters |-> {}]
    /\ position = [s \in Starters |-> 0]

Enter(s, label) == phase' = [phase EXCEPT ![s] = label]

\* The version the loop is at.
Current(s) == CHOOSE v \in todo[s] : \A w \in todo[s] : v <= w

AtVersion(s) == phase[s] = "running" /\ todo[s] # {}

NextStatement(s) == Script[Current(s)][position[s] + 1]

\* SQLite: execute_script is at a statement of the version.
AtStatement(s) ==
    /\ dialect = "sqlite"
    /\ AtVersion(s)
    /\ position[s] < Len(Script[Current(s)])

-----------------------------------------------------------------------------

\* CREATE TABLE IF NOT EXISTS schema_migrations looks for the table...
LookForHistory(s) ==
    /\ phase[s] = "idle"
    /\ Enter(s, IF "schema_migrations" \in schema THEN "reading" ELSE "creating")
    /\ UNCHANGED <<dialect, schema, recorded, todo, position>>

\* ... and creates it. PostgreSQL holds nothing between the two, so that the
\* second of two creators breaks a unique index of its catalog.
CreateHistory(s) ==
    /\ phase[s] = "creating"
    /\ schema' = schema \cup {"schema_migrations"}
    /\ Enter(s, IF dialect = "postgresql" /\ "schema_migrations" \in schema
                THEN "raised" ELSE "reading")
    /\ UNCHANGED <<dialect, recorded, todo, position>>

\* Mutation: versions counted from zero.
ReadAppliedFromZero(s) ==
    /\ phase[s] = "reading"
    /\ todo' = [todo EXCEPT ![s] = (0 .. Len(Script)) \ recorded]
    /\ Enter(s, "running")
    /\ UNCHANGED <<dialect, schema, recorded, position>>

\* Mutation: a start leaves the work to another that is under way.
ReadAppliedPolitely(s) ==
    /\ phase[s] = "reading"
    /\ todo' = [todo EXCEPT ![s] =
           IF \E t \in Starters \ {s} : phase[t] \in {"creating", "reading", "running"}
           THEN {} ELSE Versions \ recorded]
    /\ Enter(s, "running")
    /\ UNCHANGED <<dialect, schema, recorded, position>>

\* SELECT version: what is applied is read once, before the loop.
ReadApplied(s) ==
    /\ phase[s] = "reading"
    /\ todo' = [todo EXCEPT ![s] = Versions \ recorded]
    /\ Enter(s, "running")
    /\ UNCHANGED <<dialect, schema, recorded, position>>

\* One statement of execute_script, committed on its own.
RunStatement(s) ==
    /\ AtStatement(s)
    /\ NextStatement(s) \notin Columns \cap schema
    /\ schema' = schema \cup {NextStatement(s)}
    /\ position' = [position EXCEPT ![s] = @ + 1]
    /\ UNCHANGED <<dialect, recorded, phase, todo>>

\* ALTER TABLE meets the column.
DuplicateColumn(s) ==
    /\ AtStatement(s)
    /\ NextStatement(s) \in Columns \cap schema
    /\ Enter(s, "raised")
    /\ UNCHANGED <<dialect, schema, recorded, todo, position>>

\* Mutation: the statements are not counted from the start for each version.
RecordedWithoutReset(s) ==
    IF Current(s) \in recorded
    THEN Enter(s, "raised") /\ UNCHANGED <<recorded, todo, position>>
    ELSE /\ recorded' = recorded \cup {Current(s)}
         /\ todo' = [todo EXCEPT ![s] = @ \ {Current(s)}]
         /\ UNCHANGED <<phase, position>>

\* The INSERT of the version: it commits, or meets the primary key.
Recorded(s) ==
    IF Current(s) \in recorded
    THEN Enter(s, "raised") /\ UNCHANGED <<recorded, todo, position>>
    ELSE /\ recorded' = recorded \cup {Current(s)}
         /\ todo' = [todo EXCEPT ![s] = @ \ {Current(s)}]
         /\ position' = [position EXCEPT ![s] = 0]
         /\ UNCHANGED phase

RecordVersion(s) ==
    /\ dialect = "sqlite"
    /\ AtVersion(s)
    /\ position[s] = Len(Script[Current(s)])
    /\ Recorded(s)
    /\ UNCHANGED <<dialect, schema>>

\* Mutation: PostgreSQL commits the version's DDL although the transaction
\* does not reach its INSERT.
MigrateInParts(s) ==
    /\ dialect = "postgresql"
    /\ AtVersion(s)
    /\ schema' = schema \cup Created(Current(s))
    /\ \/ Recorded(s)
       \/ Enter(s, "dead") /\ UNCHANGED <<recorded, todo, position>>
    /\ UNCHANGED dialect

\* PostgreSQL: the version is one transaction. A start that meets another's
\* work (a table it waits for, a column, the primary key) rolls back.
MigrateVersion(s) ==
    /\ dialect = "postgresql"
    /\ AtVersion(s)
    /\ schema' = schema \cup (IF Current(s) \in recorded THEN {} ELSE Created(Current(s)))
    /\ Recorded(s)
    /\ UNCHANGED dialect

\* The loop is over: apply_migrations returns.
Finish(s) ==
    /\ phase[s] = "running" /\ todo[s] = {}
    /\ Enter(s, "done")
    /\ UNCHANGED <<dialect, schema, recorded, todo, position>>

\* The process dies, or its connection fails: what has been committed stays.
Die(s) ==
    /\ phase[s] \in {"creating", "reading", "running"}
    /\ Enter(s, "dead")
    /\ UNCHANGED <<dialect, schema, recorded, todo, position>>

-----------------------------------------------------------------------------

ApplyStep(s) ==
    \/ LookForHistory(s) \/ CreateHistory(s) \/ ReadApplied(s)
    \/ RunStatement(s) \/ DuplicateColumn(s) \/ RecordVersion(s)
    \/ MigrateVersion(s) \/ Finish(s)

MigrationsNext == \E s \in Starters : ApplyStep(s) \/ Die(s)

MigrationsSpec == MigrationsInit /\ [][MigrationsNext]_migrationVars

\* A start that has begun runs on, unless it dies.
FairMigrationsSpec ==
    MigrationsSpec
    /\ \A s \in Starters : WF_migrationVars(phase[s] # "idle" /\ ApplyStep(s))

-----------------------------------------------------------------------------

\* schema_migrations tells the truth whatever starts race or die: the
\* recorded versions are the first ones, everything they create exists, and a
\* worker whose apply_migrations has returned works on the complete schema.
HistoryIsTrue ==
    /\ \A v \in recorded : 1 .. v \subseteq recorded /\ Created(v) \subseteq schema
    /\ \A s \in Starters : phase[s] = "done" => recorded = Versions

\* A version that is not recorded can no longer be run, as a column of it is
\* there already.
Blocked(v) == v \notin recorded /\ Created(v) \cap Columns \cap schema # {}

\* A start between the first statement of version v and its record.
Inside(s, v) == todo[s] # {} /\ Current(s) = v /\ position[s] > 0

\* Only a start on SQLite that is inside a version, or died there, keeps the
\* others from running it. On PostgreSQL nothing does.
OnlyTornScriptsBlock ==
    \A v \in Versions : Blocked(v) =>
        /\ dialect = "sqlite"
        /\ \E s \in Starters : Inside(s, v) /\ phase[s] \in {"running", "dead"}

\* Of starts that race on a new database one at least completes it, unless
\* one of them dies: no two of them make each other raise.
RaceIsWon ==
    \A s \in Starters :
        phase[s] = "creating" ~>
            recorded = Versions \/ \E t \in Starters : phase[t] = "dead"
=============================================================================
