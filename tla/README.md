# Verification of the production data platform

TLA+ models of the platform's own logic, checked with TLC on small instances
and, where a property should hold for every instance, proved with TLAPS. Paths
are relative to the repository; `data_platform/` stands for
`src/data_platform/`.

## The system

A batch of orders (CSV) arrives as a file or an S3 object. A worker computes its
SHA-256, claims the content in `file_manifest`, takes an expiring lock in
`pipeline_locks`, validates the rows, loads the warehouse tables in one
transaction, records the run in `pipeline_runs`, announces it to OpenLineage and
settles the manifest row. Backfills and Airflow call the same entry point;
monitoring reads the tables. Workers share nothing but the database: SQLite, or
PostgreSQL at READ COMMITTED.

| Component | Code | State | Operations | Hard because | Correct when |
| --- | --- | --- | --- | --- | --- |
| Pipeline lock | `locking.py` | `pipeline_locks` | `acquire_lock`, `release_lock` | lease, clock read before the transaction, clocks of different machines, dead and late holders | one live holder per name; only expiry or the owner removes a row; the lock comes back |
| Landing zone | `landing.py` | `file_manifest` | `claim_file`, `finish_file`, `process_source_file` | claims race, workers die between claim and finish, the outcome may be replaced on the way out | one claimant per content, loaded once, every claim settled |
| Warehouse pipeline | `pipeline.py`, `quality.py`, SQL | staging, dimension, facts, quarantine, quality results, `pipeline_runs` | `run_pipeline`, `read_and_validate`, `load_staging`, `transform_warehouse` | files late, repeated, with tied versions; a failure at any statement | incremental equals bulk, marts mirror staging, nothing lost or kept of a failed run |
| Database adapter | `database.py` | connection | `connect`, `transaction` | two databases, two transaction behaviours | all or nothing |
| Lineage emitter | `lineage.py` | none | `emit_run_event` | delivery fails, strict mode raises | events agree with the tables |
| Migrations | `migrations.py` | `schema_migrations` | `apply_migrations` | concurrent first starts, SQLite's DDL outside the transaction | the history is true, only torn scripts block, racing starts complete the schema |
| Backfill | `backfill.py` | attempts, results | `run_backfill` | retries over claims and locks of others | batches name the run that loaded their file, the summary is true, the loop ends |
| Spark pipeline | `spark_pipeline.py` | Parquet datasets, shared tables | `run_spark_pipeline`, `process_spark_source_file` | files and database are not one transaction; a manifest shared with the warehouse, a lock of its own | the two engines are one landing zone; the lake agrees with the audit tables |
| Monitoring, Airflow tasks | `monitoring.py`, `orchestration.py`, `dags/orders_daily.py` | none | snapshot, `evaluate_scheduled_run`, the two tasks | reads at different moments, rounding, limits, retries after a worker's death | the gate passes only what is loaded and on target, and fails only for a cause |
| Health, dashboards, object store, ECS runtime, command line, logging | the rest of `data_platform/` | none | | | not modelled: input, output and presentation |
| Infrastructure | `infrastructure/`, workflows, Dockerfiles | none | | | not modelled: declarative configuration |

## The modules

| Module | What it is |
| --- | --- |
| `PipelineLock` | the lock: one action per transaction, the clock, crashes |
| `FileLedger` | what the landing zone promises for a file content: open, claimed, settled, applied at most once |
| `Landing` | `process_source_file` around `run_pipeline`; extends `PipelineLock`, whose actions its own are conjoined with; implements `FileLedger` |
| `Warehouse` | what a run does to the tables |
| `Migrations` | `apply_migrations` by concurrent and dying starts |
| `SparkLake` | the Spark path beside the warehouse path; extends `Landing`, and implements it |
| `Monitoring` | what the snapshot and the gate conclude from the rows they read |
| `Operations` | backfill and Airflow as callers of `Landing`; extends `Landing` and `Monitoring` |
| `MCPipelineLock`, `MCLanding`, `MCWarehouse`, `MCMigrations`, `MCSparkLake`, `MCOperations` | values of the constants for TLC |
| `PipelineLockProofs`, `LandingProofs`, `LedgerProofs`, `WarehouseProofs`, `BulkProofs`, `MigrationsProofs`, `SparkProofs`, `OperationsProofs` | the theorems |

**PipelineLock.** `locks` is the table, a set of rows: the primary key on
`lock_name` is the guard `~Taken` of `AcquireLock`. `stamp[r]` is the local
variable `now` of `acquire_lock`, read in `ReadClock` before the transaction of
`AcquireLock` or `LockOut`; other callers and the clock move between the two.
Every exception in that transaction becomes `PipelineLockedError`, so `LockOut`
covers a database error as well. `lockPhase` is where the caller is;
`"leaked"` means its release raised, `"crashed"` that it died, and in both cases
its row stays. `now` is true time; a worker's clock may differ from it by `Skew`
at each reading, either way, and a lease has `Lapsed` when the fastest clock says
so.

**Landing.** A member of `Runs` is one invocation of `process_source_file`; a
retry is another member. `pc` is its place in the code:

| `pc` | in the code |
| --- | --- |
| `idle`, `reclaiming` | before `claim_file`; between its SELECT and its UPDATE (PostgreSQL only) |
| `claimed`, `starting`, `locking` | `run_pipeline` before START, before `acquire_lock`, in it |
| `validating`, `loading`, `recording`, `announcing` | in the `try`: reading, the main transaction, the failed run row, FAIL |
| `loaded`, `unwinding`, `interrupted` | about to run `finally` after success, an `Exception`, a `BaseException` |
| `committed`, `finishing`, `failing` | before COMPLETE; before `finish_file(succeeded)`; before `finish_file(failed)` |
| `skipped`, `rejected`, `done`, `raised`, `stranded`, `crashed` | ended: returned, refused, or with the row left `processing` |

Every transaction is one action. On SQLite the INSERT of `claim_file` takes the
write lock, so the claim of a failed row is one action; on PostgreSQL it is two
(`ClaimFailed`, `Reclaim`), as nothing holds the row between SELECT and UPDATE.
`Faults` names what may go wrong: `"db"` any database call raises, `"data"` the
load is refused, `"lineage"` the client raises, having delivered the event or
not, `"interrupt"` a `BaseException` inside the lock, `"crash"` the process
dies. The file's rows are abstracted to whether reading raises (`BadFiles`).
The lineage client is taken to be configured; without one no event is sent and
the properties about events say nothing.

**Warehouse.** One action per outcome of a run: loaded, failed at the header
(a missing column), at a line, or in the main transaction, over every file of at most
`MaxRows` rows. A row keeps its key, customer, order time, version and what
becomes of it: loaded, quarantined, unreadable (`validate_row` raises something
else than `ValueError`), unstorable (the database refuses it), unprintable
(`json.dumps` refuses it). An unstorable row fails its file only if it is
accepted: one that a newer row supersedes is not sent to the database. Any statement
may also fail for the database's own reasons. `error` in a run row stands for
`error_message`: it tells what raised. Status and amount follow the version: they
are copied with it in every statement. The surrogate key of a customer is the customer.
`Accepted` says which line wins, `AcceptedByLoop` computes it as the code does;
`LoopKeepsFirstNewest` compares them. Timestamps are numbers: SQLite compares
their ISO text, which orders the UTC values the code stores in the same way.

**Migrations.** A member of `Starters` is one `apply_migrations`; a restart is
another member. On PostgreSQL a version is one action (`MigrateVersion`). On
SQLite sqlite3 opens no transaction before DDL: each statement of a script
commits on its own (`RunStatement`) and only the INSERT of the version is
guarded by the primary key (`RecordVersion`). The versions found missing
(`todo`) are read once, before the loop. `Script` lists what each version
creates, statement by statement; columns come by `ALTER TABLE`, which refuses to repeat.

**SparkLake.** A run of `SparkRuns` takes the steps of `Landing` except its load
(`LandingStep` leaves the warehouse alone). Instead it runs one job per dataset
(`WriteDataset`) and then commits quality results and run row (`AuditCommit`).
`lake` says whose rows each date's partition holds: dynamic overwrite leaves a
partition alone for which a job has no rows. The counts a job depends on are
computed from the file's lines as the DataFrame transformations do.

**Monitoring and Operations.** `Monitoring` has no state: it translates the rate,
the alerts, the status and the gate's answer as operators on rows read before.
Python rounds the binary quotient to two places, so that of a tie either neighbour may
come: `SuccessRates` is the set of what the rate may be.
`Operations` adds who calls. An attempt `<<caller, date, n>>` is an invocation of
`Landing`, and all its steps and faults are taken as they are. `at`, `attempt`
and `results` are the loop variables of `run_backfill`; for Airflow `at` and
`attempt` are the DAG run and the try of its task. `Errors` says whether what a
call raised is retryable, as far as its end tells. `answer` is the run id a call
returned: its own, or what the claim has read in the manifest; the backfill and the
gate hold on to it and do not read the manifest again. Two dates may have the same
bytes, as `tests/test_landing.py:20` has two files. `history` is `pipeline_runs`
in the order of completion, and the gate reads it (`GateReadsRuns`) before it
reads the manifest (`GateReadsFiles`): the two queries of a snapshot are in no
transaction.

## What is checked

| Run | Instance | Shows |
| --- | --- | --- |
| `lock_lease` | 3 callers, 2 locks, lease 2, time to 5, clocks off by 1, crashes and database errors, fair | `LiveHolderHasRow`, `OverlapOnlyAfterExpiry`, `RowsLeaveByExpiryOrOwner`, `CallerEventuallyHolds` |
| `landing_faults` | SQLite, strict lineage, 3 invocations, 2 of one file, every fault, lease 1, clock to 2 | exclusive claims, true manifest rows and events, a second load only after a raise, loads under the lease, `succeeded` is final |
| `landing_ledger` | SQLite, lineage not strict, no database errors; crashes, interrupts, failed loads, lost events | `ImplementsLedger`: the refinement of `FileLedger`; loaded at most once |
| `landing_live` | PostgreSQL, strict lineage, failed loads, lost events, one unreadable file, fair | every invocation ends, every claim is settled, although claims may be shared |
| `warehouse` | 3 runs of files of up to 2 of 8 rows: 2 orders, 2 customers, ties, moves, four kinds of bad line, missing columns, failing statements | `IncrementalEqualsBulk`, `FactsMirrorStaging`, `DimensionCoversFacts`, `LinesAccountedFor`, `ReplayChangesNothing`, `ChecksRejectNoBatch` |
| `migrations` | 3 starts on a new database, any of which may die, both databases, fair | `HistoryIsTrue`; `OnlyTornScriptsBlock`; of racing starts one completes (`RaceIsWon`) |
| `spark_lake` | 2 Spark runs of two files of one date, a warehouse run of one of them, SQLite; crashes, database errors, failing jobs; lease 1, time to 2 | `ImplementsLanding`, `SucceededRowIsStored`, `SettledContentIsLeftAlone`; `AuditMatchesLake` and `PartitionsExplained` say where files and tables may part |
| `operations` | a backfill of 2 dates beside the DAG run of the first, 2 attempts each, one partition that may be missing, SQLite; failing loads, crashes; lease 1, time to 1; fair | `BatchNamesItsRun`, `SummaryIsTrue`, `PassedGateIsJustified`, `FailedGateHasCause`; both callers end |

Four runs expect a violation. Each checks one sentence of the documentation that
the code does not keep:

| Run | The sentence | What happens |
| --- | --- | --- |
| `double_claim` | "concurrent workers cannot duplicate work" (`docs/architecture.md:186`) | on PostgreSQL two retries of a failed file both claim it |
| `silent_start` | one START and one terminal event for every execution (`docs/architecture.md:190`) | a locked-out run announces START and no more |
| `second_load` | claims "prevent duplicate content from being processed twice" (`README.md:31`) | strict lineage loses COMPLETE after the commit, the file is failed, and loaded again |
| `stuck_claim` | failed objects stay retryable (`docs/ecs-deployment.md:134`) | a worker that dies leaves `processing` for ever |

What these cost is bounded by the other properties: on SQLite a second load
happens only after an invocation raised (`SecondLoadNeedsRaise`; on PostgreSQL
also after a double claim), and it changes neither
staging nor the marts (`ReplayChangesNothing`); rows and events stay true on
PostgreSQL too: `SucceededRowTold` and `LineageTellsTheTruth` are proved for both.

One more remark belongs here. `docs/architecture.md:33` says that invalid
amounts, identifiers and timestamps are quarantined. `validate_row` catches
`ValueError` only (`pipeline.py:72`), so a line with too few fields, an amount
`nan` and a bad line with surplus fields fail the batch of all the others.
So does a missing column (`pipeline.py:109`), and a statement the database refuses
fails its run like any other. What never fails a batch is the reconciliation:
`ChecksRejectNoBatch`.

### Bounds

`Runs`, `Files`, `TTL`, `Skew`, `MaxTime` of the first two modules, `Rows`,
`MaxRows` and `MaxRuns` of the third. Two callers of one lock make every race on it; the
third asks for another lock, whose expired rows the first two also delete, and
in `Landing` works on another file. Time for two leases lets a
holder outlive its lease and its successor's begin. `LeftRowExpires` is a bound
too: a holder dies, or its release fails, only while the bounded clock can still
pass the expiry of the row it leaves behind. In `Warehouse` a tie, a
move or a replay needs two rows or two files; three files put one between a file
and its replay. `o1` moves from `c2` to `c1` with a newer version, and both customers
have a row with its first version; its unstorable row may win or be superseded.

In `Migrations` two starts race and a third comes after; a torn script needs one
that dies and one that finds what it left. `SparkLake` needs two Spark runs on one
date, of which one file has no rejected rows, for partitions to part, and the
warehouse run on the first file for the shared manifest; all share `d1`, as other
dates are other partitions. One of the files having no rejected rows, the instance
does not need the exception `PartitionsExplained` makes for late runs; the proof does. In
`Operations` two attempts make a first, a last and
a retry after a death; the two callers meet on the file of date 1, and
`RecentLimit = 1` is small enough for a run to fall off the gate's list; the target
of 66.67 % is what two successes in three round up to; date 2 is the one whose
partition may be missing. The dates have different files there; `OperationsProofs` does
not assume it. `Skew` is 0 outside
`lock_lease`: the proofs cover it. No symmetry is used.

`CHECK_DEADLOCK FALSE` throughout: an invocation ends, the clock and the number
of runs are bounded, and the system may rest.

### Fairness

`FairLandingSpec` and `FairLockSpec` assume that a started invocation takes its
next step (a process is scheduled, a `finally` clause runs) and, for the lock,
that time passes, that a locked-out caller calls again, as backfill and Airflow
do, and that the database does not refuse each of endlessly many attempts (the
strong fairness of `AcquireLock`). Starting an invocation is never assumed; nor
is any fault or its absence except through `Faults`. `landing_live` has no
`"crash"` because with it `ClaimIsSettled` is false: that is `stuck_claim`.
`FairMigrationsSpec` lets a start that has begun run on unless it dies.
`FairOpsSpec` lets both callers take their next step, which may be one that fails;
how calls end is not assumed. A backfill whose process dies stops, which
`CallersEnd` allows; Airflow notices the death of a worker and goes on.

## What is proved

For any callers, files, lock names, lease, skew, faults and either database,
unless noted. The theorems rest on the `ASSUME` of each module, which type its
constants; that of `Operations` also says that an attempt is an invocation, that
the attempts at one date are for one file (two dates may be for the same), and that
interrupts count as crashes;
that of `SparkLake`, that all Spark runs ask for one lock (`spark_pipeline.py:208`).

*Lock* (`PipelineLockProofs`). The inductive invariant `LockInv` is the typing,
`LiveHolderHasRow`, one row per name, and `StampsNotAhead`: no stamp is ahead of
time by more than `Skew`, so what a caller's DELETE removes has lapsed.
Without it `LiveHolderHasRow` is not inductive. From the invariant follow
`LiveHolderKeepsRow`, `LockMutualExclusion` and `OnlyOwnerFreesLiveRow`.

*Landing* (`LandingProofs`). Each action of `Landing` takes one lock action or
leaves the lock alone (`LandingUsesLock`), so the lock's theorems carry over
(`LandingMutualExclusion`). The inductive invariant `LandingInv` has a
local part, `RunStates` (what `pc` says of the run's row, its load, its events
and its lock phase) and `SucceededRowIsTrue`. `RunStates` is what makes the
other inductive: that a run at `finishing` has committed is known only from its
`pc`. It gives `SucceededRowTold`, `LineageTellsTheTruth`, `LoadsAreLeased`.

`LateInv` says when two runs can be inside one lock by what callers did, not by
what the clocks might say. A run is `Late` when somebody has called `acquire_lock`
with a stamp past the end of its lease: only such a call deletes its row.
`Lapsed` needs no such call, only time. By `LateInv` whoever holds the lock has
its row or is late; it also says that nobody has a stamp before its call, so that
no stamp is overwritten and who is late stays late. By `OverlapNeedsLateCall`, of
two runs in their sections under one lock name one is late: a lease that has
merely run out lets nobody in.

On SQLite `SqliteInv` adds three facts: whoever is past the claim is the
only one and the row says `processing` (`ClaimBinds`); a loaded file whose
invocation has not raised is settled or still claimed (`DoneSettles`); nobody is
between the SELECT and the UPDATE (`NobodyReclaims`). It gives `ClaimIsExclusive`,
`SecondLoadIsReported`, `SucceededStaysFinal`. On PostgreSQL they fail: that is
`double_claim`.

*Ledger* (`LedgerProofs`). Under `NoLateFaults` (SQLite, no database errors, no
lost strict event) nobody raises after a commit, so a failed file has left
nothing (`FailedLeftNothing`), is loaded once (`LoadedOnce`), and every step of
`Landing` is a step of `FileLedger` or a stutter (`LandingImplementsLedger`).
`second_load` shows that the assumption is needed.

*Warehouse* (`WarehouseProofs`). `WarehouseInv` has the typing, the three table
invariants and `RunsAccountForLines`, the line count in an inductive form. For
`ReplayChangesNothing` it needs `StagingAbsorbs`: every row a succeeded run has
accepted is at most as new as the staged row of its order. Without it nothing is
known of a file when it is loaded again after others. The first and last order
times are minima and maxima of sets of numbers, which exist because the subset
order of finite sets is well founded (`MinimumExists`). `LoadReconciles` is why
the checks never refuse a batch (`ChecksRejectNoLoad`): the fact table has the orders
of staging, whatever loads and failures came before.

*The loop over lines* (`BulkProofs`). `AcceptedByLoop` is a recursive function, and
the library's induction takes an operator. `NatBySteps` is induction for a set
instead: a set of numbers that lacks a number lacks a least one, by
`MinimumExists`. With it the loop is shown to exist (`LoopExists`), to turn as
written (`LoopTurns`), and to accept the line that `Accepted` defines, for every
file (`LoopAcceptsWinners`). Two loops in a row are one over both files
(`LoopOfConcat`), so merging file after file leaves what one load of all lines
would (`IncrementalIsBulk`). `StagingHoldsTheNewest` draws the conclusion: a staged
row has the newest version any committed run has accepted of its order, whatever
the order in which the files came.

*Migrations* (`MigrationsProofs`). `MigrationsInv` adds to the types that records
are true (`RecordedTruly`), that what a start will not run is recorded
(`TodoTrue`), that what it has run exists (`PlaceTrue`), and `ColumnsOwned`: at
most one start is inside version 3, and a column without its record is that
start's work. The last is what blocking rests on.

*Spark* (`SparkProofs`). `SparkImplementsLanding` maps the warehouse of `Landing`
to `Stored`, the runs of either engine whose rows are in its store: a job that
writes Parquet is a stutter, `AuditCommit` is the commit of a load. With it the
proofs of `Landing` and of the ledger are used as they are, by `INSTANCE
LedgerProofs WITH warehouse <- Stored`: under `NoLateFaults` the two engines
together implement `FileLedger` (`EnginesImplementLedger`), and a content is stored
by one run of one of them (`OneEngineLoadsAFile`). Spark's own are
`SucceededRowsAreStored` and, on SQLite, `SettledLeftAlone`.

`PartitionsAreExplained` and `AuditedRunsAreInTheLake` rest on `LakeInv`: a
partition that is not empty holds what a run of its date wrote (`FullPartition`)
and never becomes empty again (`PartitionStays`), and what a run has written is
replaced before its audit only if it or the run whose rows are there is late
(`ReplacedLate`). The last is inductive because the run that replaces is in the
section too, so by `LateInv` one of the two is late, and late for ever.
`TransformKeepsOneRowPerOrder` is about the transformations: in every file an order
with a valid line has one accepted row, none of its lines outranks it, the
uniqueness check never refuses it, and the counts add up.

*Operations* (`OperationsProofs`), on SQLite. The calls keep `CallInv`, that is
`SqliteInv` of the landing zone and `EndsTrue` (how calls end agrees with the
manifest). `AnswerTrue` says that what a call has returned is still what the
manifest says, however late its caller uses it. `HistoryTrue` says that the
history is the run rows, `ResultsTrue` that there is one entry per date that is
over and one `succeeded` for each call that loaded, `GateTrue` that what the gate
has read is still so and holds the run it asks about. From these follow the three
invariants and, by `EvaluateCause`, `GateFailuresHaveCause`: when the gate turns a
loaded partition down, some other run in what it read has failed, another date's
file has, or so many runs came after its own that the list no longer has it.
`PassedGatesAreJustified` rests on `RateMeetsTarget`: a rate rounded to two places
that meets the target was short of it by half a hundredth of a percent at most.

Every safety and action property of the passing runs is proved. Only
model-checked is liveness (`CallerEventuallyHolds`, `InvocationEnds`,
`ClaimIsSettled`, `RaceIsWon`, `CallersEnd`): it needs ENABLED, which TLAPS does not
reason about. Neither checked nor proved is `Operations` on PostgreSQL, where two
callers may share a claim and the manifest row no longer tells what a call
returns.

## Not modelled

`PROJECT.json` gives every component with its reason. Health report, dashboards,
object store, ECS runtime and command line keep no state; they read the tables or
call what is modelled. The command line calls `run_pipeline` without a claim,
which `Warehouse` allows.

Two hazards have no property. A COMMIT on PostgreSQL whose answer is lost
(`database.py:73`) is taken to have failed. A local file replaced between
`identify_file` and its reading (`landing.py:141`) would be loaded under the
checksum of its old content; the models give a file its content for good.

Within the modelled parts: the text of errors, metrics and events, the contents
of `data_quality_results`, the sums, trends and durations of the snapshot, what
Spark does inside a job (a job that dies half way through its files counts as not
having replaced the partition), and the columns of the manifest other than status
and run.

## Plan

Done: all modules above with their proofs. Left, in this order:

1. The ambiguous COMMIT as a further fault of `LoadRollback` and `RecordFailure`
   on PostgreSQL, with the properties it refutes.
2. `Operations` on PostgreSQL: which of its properties survive a shared claim.
3. On PostgreSQL, a bound on the loads of one content by the number of claims of
   its failed row.
4. The health report's three reads against a run that is being settled.
