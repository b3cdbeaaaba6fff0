------------------------------ MODULE SparkLake ------------------------------
(***************************************************************************)
(* process_spark_source_file and run_spark_pipeline                        *)
(* (data_platform/spark_pipeline.py) next to the warehouse pipeline.       *)
(*                                                                         *)
(* The Spark path claims files in the same file_manifest, under a lock of  *)
(* its own, and differs from Landing in what it loads: two Parquet         *)
(* datasets, each overwritten by a job of its own, and only then the run   *)
(* row, in a transaction. All its other steps are Landing's.               *)
(***************************************************************************)
EXTENDS Landing, Sequences, FiniteSets

CONSTANTS
    SparkRuns,     \* the invocations of process_spark_source_file
    Dates,
    DateOf,        \* the batch_date each invocation was given
    Lines          \* the lines of each file, see LineType

\* digest is the tie-breaker: the sha2 over the columns of the row.
LineType == [order : Nat, ver : Nat, digest : Nat, valid : BOOLEAN]

ASSUME SparkAssumption ==
    /\ SparkRuns \subseteq Runs
    /\ DateOf \in [Runs -> Dates]
    /\ Lines \in [Files -> Seq(LineType)]
    \* lock_name="spark_orders_pipeline", whatever the file and the date
    /\ \A r, s \in SparkRuns : LockNameOf[r] = LockNameOf[s]

VARIABLES
    lake,          \* the run whose rows each partition of each dataset holds
    written        \* the datasets each run has written

lakeVars == <<lake, written>>
sparkVars == <<vars, lakeVars>>

Datasets == <<"accepted_orders", "quarantined_orders">>
DatasetNames == {"accepted_orders", "quarantined_orders"}

SparkTypeOK ==
    /\ LandingTypeOK
    /\ lake \in [DatasetNames -> [Dates -> Runs \cup {NoRun}]]
    /\ written \in [Runs -> 0 .. 2]

SparkInit ==
    /\ LandingInit
    /\ lake = [ds \in DatasetNames |-> [d \in Dates |-> NoRun]]
    /\ written = [r \in Runs |-> 0]

-----------------------------------------------------------------------------
(* transform_orders *)

Valid(f) == {i \in DOMAIN Lines[f] : Lines[f][i].valid}

Quarantined(f) == DOMAIN Lines[f] \ Valid(f)

\* The order of the window: newest version, then greatest digest.
RankedAbove(p, q) ==
    p.ver > q.ver \/ (p.ver = q.ver /\ p.digest > q.digest)

\* row_number() = 1 in the window of each order_id; of equal rows, one.
Accepted(f) ==
    {Lines[f][i] : i \in
        {i \in Valid(f) : \A j \in Valid(f) :
            Lines[f][j].order = Lines[f][i].order
                => ~RankedAbove(Lines[f][j], Lines[f][i])}}

Metrics(f) ==
    [input |-> Len(Lines[f]),
     accepted |-> Cardinality(Accepted(f)),
     quarantined |-> Cardinality(Quarantined(f)),
     deduplicated |-> Cardinality(Valid(f)) - Cardinality(Accepted(f))]

\* spark_quality_results: order_id is unique among the accepted rows; the
\* other three checks repeat what validation has established.
QualityHolds(f) == \A p, q \in Accepted(f) : p.order = q.order => p = q

RowCount(ds, f) ==
    IF ds = "accepted_orders" THEN Metrics(f).accepted ELSE Metrics(f).quarantined

-----------------------------------------------------------------------------
(* run_spark_pipeline *)

\* Mutation: the quarantined rows are written first.
WriteQuarantinedFirst(r) ==
    /\ pc[r] = "loading" /\ written[r] < 2
    /\ QualityHolds(FileOf[r])
    /\ LET ds == Datasets[2 - written[r]]
       IN  lake' = IF RowCount(ds, FileOf[r]) = 0 THEN lake
                   ELSE [lake EXCEPT ![ds][DateOf[r]] = r]
    /\ written' = [written EXCEPT ![r] = @ + 1]
    /\ UNCHANGED vars

\* One Parquet job. Dynamic overwrite replaces the partitions that the new
\* rows name: a job without rows leaves the old partition where it is. A
\* failed quality check leaves the run to LoadRollback.
WriteDataset(r) ==
    /\ pc[r] = "loading" /\ written[r] < 2
    /\ QualityHolds(FileOf[r])
    /\ LET ds == Datasets[written[r] + 1]
       IN  lake' = IF RowCount(ds, FileOf[r]) = 0 THEN lake
                   ELSE [lake EXCEPT ![ds][DateOf[r]] = r]
    /\ written' = [written EXCEPT ![r] = @ + 1]
    /\ UNCHANGED vars

\* Mutation: the audit comes before the second dataset.
AuditEarly(r) ==
    /\ pc[r] = "loading" /\ written[r] >= 1
    /\ runRow' = [runRow EXCEPT ![r] = "succeeded"]
    /\ Goto(r, "loaded")
    /\ UNCHANGED <<manifest, warehouse, events, lockVars, lakeVars>>

\* The quality results and the succeeded run row, in one transaction.
AuditCommit(r) ==
    /\ pc[r] = "loading" /\ written[r] = 2
    /\ runRow' = [runRow EXCEPT ![r] = "succeeded"]
    /\ Goto(r, "loaded")
    /\ UNCHANGED <<manifest, warehouse, events, lockVars, lakeVars>>

\* Mutation: the Spark path has a manifest of its own.
LandingStepUnclaimed(r) ==
    /\ UNCHANGED <<warehouse, lakeVars>>
    /\ \/ Step(r) \/ Fault(r)
       \/ /\ pc[r] = "idle" /\ Goto(r, "claimed")
          /\ UNCHANGED <<dataVars, lockVars>>

\* The steps and faults it shares with Landing: all but the load, which
\* changes the warehouse. LoadRollback here is a Spark job or the transaction
\* failing, with what is written left in place; ReleaseError is also
\* spark.stop raising before the lock is released.
LandingStep(r) ==
    /\ UNCHANGED <<warehouse, lakeVars>>
    /\ Step(r) \/ Fault(r)

SparkPipeline(r) ==
    LandingStep(r) \/ WriteDataset(r) \/ AuditCommit(r)

SparkNext ==
    \/ Clock /\ UNCHANGED lakeVars
    \/ \E r \in Runs \ SparkRuns : (Step(r) \/ Fault(r)) /\ UNCHANGED lakeVars
    \/ \E r \in SparkRuns : SparkPipeline(r)

SparkSpec == SparkInit /\ [][SparkNext]_sparkVars

-----------------------------------------------------------------------------

\* A succeeded manifest row names a run of that content whose rows are all in
\* its own engine's store: both Parquet jobs done, or the warehouse committed.
SucceededRowIsStored ==
    \A f \in Files : manifest[f].status = "succeeded" =>
        \E r \in Runs :
            /\ manifest[f].run = r /\ FileOf[r] = f /\ runRow[r] = "succeeded"
            /\ IF r \in SparkRuns THEN written[r] = 2 ELSE r \in warehouse

\* The runs whose rows are in their engine's store, as their run rows tell.
Stored == warehouse \cup {r \in SparkRuns : runRow[r] = "succeeded"}

AsLanding == INSTANCE Landing WITH warehouse <- Stored

\* Two engines on one manifest make one landing zone: with the store of either
\* in the place of the warehouse, every step is one that Landing allows, so
\* that what Landing promises of claims, run rows and events holds of both.
ImplementsLanding == AsLanding!LandingSpec

\* The dataset's partition of the run's date holds the run's rows, if any.
Holds(ds, r) ==
    lake[ds][DateOf[r]] = r \/ RowCount(ds, FileOf[r]) = 0

\* The run whose rows are in the dataset's partition of r's date has outlived
\* its lease.
LateIn(ds, r) ==
    lake[ds][DateOf[r]] # NoRun /\ Lapsed(lake[ds][DateOf[r]])

\* When a Spark run is recorded as succeeded, both partitions of its date hold
\* what it wrote, although nothing makes files and row one transaction: only
\* when it, or the run whose rows are there instead, has outlived its lease
\* may it be otherwise.
AuditMatchesLake ==
    [][\A r \in SparkRuns :
          runRow[r] # "succeeded" /\ runRow'[r] = "succeeded" =>
              \/ Lapsed(r)
              \/ \A ds \in DatasetNames : Holds(ds, r) \/ LateIn(ds, r)
      ]_sparkVars

\* The two partitions of a date come from different runs only if the run that
\* wrote one had no rows for the other (the rows of an older file then stay),
\* stopped between its two jobs, or overlapped with the other's late end.
PartitionsExplained ==
    \A d \in Dates :
        LET a == lake["accepted_orders"][d]
            q == lake["quarantined_orders"][d]
        IN  a # q =>
            \/ a # NoRun /\ (written[a] < 2 \/ Metrics(FileOf[a]).quarantined = 0)
            \/ q # NoRun /\ Metrics(FileOf[q]).accepted = 0
            \/ a # NoRun /\ q # NoRun /\ (Late(a) \/ Late(q))

\* The engines share one manifest: content that one of them has settled is
\* never again written by either, neither to the warehouse nor to the lake.
SettledContentIsLeftAlone ==
    [][\A f \in Files : manifest[f].status = "succeeded" =>
          /\ \A r \in warehouse' \ warehouse : FileOf[r] # f
          /\ \A r \in SparkRuns : written'[r] # written[r] => FileOf[r] # f
      ]_sparkVars
=============================================================================
