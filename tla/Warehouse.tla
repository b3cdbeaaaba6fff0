------------------------------ MODULE Warehouse ------------------------------
(***************************************************************************)
(* What one committed run does to the tables: read_and_validate,           *)
(* load_staging, transform_warehouse and the reconciliation checks of      *)
(* data_platform/pipeline.py, its SQL and data_platform/quality.py.        *)
(*                                                                         *)
(* A run is one action: the tables change in one transaction, and writers  *)
(* are serialised by the pipeline lock (Landing) and, on SQLite, by the    *)
(* database. A row is abstracted to its business key, its customer, its    *)
(* order time, its version (source_updated_at) and what validation and the *)
(* database make of it; status and amount follow the version.              *)
(***************************************************************************)
EXTENDS Integers, Sequences, FiniteSets
SX == INSTANCE SequencesExt

CONSTANTS
    Orders, Customers,
    Rows,          \* the rows a file may hold, see RowType
    None,          \* no row for a key
    MaxRows,       \* bound on the rows of a file
    MaxRuns        \* bound on the runs of a behaviour

\* What becomes of a row: loaded; quarantined; an exception other than
\* ValueError in validate_row (a line with too few fields); accepted by
\* validate_row and refused by the main transaction (amount "nan", which
\* SQLite stores as NULL); to be quarantined, but json.dumps cannot sort its
\* keys (an invalid line with surplus fields, which DictReader files under
\* the key None).
Kinds == {"valid", "invalid", "unreadable", "unstorable", "unprintable"}

RowType ==
    [order : Orders, customer : Customers, ts : Nat, ver : Nat, kind : Kinds]

\* first_order_at and last_order_at of a customer.
Lifespan == [first : Nat, last : Nat]

ASSUME WarehouseAssumption ==
    /\ IsFiniteSet(Orders)
    /\ Rows \subseteq RowType
    /\ None \notin RowType \cup Lifespan
    /\ MaxRows \in Nat
    /\ MaxRuns \in Nat

VARIABLES
    staging,       \* staging_orders, by order_id
    dim,           \* dim_customers, by customer_id
    facts,         \* fact_orders, by order_id; the surrogate key is the customer
    quarantine,    \* quarantined_orders: <<run, line>>
    runs           \* pipeline_runs in the order of completion, with its file

tables == <<staging, dim, facts, quarantine>>
warehouseVars == <<staging, dim, facts, quarantine, runs>>

Files == UNION {[1 .. n -> Rows] : n \in 0 .. MaxRows}

\* error_message, by what raised: the header, a line that cannot be read, a
\* statement of the main transaction, a reconciliation check.
Errors == {"none", "columns", "line", "statement", "check"}

\* A row of pipeline_runs, with the lines of its file.
RunRow == [file : Files, status : {"succeeded", "failed"}, error : Errors,
           input : Nat, accepted : Nat, quarantined : Nat, deduplicated : Nat]

WarehouseTypeOK ==
    /\ staging \in [Orders -> Rows \cup {None}]
    /\ dim \in [Customers -> Lifespan \cup {None}]
    /\ facts \in [Orders -> Rows \cup {None}]
    /\ quarantine \subseteq (1 .. MaxRuns) \X (1 .. MaxRows)
    /\ runs \in Seq(RunRow)

WarehouseInit ==
    /\ staging = [o \in Orders |-> None]
    /\ dim = [c \in Customers |-> None]
    /\ facts = [o \in Orders |-> None]
    /\ quarantine = {}
    /\ runs = <<>>

-----------------------------------------------------------------------------
(* read_and_validate *)

Has(file, kind) == \E i \in DOMAIN file : file[i].kind = kind

Lines(file, kind) == {i \in DOMAIN file : file[i].kind = kind}

\* Rows that validate_row returns as an Order.
Parsed(file) == Lines(file, "valid") \cup Lines(file, "unstorable")

\* Rows that read_and_validate puts aside with their errors.
Rejected(file) == Lines(file, "invalid") \cup Lines(file, "unprintable")

\* Line i carries a newer version of its order than line j, or is the first
\* of two lines with the same version.
Beats(file, i, j) ==
    \/ file[i].ver > file[j].ver
    \/ file[i].ver = file[j].ver /\ i < j

\* The accepted line of an order: the one that beats all others.
Winners(file, o) ==
    {i \in Parsed(file) :
        /\ file[i].order = o
        /\ \A j \in Parsed(file) :
               file[j].order = o /\ j # i => Beats(file, i, j)}

\* valid_by_order_id, when the file has been read.
Accepted(file) ==
    [o \in Orders |-> IF Winners(file, o) = {} THEN None
                      ELSE file[CHOOSE i \in Winners(file, o) : TRUE]]

Filled(table) == {k \in DOMAIN table : table[k] # None}

\* Some row makes a statement of the main transaction raise. Of the accepted
\* rows: a line that another beats is not sent to the database.
Unloadable(file) ==
    \/ \E o \in Filled(Accepted(file)) : Accepted(file)[o].kind = "unstorable"
    \/ Has(file, "unprintable")

\* Mutation: the loop keeps the last of two rows with one version.
KeepLast(kept, row) ==
    IF row.kind \in {"valid", "unstorable"}
       /\ (kept[row.order] = None \/ row.ver >= kept[row.order].ver)
    THEN [kept EXCEPT ![row.order] = row]
    ELSE kept

\* One turn of the loop over the file's rows.
KeepNewest(kept, row) ==
    IF row.kind \in {"valid", "unstorable"}
       /\ (kept[row.order] = None \/ row.ver > kept[row.order].ver)
    THEN [kept EXCEPT ![row.order] = row]
    ELSE kept

\* valid_by_order_id as the code computes it, row by row.
AcceptedByLoop(file) ==
    SX!FoldLeft(KeepNewest, [o \in Orders |-> None], file)

\* Mutation: duplicates counted from the accepted rows.
CountDuplicatesBackwards(file) ==
    Cardinality(Filled(Accepted(file))) - Cardinality(Parsed(file))

CountDuplicates(file) ==
    Cardinality(Parsed(file)) - Cardinality(Filled(Accepted(file)))

\* The row counts of a run: input_rows is computed from the other three.
Counts(file) ==
    LET accepted == Cardinality(Filled(Accepted(file)))
        quarantined == Cardinality(Rejected(file))
        deduplicated == CountDuplicates(file)
    IN  [input |-> accepted + quarantined + deduplicated,
         accepted |-> accepted,
         quarantined |-> quarantined,
         deduplicated |-> deduplicated]

-----------------------------------------------------------------------------
(* The main transaction *)

\* Mutation: an equal version overwrites.
StagedAgain(rows) ==
    [o \in Orders |->
        IF rows[o] # None /\ (staging[o] = None \/ rows[o].ver >= staging[o].ver)
        THEN rows[o] ELSE staging[o]]

\* load_staging: insert, or update when the version is strictly newer.
Staged(rows) ==
    [o \in Orders |->
        IF rows[o] # None /\ (staging[o] = None \/ rows[o].ver > staging[o].ver)
        THEN rows[o] ELSE staging[o]]

OrderTimes(st, c) == {st[o].ts : o \in {p \in Filled(st) : st[p].customer = c}}

Earliest(T) == CHOOSE t \in T : \A u \in T : t <= u
Latest(T) == CHOOSE t \in T : \A u \in T : u <= t

\* Mutation: a known customer's dates are left alone.
DimensionInserted(st) ==
    [c \in Customers |->
        LET T == OrderTimes(st, c)
        IN  IF T = {} \/ dim[c] # None THEN dim[c]
            ELSE [first |-> Earliest(T), last |-> Latest(T)]]

\* transform.sql: every customer of staging_orders, dates only widened.
Dimension(st) ==
    [c \in Customers |->
        LET seen == OrderTimes(st, c)
            T == IF dim[c] = None THEN seen
                 ELSE seen \cup {dim[c].first, dim[c].last}
        IN  IF seen = {} THEN dim[c]
            ELSE [first |-> Earliest(T), last |-> Latest(T)]]

\* Mutation: the update of a fact forgets customer_sk.
FactsKeepingCustomer(st, dm) ==
    [o \in Orders |->
        IF st[o] = None THEN facts[o]
        ELSE IF facts[o] = None THEN st[o]
        ELSE IF st[o].ver > facts[o].ver
             THEN [st[o] EXCEPT !.customer = facts[o].customer]
        ELSE facts[o]]

\* transform.sql: staging joined to the dimension, inserted, or updated when
\* the version is strictly newer.
Facts(st, dm) ==
    [o \in Orders |->
        IF /\ st[o] # None
           /\ dm[st[o].customer] # None
           /\ facts[o] = None \/ st[o].ver > facts[o].ver
        THEN st[o] ELSE facts[o]]

\* Mutation: the counts are compared before the facts are loaded.
ReconcilesEarly(st, dm, fa) ==
    Cardinality(Filled(st)) = Cardinality(Filled(facts))

\* reconciliation.sql and assert_quality: as many facts as staging rows, and
\* every fact's customer exists. (Status and amount were validated.)
Reconciles(st, dm, fa) ==
    /\ Cardinality(Filled(st)) = Cardinality(Filled(fa))
    /\ \A o \in Filled(fa) : dm[fa[o].customer] # None

-----------------------------------------------------------------------------
(* run_pipeline *)

StoreRun(file, status, error, counts) ==
    runs' = Append(runs,
                [file |-> file, status |-> status, error |-> error,
                 input |-> counts.input, accepted |-> counts.accepted,
                 quarantined |-> counts.quarantined,
                 deduplicated |-> counts.deduplicated])

NoCounts == [input |-> 0, accepted |-> 0, quarantined |-> 0, deduplicated |-> 0]

\* The main transaction commits.
LoadFile(file) ==
    LET st == Staged(Accepted(file))
        dm == Dimension(st)
        fa == Facts(st, dm)
    IN  /\ Len(runs) < MaxRuns
        /\ ~Has(file, "unreadable")
        /\ ~Unloadable(file)
        /\ Reconciles(st, dm, fa)
        /\ staging' = st
        /\ dim' = dm
        /\ facts' = fa
        /\ quarantine' =
               quarantine \cup {<<Len(runs) + 1, i>> : i \in Rejected(file)}
        /\ StoreRun(file, "succeeded", "none", Counts(file))

\* The header lacks a required column: read_and_validate raises before it reads
\* a line.
FailHeader ==
    /\ Len(runs) < MaxRuns
    /\ StoreRun(<<>>, "failed", "columns", NoCounts)
    /\ UNCHANGED tables

\* read_and_validate raises at a line: the failed row carries no counts.
FailReading(file) ==
    /\ Len(runs) < MaxRuns
    /\ Has(file, "unreadable")
    /\ StoreRun(file, "failed", "line", NoCounts)
    /\ UNCHANGED tables

\* A statement raises, as it must for an unloadable file and may for any when
\* the database fails, or else a check does: the transaction rolls back, and the
\* failed row carries the counts of what was read.
FailLoading(file) ==
    LET st == Staged(Accepted(file))
        dm == Dimension(st)
        refused == ~Unloadable(file) /\ ~Reconciles(st, dm, Facts(st, dm))
    IN  /\ Len(runs) < MaxRuns
        /\ ~Has(file, "unreadable")
        /\ \/ StoreRun(file, "failed", "statement", Counts(file))
           \/ refused /\ StoreRun(file, "failed", "check", Counts(file))
        /\ UNCHANGED tables

WarehouseNext ==
    \/ \E file \in Files : LoadFile(file) \/ FailReading(file) \/ FailLoading(file)
    \/ FailHeader

WarehouseSpec == WarehouseInit /\ [][WarehouseNext]_warehouseVars

-----------------------------------------------------------------------------
(* Properties *)

\* The lines of the committed runs; a failed run committed none.
Committed ==
    [i \in DOMAIN runs |-> IF runs[i].status = "succeeded" THEN runs[i].file ELSE <<>>]

\* Loading file after file, in any order and with repeats, leaves staging as
\* one load of all their rows would: per order the newest version, and of one
\* version the row that came first.
IncrementalEqualsBulk == staging = AcceptedByLoop(SX!FlattenSeq(Committed))

\* The loop of read_and_validate keeps of each order the first line of its
\* newest version.
LoopKeepsFirstNewest ==
    \A i \in DOMAIN runs : AcceptedByLoop(runs[i].file) = Accepted(runs[i].file)

\* The marts agree with staging row by row, which the reconciliation checks,
\* counting rows, do not establish.
FactsMirrorStaging == facts = staging

\* A fact's customer exists and its recorded dates cover the order.
DimensionCoversFacts ==
    \A o \in Filled(facts) :
        LET life == dim[facts[o].customer]
        IN  life # None /\ life.first <= facts[o].ts /\ facts[o].ts <= life.last

\* In no order of loads, whatever has failed in between, does a reconciliation
\* check reject a batch: what fails a run is its file or the database.
ChecksRejectNoBatch == \A i \in DOMAIN runs : runs[i].error # "check"

\* Every line of a loaded file is accounted for, and its invalid lines, and
\* no line of a failed run, are in quarantine.
LinesAccountedFor ==
    /\ \A i \in DOMAIN runs :
           runs[i].status = "succeeded" => runs[i].input = Len(runs[i].file)
    /\ \A i \in DOMAIN runs :
           Cardinality({q \in quarantine : q[1] = i}) =
               IF runs[i].status = "succeeded" THEN runs[i].quarantined ELSE 0

\* Loading a file that was loaded before, whatever came between, changes
\* neither staging nor the marts.
ReplayChangesNothing ==
    [][\A i \in DOMAIN runs :
          /\ runs[i].status = "succeeded"
          /\ runs' # runs
          /\ runs'[Len(runs')].file = runs[i].file
          => UNCHANGED <<staging, dim, facts>>]_warehouseVars
=============================================================================
