----------------------------- MODULE Operations -----------------------------
(***************************************************************************)
(* Who calls process_source_file, and what they conclude: run_backfill     *)
(* (data_platform/backfill.py) over a range of dates, and at the same time *)
(* the orders_daily DAG, one run per date, whose last task is              *)
(* evaluate_scheduled_run (data_platform/orchestration.py).                *)
(*                                                                         *)
(* An attempt <<caller, date, n>> is an invocation of Landing, all of      *)
(* whose steps and faults it takes. Each caller makes one call at a time:  *)
(* the loop of run_backfill, max_active_runs = 1 of the DAG.               *)
(***************************************************************************)
EXTENDS Landing, Monitoring

CONSTANTS
    LastDate,          \* the dates each caller goes through are 1 .. LastDate
    LateDates,         \* dates whose partition may not be there
    MaxAttempts        \* max_attempts; 1 + retries of process_partition

Callers == {"backfill", "airflow"}
Dates(c) == 1 .. LastDate[c]

\* The attempts at one date are for one file; two dates may have the same.
\* Interrupts are left out: they end the caller like a crash.
ASSUME OperationsAssumption ==
    /\ LastDate \in [Callers -> Nat]
    /\ MaxAttempts \in Nat \ {0}
    /\ Runs = UNION {{c} \X Dates(c) \X (1 .. MaxAttempts) : c \in Callers}
    /\ \A r, s \in Runs : r[2] = s[2] => FileOf[r] = FileOf[s]
    /\ "interrupt" \notin Faults

VARIABLES
    goOn,          \* the argument continue_on_error; never changes
    history,       \* the runs with a pipeline_runs row, by completed_at
    answer,        \* the run_id each call has returned
    at,            \* the date each caller is at; beyond the last when it is over
    attempt,       \* the attempt each caller is at for that date
    results,       \* what run_backfill has collected
    seen,          \* pipeline_runs as the gate has read it, <<>> before
    verdict        \* what became of the DAG run of each date

callerVars == <<goOn, at, attempt, results, seen, verdict>>
opsVars == <<vars, history, answer, callerVars>>

Verdicts == {"none", "unprocessed", "missing", "unsuccessful", "degraded", "passed"}

BatchResult == [status : {"succeeded", "skipped", "failed"},
                attempts : 1 .. MaxAttempts, run : Runs \cup {NoRun}]

OpsTypeOK ==
    /\ goOn \in BOOLEAN
    /\ history \in Seq(Runs)
    /\ answer \in [Runs -> Runs \cup {NoRun}]
    /\ at \in [Callers -> Nat]
    /\ \A c \in Callers : at[c] \in 1 .. LastDate[c] + 1
    /\ attempt \in [Callers -> 1 .. MaxAttempts]
    /\ results \in Seq(BatchResult) /\ Len(results) <= LastDate["backfill"]
    /\ seen \in Seq([run : Runs, status : {"succeeded", "failed"}])
    /\ verdict \in [Dates("airflow") -> Verdicts]

OpsInit ==
    /\ LandingInit
    /\ goOn \in BOOLEAN
    /\ history = <<>>
    /\ answer = [r \in Runs |-> NoRun]
    /\ at = [c \in Callers |-> 1]
    /\ attempt = [c \in Callers |-> 1]
    /\ results = <<>>
    /\ seen = <<>>
    /\ verdict = [d \in Dates("airflow") |-> "none"]

Current(c) == <<c, at[c], attempt[c]>>

At(c, pcs) == at[c] \in Dates(c) /\ pc[Current(c)] \in pcs

Returned(c) == At(c, {"done", "skipped"})
Raised(c) == At(c, {"rejected", "raised", "stranded"})

\* run_id of what the call returned.
ResultRun(c) == answer[Current(c)]

-----------------------------------------------------------------------------
(* The call *)

\* materialize_object does not find the object: it is late, or gone.
NoSource(c) ==
    /\ At(c, {"idle"})
    /\ at[c] \in LateDates
    /\ Goto(Current(c), "rejected")
    /\ UNCHANGED <<dataVars, lockVars, history, answer, callerVars>>

\* The run row that the call may write is the latest of pipeline_runs.
KeepHistory(c) ==
    history' = IF runRow' = runRow THEN history ELSE Append(history, Current(c))

\* Mutation: a skipped call brings a run_id of its own.
OwnRun(c) == Current(c)

\* existing_run_id, as the claim reads it.
ExistingRun(c) == manifest[FileOf[Current(c)]].run

\* What the call returns when this step ends it; the caller holds on to it.
KeepAnswer(c) ==
    LET r == Current(c)
    IN  answer' = CASE pc'[r] = "skipped" -> [answer EXCEPT ![r] = ExistingRun(c)]
                    [] pc'[r] = "done" -> [answer EXCEPT ![r] = r]
                    [] OTHER -> answer

CallStep(c) ==
    /\ at[c] \in Dates(c)
    /\ Step(Current(c)) /\ KeepHistory(c) /\ KeepAnswer(c)
    /\ UNCHANGED callerVars

CallFault(c) ==
    /\ at[c] \in Dates(c)
    /\ Fault(Current(c)) /\ KeepHistory(c) /\ KeepAnswer(c)
    /\ UNCHANGED callerVars

\* The exception is one of RETRYABLE_ERRORS, or is not. A claim and a lock
\* that another holds are; an object not found and refused data are not. After
\* the fact only known content can have been claimed, and what a failing
\* database or lineage client raises may be either.
Errors(c) ==
    LET r == Current(c)
        claimed == pc[r] = "rejected" /\ manifest[FileOf[r]].status # "absent"
        locked == pc[r] = "raised" /\ runRow[r] = "none"
    IN  {kind \in {"retryable", "other"} :
            \/ Faults \cap {"db", "lineage"} # {}
            \/ kind = "retryable" /\ (claimed \/ locked)
            \/ kind = "other" /\ ~locked /\ (claimed => at[c] \in LateDates)}

NextDate(c) ==
    /\ at' = [at EXCEPT ![c] = @ + 1]
    /\ attempt' = [attempt EXCEPT ![c] = 1]

TryAgain(c) == attempt' = [attempt EXCEPT ![c] = @ + 1]

-----------------------------------------------------------------------------
(* run_backfill *)

Collect(status, run) ==
    results' = Append(results,
        [status |-> status, attempts |-> attempt["backfill"], run |-> run])

BackfillReturns ==
    /\ Returned("backfill")
    /\ Collect(IF At("backfill", {"done"}) THEN "succeeded" ELSE "skipped",
               ResultRun("backfill"))
    /\ NextDate("backfill")
    /\ UNCHANGED <<vars, goOn, history, answer, seen, verdict>>

\* Mutation: the attempts have no limit.
BackfillRetriesUnbounded ==
    /\ Raised("backfill")
    /\ "retryable" \in Errors("backfill")
    /\ TryAgain("backfill")
    /\ UNCHANGED <<vars, goOn, history, answer, at, results, seen, verdict>>

\* Mutation: the attempts are not counted.
BackfillRetriesUncounted ==
    /\ Raised("backfill")
    /\ "retryable" \in Errors("backfill")
    /\ Goto(Current("backfill"), "idle")
    /\ UNCHANGED <<dataVars, lockVars, history, answer, callerVars>>

BackfillRetries ==
    /\ Raised("backfill")
    /\ "retryable" \in Errors("backfill")
    /\ attempt["backfill"] < MaxAttempts
    /\ TryAgain("backfill")
    /\ UNCHANGED <<vars, goOn, history, answer, at, results, seen, verdict>>

\* The date has failed: the last attempt, or an error that is not retryable.
BackfillGivesUp ==
    /\ Raised("backfill")
    /\ \/ "other" \in Errors("backfill")
       \/ "retryable" \in Errors("backfill") /\ attempt["backfill"] = MaxAttempts
    /\ Collect("failed", NoRun)
    /\ IF goOn THEN NextDate("backfill")
       ELSE /\ at' = [at EXCEPT !["backfill"] = LastDate["backfill"] + 1]
            /\ UNCHANGED attempt
    /\ UNCHANGED <<vars, goOn, history, answer, seen, verdict>>

Batches(status) == {i \in DOMAIN results : results[i].status = status}

\* Mutation: one batch that succeeded makes the range succeeded.
SummaryOfSucceeded ==
    IF Batches("succeeded") # {} THEN "succeeded" ELSE "failed"

\* The status of the summary.
Summary ==
    CASE Batches("failed") = {} -> "succeeded"
      [] Batches("failed") # {} /\ Batches("succeeded") # {} -> "partial"
      [] OTHER -> "failed"

-----------------------------------------------------------------------------
(* The DAG: process_partition, then evaluate_platform_slo *)

\* Airflow retries the task on any exception, and when its worker dies.
TaskRetries ==
    /\ Raised("airflow") \/ At("airflow", {"crashed"})
    /\ attempt["airflow"] < MaxAttempts
    /\ TryAgain("airflow")
    /\ UNCHANGED <<vars, goOn, history, answer, at, results, seen, verdict>>

TaskFails ==
    /\ Raised("airflow") \/ At("airflow", {"crashed"})
    /\ attempt["airflow"] = MaxAttempts
    /\ verdict' = [verdict EXCEPT ![at["airflow"]] = "unprocessed"]
    /\ NextDate("airflow")
    /\ UNCHANGED <<vars, goOn, history, answer, results, seen>>

\* The snapshot's first query: all of pipeline_runs.
GateReadsRuns ==
    /\ Returned("airflow")
    /\ seen = <<>>
    /\ seen' = [i \in DOMAIN history |->
                   [run |-> history[i], status |-> runRow[history[i]]]]
    /\ UNCHANGED <<vars, goOn, history, answer, at, attempt, results, verdict>>

FailedFiles == Cardinality({f \in Files : manifest[f].status = "failed"})

\* Its second, file_manifest, at another moment; then the answer. There is no
\* retry.
GateReadsFiles ==
    /\ Returned("airflow")
    /\ seen # <<>>
    /\ \E rate \in SuccessRates(seen) :
           verdict' = [verdict EXCEPT ![at["airflow"]] =
                          Evaluate(ResultRun("airflow"), rate, seen, FailedFiles)]
    /\ seen' = <<>>
    /\ NextDate("airflow")
    /\ UNCHANGED <<vars, goOn, history, answer, results>>

-----------------------------------------------------------------------------

BackfillStep == BackfillReturns \/ BackfillRetries \/ BackfillGivesUp

DagStep == TaskRetries \/ TaskFails \/ GateReadsRuns \/ GateReadsFiles

CallerStep(c) ==
    \/ NoSource(c)
    \/ CallStep(c)
    \/ c = "backfill" /\ BackfillStep
    \/ c = "airflow" /\ DagStep

OpsNext ==
    \/ Clock /\ UNCHANGED <<history, answer, callerVars>>
    \/ \E c \in Callers : CallerStep(c) \/ CallFault(c)

OpsSpec == OpsInit /\ [][OpsNext]_opsVars

\* Both callers run on; whether their calls fail is not assumed.
FairOpsSpec == OpsSpec /\ \A c \in Callers : WF_opsVars(CallerStep(c))

-----------------------------------------------------------------------------

\* The manifest row of a date's file.
FileRow(c, d) == manifest[FileOf[<<c, d, 1>>]]

Stored(c, d, r) ==
    FileOf[r] = FileOf[<<c, d, 1>>] /\ runRow[r] = "succeeded" /\ r \in warehouse

\* A batch that run_backfill calls succeeded or skipped names the run, its own
\* or another caller's, that loaded the date's file.
BatchNamesItsRun ==
    \A i \in DOMAIN results : results[i].status # "failed" =>
        results[i].run \in Runs /\ Stored("backfill", i, results[i].run)

\* A summary that says succeeded means that every date of the range is loaded,
\* and the range is left unfinished only after a failed batch. One that says
\* failed means that the backfill settled no file: at most, those of its dates
\* that are settled were loaded by others.
SummaryIsTrue ==
    at["backfill"] > LastDate["backfill"] =>
        /\ Summary = "succeeded" =>
               \A d \in Dates("backfill") : FileRow("backfill", d).status = "succeeded"
        /\ Len(results) < LastDate["backfill"] =>
               ~goOn /\ Batches("failed") = {Len(results)}
        /\ Summary = "failed" =>
               \A d \in Dates("backfill") :
                   FileRow("backfill", d).status = "succeeded" =>
                       FileRow("backfill", d).run[1] # "backfill"

\* The gate passes a date only when the run it was handed has loaded the
\* date's file, and the history it read meets the target up to the rounding of
\* the rate: half a hundredth of a percent.
PassedGateIsJustified ==
    [][\A d \in Dates("airflow") : verdict'[d] = "passed" /\ verdict[d] # "passed" =>
          /\ FileRow("airflow", d).status = "succeeded"
          /\ Stored("airflow", d, ResultRun("airflow"))
          /\ 2 * SLO * Len(seen) - 20000 * Cardinality(Hits(seen)) <= Len(seen)
      ]_opsVars

\* The gate's run is in the history it read, with at least as many later runs as
\* the snapshot lists.
FellOffTheList ==
    \E i \in DOMAIN seen : seen[i].run = ResultRun("airflow") /\ Len(seen) - i >= RecentLimit

\* Another run has failed in the history the gate read, or the file of another
\* date says failed when it reads the manifest.
AnotherHasFailed(d) ==
    \/ \E i \in DOMAIN seen : seen[i].run # ResultRun("airflow") /\ seen[i].status = "failed"
    \/ \E f \in Files : f # FileOf[<<"airflow", d, 1>>] /\ manifest[f].status = "failed"

\* The gate never calls a loaded partition's own run the cause: it turns one
\* down only because others have failed, or have come after it in such number
\* that the snapshot no longer lists it. It never meets an unsuccessful run.
FailedGateHasCause ==
    [][\A d \in Dates("airflow") : verdict'[d] # verdict[d] =>
          /\ verdict'[d] # "unsuccessful"
          /\ verdict'[d] = "missing" => FellOffTheList
          /\ verdict'[d] = "degraded" => AnotherHasFailed(d)]_opsVars

\* run_backfill and the DAG come to an end for all their dates, whatever their
\* calls meet, unless the backfill's process dies.
CallersEnd ==
    \A c \in Callers :
        <>(at[c] > LastDate[c] \/ (c = "backfill" /\ At(c, {"crashed"})))
=============================================================================
