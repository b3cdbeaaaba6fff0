----------------------------- MODULE Monitoring -----------------------------
(***************************************************************************)
(* What get_monitoring_snapshot (data_platform/monitoring.py) concludes    *)
(* from the rows it has read, and what evaluate_scheduled_run              *)
(* (data_platform/orchestration.py) makes of it. Reading the rows is       *)
(* Operations' matter.                                                     *)
(*                                                                         *)
(* rows is pipeline_runs in the order of completion, the latest last: a    *)
(* sequence of [run, status]. Sums of row counts, trends, durations and    *)
(* the text of alerts are left out. So is the alert on failed quality      *)
(* checks: assert_quality raises before store_quality_results, so that no  *)
(* failed check is ever persisted.                                         *)
(***************************************************************************)
EXTENDS Integers, Sequences, FiniteSets

CONSTANTS
    RecentLimit,   \* recent_limit; evaluate_scheduled_run leaves it at 50
    SLO            \* success_slo_percent, in hundredths of a percent

\* The range checks of get_monitoring_snapshot.
ASSUME MonitoringAssumption ==
    /\ RecentLimit \in Nat \ {0}
    /\ SLO \in 0 .. 10000

Hits(rows) == {i \in DOMAIN rows : rows[i].status = "succeeded"}

\* round(n / total * 100, 2), in hundredths of a percent: the nearest number.
\* Of a tie either, as the error of the binary quotient decides.
Percents(n, total) ==
    LET d == (10000 * n) \div total
    IN  {p \in {d, d + 1} : 2 * total * p - 20000 * n \in (-total) .. total}

\* Mutation: the rate of the recent runs only.
RecentRates(rows) ==
    LET recent == {i \in DOMAIN rows : i > Len(rows) - RecentLimit}
    IN  IF rows = <<>> THEN {0}
        ELSE Percents(Cardinality(Hits(rows) \cap recent), Cardinality(recent))

\* What success_rate may be for these rows.
SuccessRates(rows) ==
    IF rows = <<>> THEN {0} ELSE Percents(Cardinality(Hits(rows)), Len(rows))

Alerts(rate, rows, failedFiles) ==
    (IF rows # <<>> /\ rows[Len(rows)].status = "failed" THEN {"latest"} ELSE {})
    \cup (IF rows # <<>> /\ rate < SLO THEN {"slo"} ELSE {})
    \cup (IF failedFiles > 0 THEN {"files"} ELSE {})

PlatformStatus(rate, rows, failedFiles) ==
    CASE rows = <<>> -> "no_runs"
      [] rows # <<>> /\ Alerts(rate, rows, failedFiles) # {} -> "degraded"
      [] OTHER -> "healthy"

\* Mutation: one run short.
RecentLess(rows) == {i \in DOMAIN rows : i > Len(rows) - RecentLimit + 1}

\* Places of the runs the snapshot lists as recent_runs.
Recent(rows) == {i \in DOMAIN rows : i > Len(rows) - RecentLimit}

\* evaluate_scheduled_run: the gate's answer for the run it was handed.
Evaluate(run, rate, rows, failedFiles) ==
    LET found == {i \in Recent(rows) : rows[i].run = run}
    IN  CASE found = {} -> "missing"
          [] \E i \in found : rows[i].status # "succeeded" -> "unsuccessful"
          [] OTHER -> IF PlatformStatus(rate, rows, failedFiles) = "degraded"
                      THEN "degraded" ELSE "passed"
=============================================================================
