----------------------------- MODULE MCSparkLake -----------------------------
(* Two Spark runs on one date and a warehouse run. f1 has a tie and a bad   *)
(* line and is also given to the warehouse; f2 has neither.                 *)
EXTENDS SparkLake

CONSTANTS r1, r2, r3, f1, f2, d1, orders, spark

MCRuns == {r1, r2, r3}
MCSparkRuns == {r1, r2}
MCFiles == {f1, f2}
MCFileOf == [r \in Runs |-> IF r = r2 THEN f2 ELSE f1]
MCLockNames == {orders, spark}
MCLockNameOf == [r \in Runs |-> IF r \in SparkRuns THEN spark ELSE orders]
MCDates == {d1}
MCDateOf == [r \in Runs |-> d1]

Line(o, v, h, ok) == [order |-> o, ver |-> v, digest |-> h, valid |-> ok]
MCLines == [f \in Files |->
    IF f = f1 THEN <<Line(1, 1, 1, TRUE), Line(1, 1, 2, TRUE), Line(2, 1, 3, FALSE)>>
    ELSE <<Line(1, 2, 4, TRUE), Line(2, 2, 5, TRUE)>>]
=============================================================================
