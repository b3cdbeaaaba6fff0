---------------------------- MODULE MCOperations ----------------------------
(* A backfill of two dates beside the DAG run of the first; the file of     *)
(* date 2 comes late.                                                       *)
EXTENDS Operations

CONSTANTS f1, f2, orders

MCLastDate == [c \in Callers |-> IF c = "backfill" THEN 2 ELSE 1]
MCRuns == UNION {{c} \X Dates(c) \X (1 .. MaxAttempts) : c \in Callers}
MCFiles == {f1, f2}
MCFileOf == [r \in Runs |-> IF r[2] = 1 THEN f1 ELSE f2]
MCLate == {2}
MCLockNames == {orders}
MCLockNameOf == [r \in Runs |-> orders]
=============================================================================
