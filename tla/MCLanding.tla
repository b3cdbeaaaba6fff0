------------------------------ MODULE MCLanding ------------------------------
(* Three invocations; which of them share a file is chosen per run.         *)
EXTENDS Landing

CONSTANTS r1, r2, r3, f1, f2, orders

MCRuns == {r1, r2, r3}
MCPair == {r1, r2}
MCFiles == {f1, f2}
MCLockNames == {orders}
MCLockNameOf == [r \in Runs |-> orders]

\* r1 and r2 are given one file, r3 another.
MCTwoFiles == [r \in Runs |-> IF r = r3 THEN f2 ELSE f1]
\* All are given one file.
MCOneFile == [r \in Runs |-> f1]
\* Each is given a file of its own, or one of two.
MCOwnFile == [r \in Runs |-> IF r = r1 THEN f1 ELSE f2]
MCBad == {f2}
=============================================================================
