--------------------------- MODULE MCPipelineLock ---------------------------
(* Three callers, two of one lock and one of the other.                    *)
EXTENDS PipelineLock

CONSTANTS r1, r2, r3, orders, spark

MCRuns == {r1, r2, r3}
MCLockNames == {orders, spark}
MCLockNameOf == [r \in MCRuns |-> IF r = r3 THEN spark ELSE orders]
=============================================================================
