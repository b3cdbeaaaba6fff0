SPECIFICATION FairLandingSpec
CONSTANTS
    r1 = r1
    r2 = r2
    r3 = r3
    f1 = f1
    f2 = f2
    orders = orders
    NoRun = NoRun
    Runs <- MCRuns
    LockNames <- MCLockNames
    LockNameOf <- MCLockNameOf
    Files <- MCFiles
    FileOf <- MCTwoFiles
    BadFiles <- MCBad
    Dialect = "postgresql"
    StrictLineage = TRUE
    Faults = {"data", "lineage"}
    TTL = 1
    Skew = 0
    MaxTime = 2
PROPERTIES
    InvocationEnds
    ClaimIsSettled
CHECK_DEADLOCK FALSE
