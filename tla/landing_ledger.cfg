SPECIFICATION LandingSpec
CONSTANTS
    r1 = r1
    r2 = r2
    r3 = r3
    f1 = f1
    f2 = f2
    orders = orders
    NoRun = NoRun
    Runs <- MCRuns
    LockNames <- MCLockNames
    LockNameOf <- MCLockNameOf
    Files <- MCFiles
    FileOf <- MCTwoFiles
    BadFiles = {}
    Dialect = "sqlite"
    StrictLineage = FALSE
    Faults = {"crash", "data", "lineage", "interrupt"}
    TTL = 1
    Skew = 0
    MaxTime = 2
INVARIANTS
    LoadedAtMostOnce
PROPERTIES
    ImplementsLedger
CHECK_DEADLOCK FALSE
