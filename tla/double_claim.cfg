SPECIFICATION LandingSpec
CONSTANTS
    r1 = r1
    r2 = r2
    r3 = r3
    f1 = f1
    f2 = f2
    orders = orders
    NoRun = NoRun
    Runs <- MCRuns
    LockNames <- MCLockNames
    LockNameOf <- MCLockNameOf
    Files <- MCFiles
    FileOf <- MCOneFile
    BadFiles = {}
    Dialect = "postgresql"
    StrictLineage = FALSE
    Faults = {"data"}
    TTL = 1
    Skew = 0
    MaxTime = 1
INVARIANTS
    OneClaimant
CHECK_DEADLOCK FALSE
