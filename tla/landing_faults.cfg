SPECIFICATION LandingSpec
CONSTANTS
    r1 = r1
    r2 = r2
    r3 = r3
    f1 = f1
    f2 = f2
    orders = orders
    NoRun = NoRun
    LockNames <- MCLockNames
    LockNameOf <- MCLockNameOf
    Files <- MCFiles
    Runs <- MCRuns
    FileOf <- MCTwoFiles
    BadFiles = {}
    Dialect = "sqlite"
    StrictLineage = TRUE
    Faults = {"crash", "db", "data", "lineage", "interrupt"}
    TTL = 1
    Skew = 0
    MaxTime = 2
INVARIANTS
    LandingTypeOK
    OneClaimant
    SucceededRowIsTrue
    TerminalEventIsTrue
    SecondLoadNeedsRaise
PROPERTIES
    SucceededIsFinal
    LoadsUnderLease
CHECK_DEADLOCK FALSE
