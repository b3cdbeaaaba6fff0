SPECIFICATION FairOpsSpec
CONSTANTS
    f1 = f1
    f2 = f2
    orders = orders
    NoRun = NoRun
    LastDate <- MCLastDate
    MaxAttempts = 2
    LateDates <- MCLate
    RecentLimit = 1
    SLO = 6667
    Runs <- MCRuns
    LockNames <- MCLockNames
    LockNameOf <- MCLockNameOf
    Files <- MCFiles
    FileOf <- MCFileOf
    BadFiles = {}
    Dialect = "sqlite"
    StrictLineage = FALSE
    Faults = {"data", "crash"}
    TTL = 1
    Skew = 0
    MaxTime = 1
INVARIANTS
    OpsTypeOK
    BatchNamesItsRun
    SummaryIsTrue
PROPERTIES
    FailedGateHasCause
    PassedGateIsJustified
    CallersEnd
CHECK_DEADLOCK FALSE
