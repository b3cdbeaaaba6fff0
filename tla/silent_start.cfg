SPECIFICATION LandingSpec
CONSTANTS
    r1 = r1
    r2 = r2
    r3 = r3
    f1 = f1
    f2 = f2
    orders = orders
    NoRun = NoRun
    Runs <- MCPair
    LockNames <- MCLockNames
    LockNameOf <- MCLockNameOf
    Files <- MCFiles
    FileOf <- MCOwnFile
    BadFiles = {}
    Dialect = "sqlite"
    StrictLineage = FALSE
    Faults = {}
    TTL = 1
    Skew = 0
    MaxTime = 1
INVARIANTS
    StartHasTerminalEvent
CHECK_DEADLOCK FALSE
