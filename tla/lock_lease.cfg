SPECIFICATION FairLockSpec
CONSTANTS
    r1 = r1
    r2 = r2
    r3 = r3
    orders = orders
    spark = spark
    Runs <- MCRuns
    LockNames <- MCLockNames
    LockNameOf <- MCLockNameOf
    TTL = 2
    Skew = 1
    MaxTime = 5
    Faults = {"crash", "db"}
INVARIANTS
    LockTypeOK
    LiveHolderHasRow
    OverlapOnlyAfterExpiry
PROPERTIES
    RowsLeaveByExpiryOrOwner
    CallerEventuallyHolds
CHECK_DEADLOCK FALSE
