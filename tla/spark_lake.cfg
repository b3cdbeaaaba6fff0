SPECIFICATION SparkSpec
CONSTANTS
    r1 = r1
    r2 = r2
    r3 = r3
    f1 = f1
    f2 = f2
    d1 = d1
    orders = orders
    spark = spark
    NoRun = NoRun
    Runs <- MCRuns
    SparkRuns <- MCSparkRuns
    LockNames <- MCLockNames
    LockNameOf <- MCLockNameOf
    Files <- MCFiles
    FileOf <- MCFileOf
    Dates <- MCDates
    DateOf <- MCDateOf
    Lines <- MCLines
    BadFiles = {}
    Dialect = "sqlite"
    StrictLineage = FALSE
    Faults = {"crash", "db", "data"}
    TTL = 1
    Skew = 0
    MaxTime = 2
INVARIANTS
    SparkTypeOK
    SucceededRowIsStored
    PartitionsExplained
PROPERTIES
    ImplementsLanding
    AuditMatchesLake
    SettledContentIsLeftAlone
CHECK_DEADLOCK FALSE
