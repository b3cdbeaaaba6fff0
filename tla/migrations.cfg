SPECIFICATION FairMigrationsSpec
CONSTANTS
    s1 = s1
    s2 = s2
    s3 = s3
    Starters <- MCStarters
    Dialects <- MCDialects
INVARIANTS
    MigrationsTypeOK
    HistoryIsTrue
    OnlyTornScriptsBlock
PROPERTIES
    RaceIsWon
CHECK_DEADLOCK FALSE
