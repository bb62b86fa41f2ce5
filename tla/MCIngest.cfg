SPECIFICATION AnySpec
CONSTANTS
    Batches = 3
    Attempts = 3
    MaxOthers = 2
    Settles = TRUE
    RunId = "run"
    Files <- MCFiles
    RunAttempts <- MCRunAttempts
    Reports <- MCReports
    Declares = {"A"}
    Limits <- MCLimits
    Runs <- MCRuns
    Cases = {"c", "d"}
    Tiers = {"integration", "regression"}
    TiersOf <- MCTiersOf
    MaxCopies = 3
INVARIANTS
    AtMostOnce ReturnMeansStored FailedIsExact
    OneOutcomePerCase
    CopiesSound
    RetriesHarmless VerdictCovers
PROPERTIES
    ExecutedKept
    AllSettle
CHECK_DEADLOCK FALSE
