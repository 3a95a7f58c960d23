SPECIFICATION MCSpec
CONSTANTS
    Total = 6
    Concurrency = 3
    Buffer = 2
    Failing = {2, 5}
    Files <- MCFiles
    Settings <- MCSettings
    AskedConcurrency <- MCAskedConcurrency
    Names = 4
    AskedLimits <- MCAskedLimits
INVARIANTS
    EachQueryOnce
    MemoryBounded
    InputOrderKept
    DropCancels
    SummaryAgrees
    CommandReports
    AnswersMatchNames
PROPERTY
    EndsUnlessSelfBlocked
CHECK_DEADLOCK FALSE
