SPECIFICATION BenchSpec
CONSTANTS
    NumQueries = 2
    MaxInvocations = 2
    Configs <- MCConfigs
    ENGINES <- MCEngines
    None = None
CHECK_DEADLOCK FALSE
INVARIANT ConsoleMatchesTimes
PROPERTIES
    KeepsTimings
    EventuallyDone
