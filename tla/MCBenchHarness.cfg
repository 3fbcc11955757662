SPECIFICATION Spec
CONSTANTS
    NumQueries = 2
    MaxInvocations = 2
    Configs <- MCConfigs
CHECK_DEADLOCK FALSE
INVARIANTS
    TypeOK
    DoneMeansComplete
    SkippedMeansCached
    AbortsForCause
    PlotIsFresh
