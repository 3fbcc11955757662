SPECIFICATION Spec
CONSTANTS
    TABLES <- MCTABLES
    Marker = "lineitem"
    Reads <- MCReads
    Uploads <- MCUploads
    Attempts = 4
    AppAttempts = 2
    None = None
    MaxJobs = 2
    MaxSteps = 2
    MaxKills = 2
INVARIANTS
    KeepsCompletedRows
\* all jobs are over
CHECK_DEADLOCK FALSE
