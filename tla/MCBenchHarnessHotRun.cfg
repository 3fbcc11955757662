SPECIFICATION Spec
CONSTANTS
    NumQueries = 2
    MaxInvocations = 1
    Configs <- MCConfigs
CHECK_DEADLOCK FALSE
INVARIANT HotRunFollows
