SPECIFICATION Spec
CONSTANTS
    Null = Null
    Alphabetical <- MCAlphabetical
    Cut <- MCCut
    ScaleFactor = 2
    Divisor = 2
    Universe <- MCUniverse
INVARIANTS
    PolarsAgrees
    PandasAgrees
\* all tables are full
CHECK_DEADLOCK FALSE
