CONSTANTS
  Base = 12
  Scale = 1
  BasisPoints = 6
  UPD_PCT = 2
  UPDATE_PROCS = 2
  ModeUnit = 10
  MaxUpdates = 6
  MaxSegments = 3
SPECIFICATION Spec
INVARIANTS TypeOK SetsCanonical InsertsSplitEvenly DeletesSplitWithinLimit DeletesHit InsertsAreFresh
