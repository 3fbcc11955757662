CONSTANTS
  Base = 28
  Scale = 1
  BasisPoints = 4
  UPD_PCT = 1
  UPDATE_PROCS = 2
  ModeUnit = 10
  MaxUpdates = 4
  MaxSegments = 0
SPECIFICATION Spec
INVARIANTS DeletesAlwaysHit
