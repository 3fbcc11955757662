CONSTANTS
  Batches = 2
  Parallelism = 2
  MaxCrashes = 2
SPECIFICATION Spec
INVARIANTS TypeOK NothingLost NothingTwice StaticTablesWhole OneBatchOnDisk FailsOnLeftovers
