CONSTANTS
  Rows <- MCRows
  MaxChildren = 3
  Commands <- MCCommands
  TextPoolDraws = 4
SPECIFICATION FairSpec
INVARIANTS TypeOK RowsCanonical ChunksAreTheTable TextPoolCanonical
PROPERTIES EventuallyAllExited ImplementsDataSet
