CONSTANTS
  w1 = w1
  w2 = w2
  w3 = w3
  None = None
  Empty = Empty
  Workers <- MCThreeWorkers
  Tasks = 2
SPECIFICATION WorkersSpec
INVARIANTS WorkersTypeOK NoTaskSkipped LockIsOwned
PROPERTIES LockIsFreed
