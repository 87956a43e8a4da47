SPECIFICATION Spec
CONSTANTS
  MaxLines = 3
  MaxFiles = 2
  MaxBatch = 1
  MaxFaults = 1
  SeenCopies = FALSE
INVARIANT PrefixRead
CHECK_DEADLOCK FALSE
