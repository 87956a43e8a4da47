SPECIFICATION Spec
CONSTANTS
  MaxLines = 3
  MaxFiles = 2
  MaxBatch = 1
  MaxFaults = 1
  SeenCopies = TRUE
INVARIANT LineOnce
CHECK_DEADLOCK FALSE
