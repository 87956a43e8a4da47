SPECIFICATION Spec
CONSTANTS
  MaxLines = 3
  MaxFiles = 2
  MaxBatch = 1
  MaxFaults = 1
  SeenCopies = FALSE
INVARIANTS LineOnce 
CHECK_DEADLOCK FALSE
