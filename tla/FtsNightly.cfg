SPECIFICATION Spec
CONSTANTS
  Instances = {a, b}
  Folders = {f1, f2}
  MaxDays = 2
  MaxCrashes = 2
  MaxFaults = 1
  Nil = Nil
SYMMETRY Symmetry
INVARIANTS OneIndex OncePerDay Traceable IndexRecorded
CHECK_DEADLOCK FALSE
