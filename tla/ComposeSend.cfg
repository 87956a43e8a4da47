SPECIFICATION Spec
CONSTANTS
  k1 = k1
  k2 = k2
  Nil = Nil
  Keys = {k1, k2}
  MaxVersion = 2
  MaxRequests = 3
  MaxUploads = 1
SYMMETRY KeySymmetry
CHECK_DEADLOCK FALSE
INVARIANTS
  SentOnce
  StatusTruthful
  SavedContentKept
  CopyExists
PROPERTIES
  FileKept
