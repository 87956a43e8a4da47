\* Two hours, two source lines, four transactions, two faults; no symmetry, because of liveness.
SPECIFICATION FairSpec
CONSTANTS
  Hours = {h1, h2}
  MaxOffset = 2
  MaxTx = 4
  MaxFaults = 2
  Nil = Nil
CHECK_DEADLOCK FALSE
INVARIANTS
  RecoveryNeverFails
  SettledFiles
  NoSilentLoss
  NoLineTwice
  AckedSurvives
PROPERTIES
  RefinesLog
  ServiceReturns
  DeletionCompletes
