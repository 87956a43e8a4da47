SPECIFICATION Spec
CONSTANTS
  N = 3
  Home <- MCHome
  Actions = {"archive", "delete-forever"}
  MaxRequests = 4
  MaxRecords = 2
  MaxEvents = 1
  Nil = Nil
INVARIANTS  OutcomeTrue PageAgrees
CHECK_DEADLOCK FALSE
