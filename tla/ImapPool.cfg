SPECIFICATION FairSpec
CONSTANTS
  Requests = {r1, r2}
  Budgeted = {r1}
  Clients = {c1, c2, c3, c4, c5, c6, c7, c8}
  MaxFaults = 1
  MaxRefreshes = 1
  Nil = Nil
INVARIANTS FreshAfterRefresh NothingLeft LockedForSomeone
PROPERTIES Watched CallsEnd
CHECK_DEADLOCK FALSE
