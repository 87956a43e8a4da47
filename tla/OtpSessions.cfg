SPECIFICATION Spec
CONSTANTS
  Sessions = {s1, s2}
  Requests = {k1, k2}
  Limit = 2
  Block = 1
  Window = 2
  Pending = 2
  MaxTime = 2
  MaxAsked = 3
  MaxEvents = 1
  Nil = Nil
SYMMETRY Symmetry
INVARIANTS CodeOnce NoBypass GuessesBounded
CHECK_DEADLOCK FALSE
