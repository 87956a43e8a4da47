SPECIFICATION FairSearchSpec
CONSTANTS
  Requests = {q1}
  MaxSnapshots = 1
  Limit = 2
  First <- MCFirst
  Newest = 5
  Hits <- MCHits
  MaxChanges = 2
  MaxAsked = 3
  Nil = Nil
INVARIANTS PagesExact
PROPERTIES NothingExpired SlotsReturned
CHECK_DEADLOCK FALSE
