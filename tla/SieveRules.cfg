SPECIFICATION Spec
CONSTANTS
  Pages = {p1, p2}
  MaxJobs = 3
  MaxTrouble = 2
  Nil = Nil
SYMMETRY PageSymmetry
VIEW WhatMatters
INVARIANTS RulesKept AllOrNothing  
PROPERTIES ReplacesWhatWasSeen
CHECK_DEADLOCK FALSE
