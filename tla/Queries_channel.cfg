CONSTANTS
  Calls = {c1, c2}
  Pushes = {p1}
SPECIFICATION FairSpec
INVARIANTS
  
  NothingLost
PROPERTY EveryQueryEnds
CHECK_DEADLOCK FALSE
