CONSTANTS
  Items = {i1, i2}
  Categories = {c1}
  Votes = {v1}
  MaxEvents = 4
  MaxFaults = 1
SPECIFICATION FairSpec
INVARIANT ScoredOrUnderWay
PROPERTY ItemIsScored
CHECK_DEADLOCK FALSE
