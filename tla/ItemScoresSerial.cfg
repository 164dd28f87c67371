CONSTANTS
  Items = {i1, i2}
  Categories = {c1, c2}
  Votes = {v1, v2}
  MaxEvents = 5
  MaxFaults = 1
SPECIFICATION SerialSpec
INVARIANT DeletedStayClean
PROPERTIES FirstScoreOnce FirstScoreFirst
SYMMETRY Symmetry
CHECK_DEADLOCK FALSE
