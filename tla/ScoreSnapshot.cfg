CONSTANTS
  Items = {"hill", "lake", "pond"}
  Passes = {p1, p2}
  ScoreValues <- MCScoreValues
  Unscored <- MCUnscored
  InitialScores <- MCScores
  InitialActive <- MCActive
  PageSize = 1
  MaxChanges = 1
  MaxFaults = 1
SPECIFICATION FairSerialSpec
INVARIANT DistinctPlaces
PROPERTIES StillPassIsExact PublishedAdvances PassEnds
CHECK_DEADLOCK FALSE
