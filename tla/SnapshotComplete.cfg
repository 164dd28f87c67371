CONSTANTS
  Items = {"hill", "lake", "park"}
  Passes = {p1}
  ScoreValues <- MCScoreValues
  Unscored <- MCUnscored
  InitialScores <- MCScores
  PageSize = 2
  InitialActive <- MCActive
  MaxChanges = 1
  MaxFaults = 0
SPECIFICATION Spec
INVARIANT CompleteMeansStored
CHECK_DEADLOCK FALSE
