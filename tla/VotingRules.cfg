CONSTANTS
  Precision = 100
  Curve <- MCCurve
  ProvisionalVotes = 1
  MasterRating <- MCMaster
  Items = {"hill", "lake", "park"}
  Categories = {"general"}
  Users = {"u1"}
  Addresses = {"ip1"}
  Requests = {1, 2, 3}
  Ballots <- MCBallots
  InitialRatings <- MCInitialRatings
  AbuseRun = 5
  BallotsSeen <- MCBallotsSeen
  MaxVotes = 7
SPECIFICATION Spec
INVARIANTS UpsetPaysMore LoopFindsRuns
CHECK_DEADLOCK FALSE
