CONSTANTS
  Precision = 10
  Curve <- MCCurve
  ProvisionalVotes = 1
  MasterRating = 15100
  AbuseRun = 1
  DailyLimit = 2
  NoLimit = NoLimit
  MaxMidnights = 0
  MaxFaults = 0
  Users = {"ann"}
  Addresses = {"ip1"}
  Categories = {"general", "sports"}
  Items = {"hill", "lake", "park"}
  Requests = {r1, r2, r3}
  Ballots <- MCAnyWinner
  InitialRatings <- MCInitialRatings
SPECIFICATION SerialSpec
SYMMETRY RequestSymmetry
INVARIANT VotesZeroSum
PROPERTIES ImplementsLedger AppliedToExistingScores
CHECK_DEADLOCK FALSE
