CONSTANTS
  Precision = 10
  Curve <- MCCurve
  ProvisionalVotes = 1
  MasterRating = 15100
  AbuseRun = 3
  DailyLimit = 1
  NoLimit = NoLimit
  MaxMidnights = 0
  MaxFaults = 0
  Users = {"ann"}
  Addresses = {}
  Categories = {"general"}
  Items = {"hill", "lake"}
  Requests = {r1, r2}
  Ballots <- MCOneSided
  InitialRatings <- MCInitialRatings
SPECIFICATION Spec
INVARIANT DailyQuota
CHECK_DEADLOCK FALSE
