CONSTANTS
  Precision = 10
  Curve <- MCCurve
  ProvisionalVotes = 1
  MasterRating = 15100
  AbuseRun = 1
  DailyLimit = 2
  NoLimit = NoLimit
  MaxMidnights = 1
  MaxFaults = 1
  Users = {"ann"}
  Addresses = {}
  Categories = {"general"}
  Items = {"hill", "lake"}
  Requests = {r1, r2, r3}
  Ballots <- MCOneSided
  InitialRatings <- MCFarRatings
SPECIFICATION FairSpec
VIEW ServiceView
INVARIANT CountWithinLimit
PROPERTIES Answered VoteIsScored
CHECK_DEADLOCK FALSE
