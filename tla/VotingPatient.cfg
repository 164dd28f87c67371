CONSTANTS
  Precision = 10
  Curve <- MCCurve
  ProvisionalVotes = 1
  MasterRating = 15100
  AbuseRun = 2
  DailyLimit = 2
  NoLimit = NoLimit
  MaxMidnights = 1
  MaxFaults = 1
  Users = {"ann"}
  Addresses = {}
  Categories = {"general"}
  Items = {"hill", "lake"}
  Requests = {r1, r2, r3, r4}
  Ballots <- MCDecided
  InitialRatings <- MCInitialRatings
SPECIFICATION PatientSpec
VIEW AdmissionView
SYMMETRY RequestSymmetry
INVARIANTS QuotaPerFault NoLongRun
PROPERTY DiscardJustified
CHECK_DEADLOCK FALSE
