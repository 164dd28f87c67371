CONSTANTS
  r1 = r1
  r2 = r2
  r3 = r3
  r4 = r4
  ann = ann
  vlog = vlog
  blog = blog
  x = x
  y = y
  science = science
  arts = arts
  NoCategory = NoCategory
  Requests = {r1, r2, r3, r4}
  Users = {ann}
  Profiles = {vlog, blog}
  PlainItems = {x, y}
  FavoriteItems = {x, y}
  SnapshotItems = {x, y}
  Categories = {science, arts}
  SnapshotCategories = {science, arts}
  Workloads <- MCWorkloads
  PageSize = 2
  TTL = 1
  MaxTime = 3
  KeepDays = 1
  FirstDay = 1
  LastDay = 3
  MaxFaults = 1
SPECIFICATION Spec
INVARIANTS PendingIsFlagged ToggleParity ItemFollowsProfile FavoriteTwinsOverlap PlacesConsecutive AnsweredForSearch
PROPERTIES RetentionKeepsNewest HiddenWithinTTL
CHECK_DEADLOCK FALSE
