CONSTANTS
  r1 = r1
  r2 = r2
  r3 = r3
  r4 = r4
  ann = ann
  bob = bob
  mit = mit
  mit2 = mit2
  yale = yale
  NoOne = NoOne
  NoImage = NoImage
  Requests = {r1, r2, r3, r4}
  People = {ann, bob}
  Colleges = {mit, mit2, yale}
  MigratedImages <- MCImages
  SlugOf <- MCSlugOf
  Workloads <- MCWorkloads
  Served <- MCServed
  Workers = 2
  MaxFaults = 2
SPECIFICATION Spec
INVARIANTS DocumentHasFile FileHasDocument PictureIsUsed MigratedImageIsUsed
PROPERTIES CollegesArrive
CHECK_DEADLOCK FALSE
