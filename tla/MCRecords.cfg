SPECIFICATION FairSpec
CONSTANTS
  s1 = s1
  s2 = s2
  x1 = x1
  x2 = x2
  x3 = x3
  DefaultTargetCloudServiceId = s1
  Stored <- StoredRows
  Workers = {w1, w2}
  Services = {s1, s2}
  Catalogs = {k1}
  Certificates = {x1, x2, x3}
  Tokens = {{s1}, {s1, s2}}
  PageSizes = {0, 1, 3}
  DefaultPageSize = 2
  MaxPageSize = 2
  MaxWrites = 3
  None = None
INVARIANTS RevivedOnlyByOverlap TargetsHaveParents ListingOffByShifts
PROPERTY ListingEnds
CHECK_DEADLOCK FALSE
