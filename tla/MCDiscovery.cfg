SPECIFICATION FairSpec
CONSTANTS
  r1 = r1
  r2 = r2
  x1 = x1
  Providers <- TwoProviders
  DiscoverersOf <- ThreeDiscoverers
  ListOf <- OnlyFirstFinds
  Calls = {c1, c2}
  Runs = {r1, r2}
  MaxVersion = 2
  CloudMayFail = TRUE
  Evidences <- TwoEvidences
  OverlappingStarts = FALSE
INVARIANTS StartedMeansScheduled StartsOnce
PROPERTIES StaleOnlyByOverlap 
CHECK_DEADLOCK FALSE
