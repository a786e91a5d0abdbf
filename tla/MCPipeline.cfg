SPECIFICATION FairSpec
CONSTANTS
  Nobody = Nobody
  r1 = r1
  Evidences <- TwoEvidences
  x2 = x2
  x3 = x3
  m1 = m1
  m2 = m2
  m3 = m3
  s1 = s1
  s2 = s2
  Providers <- OneProvider
  DiscoverersOf <- OneDiscoverer
  ListOf <- OneResource
  Calls = {c1}
  Runs = {r1}
  Direct <- OtherCollector
  KeyOf <- OneKind
  ServiceOf <- Service
  Metrics = {m1, m2, m3}
  Applies <- AppliesPartly
  InitialMetrics <- TwoMetrics
  InitialUsable <- UsableBy
  Workers = {w1, w2}
  MaxChanges = 1
  StoreDisabled = FALSE
  MayFail = TRUE
  CloudMayFail = FALSE
  MaxVersion = 1
  OverlappingStarts = FALSE
  MaxEvents = 1
INVARIANTS EvidenceBeforeResults AnswerIsHonest EachMetricOnce

PROPERTIES HopsRelay 
CHECK_DEADLOCK FALSE
