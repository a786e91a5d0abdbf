SPECIFICATION FairSpec
CONSTANTS
  None = None
  MetricIds = {m1, m2}
  Builtin = {m1}
  Prefixes <- IdPrefixes
  Services = {s1}
  Values = {v1, v2}
  Default = v1
  EventCap = 1
  Subs = {h1}
  Assessors = {a1}
  MaxChanges = 1
  MaxRemovals = 1
  MaxRestarts = 1
  MaxReconnects = 1
  MaxTime = 0
  EvictionTime = 1
  RpcMayFail = TRUE
PROPERTIES EvaluationsFinish QueriesBecomeFresh
