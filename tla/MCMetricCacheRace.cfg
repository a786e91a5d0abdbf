SPECIFICATION Spec
CONSTANTS
  None = None
  MetricIds = {m1}
  Builtin = {m1}
  Prefixes <- IdPrefixes
  Services = {s1}
  Values = {v1, v2}
  Default = v1
  EventCap = 1
  Subs = {h1}
  Assessors = {a1}
  MaxChanges = 1
  MaxRemovals = 0
  MaxRestarts = 0
  MaxReconnects = 0
  MaxTime = 0
  EvictionTime = 1
  RpcMayFail = FALSE
INVARIANT ConfigCoherent
