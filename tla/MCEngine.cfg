SPECIFICATION FairSpec
CONSTANTS
  c1 = c1
  c2 = c2
  Rest = rest
  Callers = {c1, c2}
  Requesters = {c1, c2, rest}
  MaxCalls = 2
  PublicEndpoints = {"ListPublicCertificates"}
  Busy <- BusyRequests
  MaxFaults = 1
INVARIANTS  LoadedKeysAreUsable AutoStartAfterListen RequestReachesMethod
PROPERTIES  CallsEnd
CHECK_DEADLOCK FALSE
