SPECIFICATION FairSpec
CONSTANTS
  Callers = {t1}
  Msgs = {m1, m2}
  Chans = {c1, c2}
  StreamIds = {s1, s2, s3}
  Cap = 1
  MaxBreaks = 1
  InitMayFail = FALSE
  None = None
INVARIANTS NoConcurrentSend PutBackReachable
PROPERTIES HeldIsHandedOver
