SPECIFICATION Spec
CONSTANTS
  Callers = {t1, t2}
  Msgs = {m1, m2}
  Chans = {c1, c2}
  StreamIds = {s1, s2, s3}
  Cap = 1
  MaxBreaks = 1
  InitMayFail = TRUE
  None = None
SYMMETRY Symmetry
INVARIANTS AliveHasSender CurrentStreamDrained AtMostOnce
PROPERTIES NoSilentLoss RelaySpec
CHECK_DEADLOCK FALSE
