SPECIFICATION FairSpec
CONSTANTS
  None = None
  a = a
  b = b
  Services = {s1}
  Calls = {c1, c2}
  Runs = {r1}
  Parents = {p}
  SubsOf <- SubControls
  Relevant = {p, a, b}
  MaxManual = 1
  MaxChanges = 0
  MaxTime = 1
  MayFail = TRUE
PROPERTY RunsFinish
CHECK_DEADLOCK FALSE
