SPECIFICATION Spec
CONSTANTS
  None = None
  a = a
  b = b
  Services = {s1}
  Calls = {c1}
  Runs = {r1, r2}
  Parents = {p}
  SubsOf <- SubControls
  Relevant = {p, a, b}
  MaxManual = 1
  MaxChanges = 1
  MaxTime = 0
  MayFail = FALSE
INVARIANTS ParentAfterSubs ParentStatusSound AllControlsEvaluated
CHECK_DEADLOCK FALSE
SYMMETRY Symmetry
