SPECIFICATION Spec
CONSTANTS
  k1 = k1  k2 = k2  p1 = p1  p2 = p2  r1 = r1  r2 = r2
  Keys = {k1}
  PairOf <- OneKey
  Immediate = {k1}
  Radars = {r1}
  DryRuns = {}
  Faults = {}
  AccountVisible = FALSE
  DemoActive = TRUE
  MaxPerDay = 1
  Lifetime = 1
  NoSetup = NoSetup
  MaxTime = 2
  MaxArms = 2
  MaxBrackets = 2
INVARIANTS NoDuplicate
CHECK_DEADLOCK FALSE
