SPECIFICATION Spec
CONSTANTS
  k1 = k1  k2 = k2  p1 = p1  p2 = p2  r1 = r1  r2 = r2
  Keys = {k1}
  PairOf <- OneKey
  Immediate = {}
  Radars = {r1, r2, r3}
  DryRuns = {r3}
  Faults = {}
  AccountVisible = FALSE
  DemoActive = FALSE
  MaxPerDay = 1
  Lifetime = 1
  NoSetup = NoSetup
  MaxTime = 1
  MaxArms = 2
  MaxBrackets = 2
SYMMETRY Symmetry
INVARIANTS OneIntentionPerKey JournalledUnlessDisturbed StopUnlessDisturbed
CHECK_DEADLOCK FALSE
