SPECIFICATION BothSpec
CONSTANTS
  p1 = p1
  Parts = {"solo"}
  Trades = {1}
  PairOf <- SoloPair
  Level <- SoloLevel
  Units = 2
  AddUp = 0
  Ladders = {}
  Logged = {1}
  Faults = {}
  MaxDay = 0
INVARIANTS SumIsRight
CHECK_DEADLOCK FALSE
