SPECIFICATION BothSpec
CONSTANTS
  p1 = p1
  Parts = {"solo", "ladder", "pair", "aging"}
  Trades = {1}
  PairOf <- SoloPair
  Level <- SoloLevel
  Units = 2
  AddUp = 40
  Ladders = {}
  Logged = {1}
  Faults = {"orders", "legs"}
  MaxDay = 1
INVARIANTS OneLinePerId Aligned KeptApart Mirrored
PROPERTIES HistoryKept Idempotent
CHECK_DEADLOCK FALSE
