SPECIFICATION FairSpec
CONSTANTS
  t1 = t1
  Ticks = {t1}
  Managing = {t1}
  Routine = routine
  RoutineStops = {}
  Logged = TRUE
  MeanReverting = TRUE
  Verdicts = {"keep", "take_partial_lock"}
  Entry = 3
  PlannedStop = 1
  Targets <- OneTarget
  MaxPrice = 5
  Tenths <- OneShare
  Size = 2
  Gap = 2
  Gain = 1
  MaxOrders = 3
  Faults = {"cancel", "candles", "lost", "order"}
PROPERTIES NakedIsProtected TargetsLookedAfter TimeStopCloses
CHECK_DEADLOCK FALSE
