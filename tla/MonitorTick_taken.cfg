SPECIFICATION Spec
CONSTANTS
  t1 = t1
  Ticks = {t1}
  Managing = {}
  Routine = routine
  RoutineStops = {2}
  Logged = TRUE
  MeanReverting = FALSE
  Verdicts = {"keep"}
  Entry = 3
  PlannedStop = 1
  Targets <- OneTarget
  MaxPrice = 5
  Tenths <- OneShare
  Size = 2
  Gap = 2
  Gain = 1
  MaxOrders = 3
  Faults = {}
INVARIANTS TakenOnce
CHECK_DEADLOCK FALSE
