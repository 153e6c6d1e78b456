SPECIFICATION Spec
CONSTANTS
  t1 = t1
  Ticks = {t1}
  Managing = {t1}
  Routine = routine
  RoutineStops = {2}
  Logged = TRUE
  MeanReverting = FALSE
  Verdicts = {"take_partial_lock"}
  Entry = 3
  PlannedStop = 1
  Targets <- OneTarget
  MaxPrice = 5
  Tenths <- OneShare
  Size = 3
  Gap = 2
  Gain = 1
  MaxOrders = 3
  Faults = {"kill", "fetch"}
INVARIANTS TypeOK StopUnlessDisturbed NeverLoosened OneShotOnce
PROPERTIES BankedOnce
CHECK_DEADLOCK FALSE
