SPECIFICATION Spec
CONSTANTS
  Parts = {"inbox", "radar", "trade"}
  k1 = k1  p1 = p1  r1 = r1  r2 = r2
  NoSetup = NoSetup
  Markets = {1, 2}
  KindsSent = {"foreign", "crooked", "close", "open"}
  Live = TRUE
  MaxPerCycle = 2
  MaxSecond = 1
  MaxSignals = 2
  MaxFaults = 1
INVARIANTS InboxTypeOK SignalsOnceInOrder StopOrWarning
PROPERTIES SignalsHandled EveryIntentionLeaves ExitsCounted
CHECK_DEADLOCK FALSE
