SPECIFICATION DeskSpec
CONSTANTS
  p1 = p1  p2 = p2  id1 = id1  id2 = id2  r1 = r1  r2 = r2  routine = routine  radar = radar
  Parts = {"journal", "queue", "caps", "halt", "chart", "setups", "tape", "ladder", "thesis"}
  \* journal
  Procs = {p1, p2}
  Wanted <- TwoIds
  Fragments <- OneFragment
  MaxSuffix = 2
  MaxCommands = 3
  Faults = {"kill"}
  \* queue
  PostedIds = {id1}
  ScannedIds = {id1, id2}
  Readers = {r1, r2}
  MaxLines = 2
  MaxRestarts = 1
  MaxKills = 1
  \* risk
  Sides = {"long", "short"}
  Desks = {routine, radar}
  Balances = {100, 94}
  RiskBase = {100}
  Edges = {150}
  Distances = {50}
  Flaws = {"none", "tight"}
  RealMoney = FALSE
  Relaxed = FALSE
  MaxLeverage = 10
  MaxSideRisk = 50
  MaxTotalRisk = 75
  MaxActive = 3
  MaxTrades = 1
  MaxDays = 1
  MaxOrders = 3
  MaxHidden = 1
  \* chart
  Shapes <- ChartShapes
  MaxBars = 6
  MaxPrice = 8
  PrevDay <- DayBefore
  Volumes <- Profiles
  MaxZones = 8
  PivotK = 1
  Lookback = 120
  Atr = 2
  \* setups
  Readings <- Thresholds
  Quiet <- TwoQuiet
  MaxMoved = 4
  \* tape
  Candles <- TapeCandles
  Exits <- TapeExits
  TapeLength = 5
  Range1 = 12
  Average = 60
  BarsPerDay = 3
  Cooldown = 3
  Window = 2
  ShortWindow = 1
  ReclaimWindow = 3
  SweepBack = 2
  MaxHold = 3
  \* ladder
  Requests <- Ladders
  Step = 200
  Moves <- LadderMoves
  Views <- LadderViews
  \* thesis
  Positions <- Held
  MaxTurned = 3
SYMMETRY Symmetry
INVARIANTS DeskTypeOK OneLinePerId SafeStays AlertsKept WithinLimits HaltStops MirrorImage ProposalIsBacked ScanSound BackTestHonest LadderSound
PROPERTIES ImplementsTradeLog OnlyEscalates
CHECK_DEADLOCK FALSE
