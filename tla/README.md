# A TLA+ development of agent-trader

agent-trader is a trading harness: a routine driven by a language model looks at the market
every few hours, a set of small deterministic programs does everything that must not depend
on the model, and a demo account on Bybit holds the orders. This directory holds TLA+ modules
of those programs, the TLC configurations that check them and proofs that TLAPS checks.

## 1. The system

All paths are relative to the root of the repository.

| Component | State | Operations | Talks to |
|---|---|---|---|
| Routine (`routines/run-routine.ps1`) | its log, `routine-status.json` | run the model under a watchdog, count new journal lines, log an automatic no-trade, call the radar | every program below |
| Armed-watch store (`trade-journal/armed-watch.js`, `journal.js arm`) | `armed-watch.json`: the intentions | arm (or refresh), remove, prune, read, write | routine, radar |
| Entry radar (`trade-journal/entry-radar.js`) | none of its own | tick: read, confirm, preflight, place, log, write | store, exchange, journal |
| Guards (`trade-journal/guards.js`, `journal.js preflight`) | reads `equity.json` and the journal | allow or block an order | radar, routine |
| Journal (`trade-journal/journal.js`) | `trades.jsonl`, one line per trade | log, set, close, sync, stats | everyone |
| Reconcile (`journal.js reconcile`, `reconcile-match.js`, `bracket-check.js`) | none of its own | a pass: fetch, match, rewrite lines, create orphan lines, cancel leftovers | exchange, journal |
| Bybit skill (`skills/bybit/index.js`) | the account | place a bracket, move a stop, scale in, take a part, trail, cancel, close | exchange |
| Monitor (`monitor.js`, `monitor-exec.js`, `journal.js monitor-tick`) | `monitor-state.json` | every 30 min: verdict per position, tighten, bank, alert | exchange, journal |
| Sizing and breaker (`sizing.js`, `journal.js risk`) | `equity.json` | size an order, halt trading | guards, routine |
| Alert queue (`tv-listener.js`, `signal-tick.js`) | `tv-alerts.jsonl` and an offset | receive, append, read from the offset | radar |
| Signal inbox (`webhook_listener.py`, `signal_executor.js`) | files of `signals/` | write, process, archive | exchange |
| Health (`health-check.ps1`, `journal.js heartbeat`) | `heartbeat.json` | beat, detect staleness | routine |
| Chart reading (`structure.js`, `zones.js`, `candles.js`, `confluence.js`, `perception.js`, `confirm.js`) | none | swings, breaks, zones, candle patterns, score, confirmation | radar, scanner, monitor |
| Placement and thesis (`placement.js`, `bracket-check.js`, `thesis.js`, `manage.js`) | none | lay out a ladder, judge its stop and its orders; judge an open position | routine, monitor |
| Scanner (`scan.js`) | none | conditions of the setups, ranking, candidates | routine, signal tick |
| Optimiser (`optimize.js`) | candles of the past | walk a tape, fill the pending entries, simulate the exits | edges of the scanner |
| Dashboard, digests, Obsidian export | none | reading and rendering | files |

What makes it hard: the programs are separate processes started by a scheduler, they share
plain files that nobody locks and that each reads whole and writes whole, each call to the
exchange may fail or succeed with its answer lost, and the scheduler kills what runs too long.
The account is a third writer: orders fill and exit between two calls of a program.

What makes each part correct: an armed intention is placed at most once and never forgotten;
a bracket is never without its stop nor unknown to the journal; the journal counts every exit
once and shows open what is open; a stop is only tightened; a size never exceeds its risk; an
alert is read, a signal acts once; what is proposed live was tested, and tested with what was known at the
time; a verdict on a position gets no milder as the market turns against it.

## 2. The modules

| Module | What it is |
|---|---|
| `EntryRadar` | arm commands and radar ticks over `armed-watch.json`, the account and the journal |
| `MCEntryRadar` | its instances: one key, or two keys of two pairs |
| `EntryRadarProofs` | nine theorems about `EntryRadar`, for every value of the constants |
| `Reconcile` | passes of `journal.js reconcile` while the market moves and others trade and sync |
| `MCReconcile` | its four instances: one trade, a ladder of two rungs, two trades at levels that the tolerances separate, two such trades whose rows age out |
| `ReconcileProofs` | twelve theorems about `Reconcile`: of any account its types, that an id names one line, that nets stay on their pair; of trades alone on their pair that the journal is the exchange after a pass, counts nothing twice, forgets nothing and is not changed by a pass that sees nothing new |
| `MonitorTick` | the half-hourly ticks and the routine over the stops and targets of one open position |
| `MCMonitorTick` | its instance: five price levels, one target |
| `MonitorTickProofs` | six theorems about `MonitorTick`, for every grid of prices, position and set of faults |
| `JournalStore` | the commands of several processes over `trades.jsonl`, at the granularity of `load` and `saveAll` |
| `TradeLog` | the abstract specification: what those commands promise of the trades they record |
| `AlertQueue` | the listener, the signal tick and the readers of `tv-alerts.jsonl` |
| `StoresProofs` | eleven theorems about what processes share without a lock, these two files and the book of `RiskDesk`, for every value of the constants |
| `SignalInbox` | the webhook's files and the executor that turns them into brackets |
| `SignalInboxProofs` | its types, that a signal acts once and in order, that an executed one has its stop or says that it has none, for every value of the constants |
| `MCHandled` | `SignalInbox`, `EntryRadar` and `Reconcile` side by side: what must be dealt with in the end |
| `RiskDesk` | sizing, `equity.json`, the breaker, the guards, orders between preflight and log |
| `Structure`, `Zones`, `Candles` | the three readings of a chart, and the verdict on a break |
| `Perception` | their composition: score, decision, candidates; a chart that grows bar by bar |
| `Setups` | the entry conditions of the setups, live and tested, and the ranking |
| `BackTest` | the walk over a tape, pending entries and ladders, simulated exits, the daily bias |
| `Placement` | the layout of a ladder and the check of its orders while it fills |
| `Thesis` | signals against a position, its verdict and its trail |
| `PerceptionProofs` | three theorems about `Perception`, for every chart: its types, what a proposal rests on, and that a chart upside down is read the other way round |
| `ToolsProofs` | eight theorems about `Setups`, `Thesis`, `Placement`, `BackTest` and their composition `MCDesk`, for every input |
| `Induction` | what the proofs need of recursion, folds and sums: a recursive function exists, a fold carries an invariant |
| `MCDesk` | one small instance of each of `JournalStore` to `Thesis` that has no MC module of its own |

`Perception` extends `Zones` and `Candles`, which extend `Structure`. `MCDesk` and `MCHandled` compose by
choice: a behaviour is of one part and the others rest, so the parts share a run and not their states.

### EntryRadar

The state is that of the program. `watch` is the file; `arming` the copy a running `arm`
command holds between its read and its write; `pc`, `snap`, `todo`, `cur`, `mine` and `tickNow`
are the locals of each tick; `brackets` are the orders on the exchange, each with the life of its
entry and whether its stop and targets were accepted; `journal` the brackets logged. Two history
variables serve the properties only: `disturbed`, which kinds of disturbance have happened, and
`settled`, the intentions some tick posted, dropped or let expire.

A tick is one action per point where another actor may come between: `ReadWatch` (read and prune), `Plan` (the
account lookup and `planRadar`), `PreflightOK` and `PreflightKO`, `PlaceEntry`, `PlaceSL` and `PlaceTP` (the
three kinds of order of `bybit_place_limit_bracket`, in its order), `PlaceDry` (the answer of a dry run),
`PlaceRefused` (nothing reached the exchange), `PlaceBroken` (something did, and the call throws), `LogTrade`
and `LogFails`, `TruncateWatch` and `WriteWatch` (`writeFileSync` opens the file, which empties it, and then
writes). `Crash` is the scheduler's kill. `ArmRead`, `ArmTruncate` and `ArmWrite` are `journal.js arm`, `ArmCrash`
its kill. A reader that meets an emptied or torn file finds an empty watch (`readWatch`), and two writes that
overlap may leave a file that is no JSON (`Written`).

Abstracted: the levels of an intention are the number of the command that wrote them; the verdict
of the candles is a free choice (the mean-reversion family needs none, `Immediate`); of the guards
only the quota is exact, the others may refuse at any time; order of the intentions in the file is
any order; a torn file is an empty one, since every reader takes it for that. TradingView alerts label a decision and never change it (`entry-radar.js:55`), so they
are left out. The whole exploration is one day, so the quota has no reset.

### Reconcile

The exchange is `life`, `avg`, `left`, `legs` (stop and targets, all conditional orders), `exits`,
`visible` (the rows the exchange still lists) and `day`. The journal is a sequence of lines. A pass
has a program counter, its three snapshots `rows`, `positions`, `orders`, the `lines` it has still
to look at and the groups and positions already given away (`usedG`, `usedP`, `handled`). The
history variables are `calm`, the passes begun since something last moved, and `raced`, whether any
pass was ever disturbed: something moved during it, a fetch failed, it began while a placed trade
was not logged yet, or rows were forgotten uncounted.

The actions of a pass follow the code: `FetchRows`, `FetchPositions`, `FetchOrders`; for each line
one of `PrePassNothing`, `PrePassOpen`, `PrePassFlat`, first over the ladders and then (`StartScaleOut`) over
the other lines; then `StartMainLoop` and for each line one of `MainSkips`, `MainOpens`, `MainCloses`,
`MainCancels`; then `OrphanGroup` and `OrphanPosition` until none is left; then `EndPass`, which cancels.
`Dies` is a kill between two steps, or the end of a pass that `Throws`: a pre-pass comes to a child that it
has itself dropped, and `cmd_set` does not find it.
What one line of the journal causes is one step. `SyncLine` is `journal.js sync`, which closes active lines
that have rows whatever a pass is doing.

A ladder (`Ladders`) enters by two rungs: its second rung rests while the first is open, may fill later and
move the average (`FillSecond`), or rest on after all has exited (`life` "between"). A line of a ladder reaches
every group and position of its envelope, from its entry to its stop and a little more (`InEnvelope`); another
line reaches what is near its entry.

The account has one position per pair. A second entry of a pair fills into the position that is there (`Merge`):
`life` "shared" for the trade whose position it is, "merged" for the other, and the average entry moves. `Forget`
is the exchange's list of a week: its oldest row goes, whether the position it came from is closed or still open.

Prices are numbers of cents and the tolerances are the code's, so that near and far levels are
distinguished exactly as they are there. The PnL of a line is the set of exits it counts: two sums
agree only when they count the same exits.

Left out: the status file, hedge mode (a pair is a symbol whose trades all take one side), the setting
`RECONCILE_AUTOCANCEL=0`, the arithmetic of `defrag`, and writes of other processes to `trades.jsonl` between
`load` and `saveAll` of one command (`JournalStore`).

### MonitorTick

The account is one open long position (a short is the mirror image): `size`, how many `stops` there
are at each level of a price grid, how many orders `tps` each target has, the trailing stop `trail`.
`px` walks by one level. The line of the journal is `taken` (`tp_taken`) and `managed`
(`monitor_managed`). Each tick has `looked` (what it read first) and then `todo`, the calls it will
make; the routine has a `todo` too. `stage`, `found` and `held` are the locals of the call being made.
`floor`, `units`, `cuts` and `disturbed` are history.

`Look` reads the position and its line; `Decide` reads the conditional orders and turns all it has read
into the list of calls (`Plan`: break-even, then the targets, then saving those banked, then the
action of the plan). That list is fixed there because the code computes it there: later calls do not
look again, except for what each reads itself. The calls are then split at every order:
`FindStops`, `CancelStops`, `CreateStop` are `bybit_move_sl`; `FindStops`, `CancelStops`, `SetTrailing`
are `bybit_set_trailing_stop`; `ReadSize`, `SellPart` are `bybit_take_partial`; `CallThrows` is their
early throw; `Bank`, `Repost`, `Save`, `SaveTag` are the tick's own. `Kill` is the scheduler's limit of ten
minutes. `Managing` is `monitor-manage.ps1`; a tick outside it is `monitor-tick.ps1`.

Abstracted: the verdict on the thesis is a free choice of `Verdicts`; whether the exchange lists a trailing stop
as a conditional order is free; the size in the journal is the size at the fill; a market order fills
at once and whole; the routine only raises a stop. `monitor-state.json` only feeds alerts and is left out.

### JournalStore and TradeLog

`file` is `trades.jsonl`, as a set of lines: no command depends on their order, which is that of the
trades they record. A line has its id (the name asked for and the letter appended), its `trade` (the number
of the command that logged it, so that two lines of one id are told apart), its `status`, `by` (the command
that set that status) and `marks`, the commands that noted something on it (a snapshot of the timeline, a
target banked, a one-shot action done). A command is two or three steps: `Log`, `Set`, `Close`, `Note`,
`Drop`, `SyncClose` read the file and compute `copy`, what they will write; `Truncate` is the first half of
`saveAll` (`writeFileSync` opens the file, which empties it) and `Write` the second. `SyncList` is the list
a `sync` makes before it awaits the exchange; its closes use that list later, and `SyncThrows` ends it when
a trade has gone. Two processes that write at once overlay their copies: the shorter one leaves the end of
the longer. `KillLoaded` and `KillSaving` are the scheduler's kill before and during `saveAll`; the second
leaves the lines already written.

The history variables say what the properties are about: `effect`, what a command is recording; `alone`,
whether another ran beside it; `safe`, what was recorded by commands that ran alone; `removed`, the trades
whose fragment was taken away; `disturbed`, whether commands overlapped, writes or reads met a write
(`torn`), or one was killed while it wrote.

`TradeLog` has one variable, `book`, and three atomic steps: a new line under an id that no line bears, changes
that keep the identity of lines and what was noted on them, the removal of fragments. `ImplementsTradeLog`
states that `JournalStore` implements it as long as nothing is disturbed, under the mapping `Book`: the journal is
what is being written, or else the file, so a command commits when it truncates.

Abstracted: the contents of a line but for the above; `no_trade` lines, which nothing changes later; commands
that only read. A read during a write finds the file empty. A fragment may be asked for although it is there,
since `reconcile` looks for it in an earlier read.

### AlertQueue

`queue` is `tv-alerts.jsonl`, each line an id and the source that wrote it: one start of the listener, which
knows what it queued from memory (`seen`), or the signal tick, which reads the queue (`ScanBar`) before it
appends (`AppendSignals`, or the kill `AppendSignalsFails` in the midst of it). `Post`, `PostDuplicate` and
`Restart` are the listener. A reader reads on from `offset` (`ReadNewAlerts`), empties the offset file and
writes it (`EmptyOffset`, `SaveOffset`, `SaveOffsetFails`) and wakes what it holds (`WakeSetups`); readers
overlap and are killed. An empty offset file reads as 0, so that lines are read again. History: which alerts
were answered (`acked`), which an append lost after it had been remembered (`dropped`), which lines were
heard, or died in the hands of a reader killed after it had saved (`wasted`).

### SignalInbox

A file is named by a second and a market, and `inbox` maps names to signals, so that two signals of one name
overwrite each other as they do there. `CreateFile` and `FinishFile` are the two halves of the webhook's write;
the executor's cycle is `ListInbox` (the first names in order), then for each `ReadFile` (route it, or find half
a file), `Close`, or `MarketEntry`, `PollPosition`, `AttachStop`, `AttachTargets`: the calls of
`bybit_place_bracket_scaled` in their order, each of which may fail or lose its answer; then `WriteOutcome` and
`RemoveFile`, or `ArchiveFails`, which leaves the file. `KillExecutor` is a crash between any two. The history
`spoiled`, `retried`, `stuck` names the signals whose file was overwritten or read half, was in hand at a
kill, could not be moved.

### RiskDesk

Two processes each take an order through `Size`, `PreflightAllows` or `Abandon`, `Place`, `LogOrder` or
`LogMissed`, and `RiskOpens`, `RiskWrites`, `RiskKilled` are `journal.js risk`, which empties `equity.json`
before it writes it. Positions exit, the balance moves, days pass. Sizing has its scales (edge, drawdown), its
clamps and its leverage, in basis points; every guard of `runGuards` has its condition, with the flaws of an
order (no stop, a stop too near, a closed session, a poor reward) as kinds; `Relaxed` is the demo mode.
Left out: rounding to the exchange's digits.

### Structure, Zones, Candles, Perception

A chart is a sequence of candles over a price grid; `ChartNext` closes a bar, and a last bar that is still
forming goes on changing. `Structure` has swings, trend, breaks and `freshStructureVerdict`; `Zones` the
bands of supports and resistances, order blocks, gaps, equal highs and lows, the average price and the bins of
most and least volume, and the extremes of the day before, with their status and confluence, cut to the nearest
`MaxZones`; `Candles` the patterns, the confirmation in a zone (`candles.js`) and the
radar's confirmation of an armed level (`confirm.js`);
`Perception` the score of both sides, the decision and the candidate of the scan. They are operators, checked
against each other (a side against its mirror image, a proposal against what it rests on) on every chart of the
bound. Volume itself is left out: the three prices that `zones.js` derives from it are given (`Volumes`), any of the
chart, as if it had been traded so. `BuildZones` is the set of the lists that may come out, since zones at one
distance are cut in the order they were found in, which the model does not keep; two zones that agree in all that
is read of them are one. Left out: the order flow and the weekly chart.

### Setups and BackTest

A reading holds the indicators both programs compute from the same bars, and `Move` changes one of them.
`Live` is `scan.js`, `Tested` is `optimize.js`, `Weighed` the ranking by the edge that the tests gave. `Detect`
is one step of the back-test's walk: process the pending entries of every kind (limit, retrace, reclaim,
confirmation, ladder), signal at the close, register new ones, under the cooldown. `Sim` is the exit with stop,
target, break-even and trail; `DBull` the daily bias as it is mapped onto the bars. Statistics are left out.

### Placement and Thesis

`BuildPlacement` lays out rungs, stop and targets for a `request`; from there the market moves and fills rungs,
the stop is trailed and a stop order disappears (`MarketMoves`, `Trail`, `StopGone`), and `Critical` is what
`verifyBracket` makes of the orders it finds, typed by their direction or by their price (`view`), as
`journal.js verify-bracket` calls it: with the size of the ladder and without its entry mode. Each rung has
its own stop order, all at one level. A request may lack a swing (`NoSwing`); `isFinite(null)` then makes it a swing at
price 0, as `placement.js:97` does.

`Thesis` turns one field of the scan's row at a time (`Turn`) and evaluates `Verdict`, `TrailGuidance`,
`TightenAlert` of a position.

## 3. The runs

All runs of a module share its specification; a run differs by its constants. Deadlock is not
checked: the bounds on clocks, commands, trades, bars and lines let the system stop, and a closed position
has nothing left to do.

| Run | Instance | Shows |
|---|---|---|
| `radar_solo` | one tick at a time, two keys, two commands, two brackets, kills of ticks and commands (also while they write), broken placements, failed logs, strict guards, quota 1 | idempotence, the quota, expiry, no lost update but by a write that is torn |
| `radar_race` | two ticks, a dry run and the command at once, one key | what survives overlap: one intention per key, every bracket with its stop and in the journal |
| `reconcile_both` | one logged trade of two targets with a scale-in, failing fetches and passes for ever; a ladder of two rungs with kills and syncs; a logged and a manual trade of one pair, which may share its position, with kills, and such a pair whose rows age out | an id names one line (`OneLinePerId`); after a quiet pass the journal is the exchange (`Aligned`, `Mirrored`), exits are not mixed or counted twice (`KeptApart`), what a line counted stays counted (`HistoryKept`), but for lines opened again and rows that age out before later ones of their trade, a pass over the same view changes nothing in a journal of trades' own lines (`Idempotent`) |
| `monitor_managed` | a managing tick and the routine, size 3, kills, failing fetches | the safety and action properties of stops, targets and one-shot partial profits |
| `monitor_live` | the same tick for ever, size 2, a time-stop, orders refused, answers lost, cancellations and candles failing, `FairSpec` | a naked position, a missing target, an old position are looked after |
| `handled` | the inbox with two markets, four kinds of signal, kills and failing moves; the radar with a tick and a dry run; a trade of three targets with passes for ever and failing fetches of orders | a signal acts once and in order, an executed one has its stop or the warning that it has none (`StopOrWarning`); in the end every signal gets its outcome, every intention leaves its file and every exit is counted or forgotten |
| `desk_tools` | each tool of `MCDesk` | ids stay unique, overlap loses only what the overlapping commands record and without it the commands implement `TradeLog`; alerts are queued once per source and read; risk and quota stay within their limits but for what is between a preflight and its log, and the breaker lets at most one cleared order pass; both sides of a chart are read alike and a proposal is backed; live setups were tested and validated ones come first; simulated fills could have happened; a ladder is laid out as validated, what is not covered raises the alarm, and of a full ladder nothing else does; a verdict only escalates |

Runs that violate what a comment of the code says (the traces are explained in PROJECT.json
"findings"):

| Run | The claim | What the code does |
|---|---|---|
| `radar_duplicate` | no-duplicate, `entry-radar.js:12` and `:101` | the client of the lookup has no keys, so a live bracket is never seen |
| `reconcile_partial` | "agrege en UN trade", `journal.js:983` | the child of a scale-out stays and counts twice |
| `monitor_taken` | "IDEMPOTENT", `monitor.js:264` | a target that was posted and filled is banked again |
| `structure_silent` | a break against the position makes it weakening, `journal.js:1421` | the bar of the break is dropped, so the verdict never changes |
| `backtest_hindsight` | "sans lookahead", `optimize.js:671` and `:679` | the daily bar picked is that of the same day, which has not closed |

The models show more disagreements between comments and code than there are runs for. They are
why the properties above have conditions (`Undisturbed`, `raced`, the tolerances), and each is a
short trace of the same modules:

- The account is read once per tick and nothing that the tick posts is added to it, so two setups of one symbol and
  side are both posted, even by a client that sees the account (`entry-radar.js:198`; `:46`, "no-duplicate").
- A refused stop rethrows and leaves the entry: "jamais de position nue" (`skills/bybit/index.js:356`)
  holds only if nothing fails after the entry.
- An intention armed while a tick is between its read and its write is dropped
  (`entry-radar.js:247`; `journal.js:1575` promises the radar will confirm it).
- A tick or a command killed between the truncation of `armed-watch.json` and its write leaves a torn file,
  which is read as an empty watch: every intention is lost (`armed-watch.js:119`, `:115`).
- A dry run consumes the intention it does not post (`entry-radar.js:236`;
  `routines/entry-radar.ps1:7`, "observation sans poser").
- An entry that fills between the fetch of positions and that of orders is in neither: its line is
  cancelled (`journal.js:1073`; `:494`, "annules AVANT fill").
- A manual trade scaled in between exits leaves two orphan lines, and the next pass counts the
  exits of the second in the first too (`journal.js:1081`).
- A scale-in beyond both tolerances makes the position unrecognisable: its line is cancelled and an
  orphan created (`journal.js:1033`).
- Two trades of one pair less than 0.5% apart are one trade for `claimScaleOutFills`
  (`reconcile-match.js:174`; `:155` says they are told apart).
- A bracket placed and not logged yet is swept by a pass (`journal.js:1112`; `:1107`, "tous SURS a
  annuler").
- The stop and targets that outlive a trade are conditional orders, which the plain cancel-all of the
  pass does not reach (`journal.js:1112`, `skills/bybit/index.js:469`).
- Rows age out one by one, and a pass writes a closed line again from those that are left, so that what was forgotten
  is in no line any more (`journal.js:1048`; `:1126`, "le journal les garde").
- A partial exit that ages out while its position is open leaves the child, which the next pass computes again from
  the rows that are left, or drops when they close the trade (`journal.js:948`, `:1017`, `:1025`; `:956`, "son PnL
  survit dans le child partiel").
- A second entry of a pair fills into the position of the first and moves its average; beyond the tolerances neither
  line is recognised any more (`journal.js:1033`).
- A closed line near the level of a new position is reopened, and its realised PnL is lost once the
  exchange forgets the rows (`journal.js:1033`; `:1139`, "le journal conserve").
- A pre-pass walks over lines read before its own deletions: a child that it has dropped may be engaged by the
  groups or the position of a near trade, then `cmd_set` throws "trade not found" and the pass dies halfway, its
  orphans unwritten (`journal.js:986`, `:1025`, `:369`; `:985`, "Idempotent (recompute)").
- A pass killed after it wrote a child line leaves a line that a later pass takes for a trade
  (`journal.js:1049`).
- The task that is to be alert-only posts and banks targets, since `MONITOR_TICK_AUTO_TP` is on unless it
  is set to 0 (`journal.js:1469`; `routines/monitor-tick.ps1:4`, `routines/register-tasks.ps1:67`, "AUCUN ordre
  place").
- A stop is loosened when the fetch of conditional orders fails, since the position then looks naked and
  the planned stop is placed instead of a better one (`journal.js:1380`; `monitor-exec.js:9`,
  "JAMAIS [...] ELARGIR un SL"); the same happens when a tick and the routine overlap.
- The tag of a one-shot action is recorded although its order was refused (`journal.js:1530`).
- A stop at the entry is not found by the next move (`skills/bybit/index.js:379`), so each tick adds a
  break-even stop, up to the limit of the exchange; targets are refused from then on.
- A trailing stop replaces the static one at once but starts at the price of the look
  (`monitor-exec.js:70`): below it the position has neither.
- Of two commands that overlap, the one that reads first and writes last erases what the other logged, noted
  or closed (`journal.js:121`, "ne jamais ecraser ni jeter un log").
- A kill during `saveAll` leaves a part of the file, and `load` skips a cut line and says nothing of those that
  are missing (`journal.js:29`, "une ligne corrompue").
- With a manual trade of the same pair, a pass is not idempotent: of two orphan lines of one cycle the first
  claims the rows of the second in the next pass (`journal.js:1081`).
- A bracket whose position is not seen in time is archived with `executed: true` and has no stop
  (`signal_executor.js:95`, `skills/bybit/index.js:263`; `signal_executor.js:11`, "SL is mandatory").
- Two signals of one second and ticker are one file (the second replaces the first), and what is archived for the
  newer may be the outcome of the older. A file that cannot be moved is handled again, after later ones; one in
  hand at a kill is handled twice.
- An alert is remembered before it is appended (`tv-listener.js:43`): if the append fails, TradingView's repeat is
  answered as a duplicate.
- The caps of risk bind only outside the demo, and the demo is how it is deployed. An `equity.json` that cannot be
  read makes exposure and breaker allow everything (`journal.js:544`), and a torn one makes `risk` throw at
  every later call (`journal.js:781`).
- `verify-bracket` does not hand on the entry mode (`journal.js:1349`), so the branch of `bracket-check.js:64`
  for ladders is never taken and a partly filled ladder, well protected, is called critical (`:60`, "n'est donc PAS un
  oversize").
- Without a swing `isFinite(null)` makes one at price 0, and a long gets a stop below zero (`placement.js:97`; `:93`,
  "au-délà du rung le PLUS LOIN").
- The last rung may be nearer than 0.3 ATR to the first, and when the only target asked for is within 0.15 ATR
  of the entry `tpMain` lies on the losing side (`placement.js`).
- With the stop at the entry the result in units of risk is unknown, and a winner is judged as a loser
  (`thesis.js`); cycle lows are watched for shorts only.
- The scan gives perception candidates "up", "down" and "range" and tests for "bull" and "bear" (`scan.js:593`; its
  comment at `:583`).
- The bonus for confluence counts at any distance from the zone (`candles.js:78`; `:5` says "dans une zone").
- Of bins of equal volume the lowest is taken (`zones.js:101`), and of zones at one distance those found first are
  kept (`:151`): a chart upside down may show other zones.
- Of two wicks that qualify, the lower is taken first (`candles.js:52`); invalidated gaps remain zones; every
  support or resistance is a "flip", since `g.mid` is not defined (`zones.js:66`).
- The swing before a break need not be confirmed before it (`structure.js:88`), so that a break may appear and
  go away as bars are added. The scans read the bar that is still forming.
- `confirmZone` may confirm after the last close has gone back beyond the level.
- The trail of the trending exit is never applied (`exit-research.js:78`). A pending entry that is hit during the
  cooldown is consumed without a signal; a stop touched between the fill and the end of a ladder's window is
  not looked at. Some setups are tested under other conditions than they are proposed (S1 to S4, S7), which is
  why `LiveIsTested` names them.

### The bounds

`MaxTime`, `MaxArms`, `MaxBrackets` of `EntryRadar`: the shortest duplicate needs one intention and two
brackets, a lost update one command during one tick, an expiry one hour of lifetime and a clock that goes past
it; two of each let every pair of actors interleave and each happen before or after the expiry. `radar_race`
stops the clock at 1, when the first intention expires, and does not tell its two live ticks apart (symmetry);
its dry run is a third process. The quota is 1 so that two brackets exceed it. In `Reconcile` one trade has
two targets so that it can be open with an exit already made; two exits at two average prices (one scale-in)
make two groups; `MaxDay` 1 is one day more than the six-hour tolerance, and lets the exchange forget the rows of the first day, one
by one, in every order with exits, scale-ins and passes. In `handled` the trade has three targets and no scale-in, so
that its child is written and brought up to date before it is flat. The
levels are 300 dollars and 0.8% above, beyond the 0.5% of `claimScaleOutFills` and the 0.15% or one dollar of
`matchPx`; `AddUp` 40 cents stays within `matchPx`. In `MonitorTick` the grid has the planned stop, a level
for the routine's stop, the entry, break-even and the target, one level each; size 3 lets a half be sold, a
target be taken and something be left, so that a repeated partial profit shows; `MaxOrders` 3, for the
exchange's ten, is reached by a target and two break-even stops. In the journal part of `desk_tools` losing
something that was safe takes one command to record it and two that overlap; two letters are enough for the
ids of three commands under two names.

The other parts:

| Part | Bound | Why it is enough |
|---|---|---|
| ladder | two rungs 4% apart, one exit each | the average lies beyond every tolerance but the envelope; the second rung may fill before, after or never |
| inbox | 2 markets, 2 signals, 2 seconds, 2 files per cycle, 1 fault | two signals may share a name, a second, a market or none; a cycle holds both |
| radar of `handled` | a tick and a dry run, one intention | a dry run writes a stale copy back; two intentions are in `radar_solo` |
| queue | 2 lines, 1 restart, 1 kill, 2 readers | a line after the saved offset, one before it, and a reader that overtakes the other |
| caps, halt | 3 orders of both sides; 2 longs while the balance goes from 100 to 94 and back | two cleared orders pass a cap together and a third meets them; 6% is beyond the daily loss and a later `risk` finds it gone |
| chart | prices 0 to 8, 6 shapes of candle, up to 6 bars, swings of one bar, two profiles of volume, 8 zones kept of the code's 14 | a swing on each side, its break and one bar after it; perception takes six bars at least; the list is cut cleanly, cut at a tie or not cut, and the cut of 14 would hardly be met by so few bars |
| setups | up to 4 indicators moved from two quiet readings, a value on each side of every threshold | every condition has at most 4 that the quiet readings do not satisfy |
| tape | 5 candles of 9, windows of 1 to 3 bars | displacement, gap, hit, exit; the cooldown ends within the tape |
| ladder layout | 3 rungs, 4 lists of levels and targets on each side, with a swing and without, 6 moves | levels too near, out of order, on the wrong side; each rung filled or not when a stop goes |
| thesis | up to 3 indicators turned | two make the verdict broken, a third may hide one |

### Fairness

`EntryRadar`: the task scheduler starts ticks for ever and a process that has started runs on, so
each tick's steps, those of a started arm command and the clock are weakly fair. Nothing is
assumed of the market, the routine, or kills: the run with fairness has no kill, because a tick
killed each time it starts never writes, and the property then has no reason to hold.
Passes of `Reconcile` keep being run and each step of a pass is weakly fair as a whole. `MonitorTick`: ticks
are started for ever and a started call goes on; nothing is assumed of the price, and a tick that is killed
each time promises nothing (the run with fairness has no kill). In all, the
disjunction of a process's steps is fair, never one branch of it: a failing call may fail for ever.
`SignalInbox`: the executor polls for ever and a write that the webhook began ends; its faults are bounded,
since a file whose move always fails is never archived. In `MCHandled` the radar part has the fairness of
`EntryRadar`, and no kills. `desk_tools` states safety only.

## 4. The proofs

`EntryRadarProofs` proves, for any sets of keys and ticks, any faults and any bounds, with the
assumptions `ConstantsAssumption` and `NoSetupAssumption` only:

| Theorem | Property |
|---|---|
| `Types` | `TypeOK` |
| `OneIntention` | `OneIntentionPerKey` |
| `StopAlways` | `StopUnlessDisturbed` |
| `Journalled` | `JournalledUnlessDisturbed` |
| `NothingExpiredIsPosted` | `NeverPostsExpired` |
| `Idempotence` | `IdempotentUnlessDisturbed` |
| `Quota` | `QuotaUnlessDisturbed` |
| `NothingLost` | `NoLostUpdate` |
| `Inductive` | `[]IndInv`, the inductive invariant the last three follow from |

The argument. None of the last three properties is inductive: whether a tick may post an intention
twice depends on where copies of it are. `IndInv` therefore says, besides types (`Typed`): every copy
of the file has one intention per key (`OnePerKey`); what a tick still has to post had not expired
when it started (`Fresh`); a copy bears numbers of commands that have run, ids are unique in a copy,
and a running command bears a number its copy does not have (`Numbered`); what a tick has to do is in
its own copy (`InCopy`); without overlap only one process works, its copy is the file less what it
settled, a command's copy is the file, and a file that is being written is empty (`Alone`); without overlap, kill and broken placement no
intention of the file or of a copy has a bracket, except the one being placed (`Once`); and in strict
mode the brackets are those of the journal plus at most the one in hand (`Room`). Each part has its
lemma (`TypedNext`, `OnePerKeyNext`, ...), with a step per action. `NoLostUpdate` speaks of what the file holds or,
once it is emptied, is going to hold (`Stored`), and of every kill but the one that tears it.

`StoresProofs` proves of `JournalStore`, for any processes, ids, suffixes, commands and faults:

| Theorem | Property |
|---|---|
| `Types` | `TypeOK` |
| `OneLine` | `OneLinePerId` |
| `NothingSafeIsLost` | `SafeStays` |
| `Implements` | `ImplementsTradeLog` |

The argument. `Computes` says once what every command makes of the lines it has read: the ids stay unique, what
the file holds of a trade the copy holds too (or the trade was taken away), what the command records is in it,
and it is one step of `TradeLog` away from the file (`OneStep`). `LogComputes`, `ChangeComputes` and
`DropComputes` show it, `CommandSteps` collects them, and the rest of the proof no longer knows the commands.
`OneSaver` (an untorn file is empty while it is written) makes `Book` well-defined and is what
`OneLinePerId` needs to be inductive. For the refinement, `Atomic` adds that an undisturbed command is the only
one and that its copy is one step from the file, so that the step is taken at `Truncate` and every other step
stutters. For `SafeStays`, `Kept` adds that what is safe is also in every copy that may still replace the file:
`Alone` (a command that is alone is the only one) gives it when a record becomes safe, `Computes` each time
a command reads.

Of `AlertQueue` it proves, for any ids, readers, restarts and kills, `QueueTypes` (`QueueTypeOK`),
`QueueInductive` and `AlertsAreKept` (`AlertsKept`). `AlertsKept` says that what was answered is queued, that
no line below the offset is uncovered (`Covered`: heard, wasted, or held by a tick that has saved), and that
each source queues an id once. It is not inductive: `QueueInv` adds what each source remembers of the lines it
wrote (`MemoryHolds`: a start of the listener has seen its own ids, an append of the signal tick carries none
it already wrote) and that a reader about to save an offset holds every line below it that nothing covers yet
(`HandsFull`).

`SignalInboxProofs` proves, for any markets, bounds and faults:

| Theorem | Property |
|---|---|
| `InboxTypes` | `InboxTypeOK` |
| `ExecutedIsToldApart` | `StopOrWarning` |
| `SignalsActOnce` | `ActsOnce`, the first half of `SignalsOnceInOrder` |
| `SignalsInOrder` | `SignalsOnceInOrder` |

The argument: the batch is a list of different files of the inbox and the executor works on its head
(`BatchHolds`, part of `Shape`); a signal has one file at most, and that of the signal in hand is the head's
(`FilesHold`); so a signal that acted has no file, unless it is in hand or excused (`OrdersHold`). The stop
needs only that the outcome "executed" is reached through an accepted stop (`StopHolds`); the outcome "unseen" is
archived as executed as well, without one, and only its result tells the two apart. The order of one
market is harder, since a directory is read while the webhook writes into it: `OrderInv` adds that the names
of a market follow the numbers of its signals (`NamesHold`), that an older file of a market is before a
younger one in the batch, or stuck (`BatchOrder`), and that a signal that a younger one has overtaken has no
file any more, unless it is stuck or has acted too (`LaterHolds`).

`MonitorTickProofs` proves, for any grid of prices, entry, targets, size, processes, verdicts and faults that
satisfy `ConstantsAssumption`:

| Theorem | Property |
|---|---|
| `MonitorTypes` | `TypeOK` |
| `MonitorKeepsStop` | `StopUnlessDisturbed` |
| `MonitorNeverLoosens` | `NeverLoosened` |
| `MonitorOneShotOnce` | `OneShotOnce` |
| `MonitorBankedOnce` | `BankedOnce` |
| `MonitorInvariant` | `[]Inv`, the inductive invariant they follow from |

The argument. A tick decides from a look at the account and then makes its calls one after the other, so every
property is about what the rest of a list may still do. `Orderly` says which process may have which calls and
that, without overlap, only one works. `Tightening` says that a move still to be made goes to a level at least
as high as the highest stop there has been, unless a stop that high is `Anchored` at or above the entry, where
no call finds it to cancel it. `OneShotLists` says that a list sells one part at most and that its tag comes
last; `SoldOnce` that what was sold is recorded or will be by the list in hand, and `TagStands` the converse,
that a tag stands for a sale made or still to come. `TargetsApart` says that each target is banked, posted, or
in one list, once. Each part is preserved under its own condition (`Undisturbed` of other faults), which is
why they are separate conjuncts and not one.

Of `RiskDesk` `StoresProofs` proves, for any desks, balances, budgets, caps, edges and flaws that satisfy `RiskAssumption`:

| Theorem | Property |
|---|---|
| `RiskDeskTypes` | `RiskTypeOK` |
| `DeskWithinLimits` | `WithinLimits` |
| `DeskHaltStops` | `HaltStops` |
| `RiskDeskInvariant` | `[]DeskInv`, the inductive invariant they follow from |

The argument. Nothing reserves a place in the quota or under a cap between a preflight and the log of its
order, so `DeskInv` counts what is under way. `Orders`: an order is on one desk, in the book, or in both while
it is placed and not logged, and its budget stays within what sizing may give (`ComputeSizeBounds`, over every
balance, edge and distance). `QuotaHolds`: the lines of the day and the desks that are cleared or have placed
are together at most the quota and one order for each other desk. `CapsHold`: what is on the exchange, with a
full budget for every cleared order, is at most the cap of the highest equity known and a budget for every
desk and every hidden order. `HaltHolds`: who placed since a breach has nothing cleared and nothing clears
while it stands. The sums are `SumFunctionOnSet`, with the lemmas of `Induction`.

`ToolsProofs` proves of the tools that compute and keep nothing, for every value of their inputs:

| Theorem | Property |
|---|---|
| `ScanIsSound` | `ScanSound` |
| `VerdictOnlyEscalates` | `OnlyEscalates` |
| `LaddersAreSound` | `LadderSound` |
| `BackTestIsHonest` | `BackTestHonest` |
| `BackTestInvariant` | `[]BackTestInv`, the inductive invariant it follows from |
| `BackTestTypes` | `BackTestTypeOK` |
| `DeskIsItsParts` | `DeskSpec` implies the specification of each of the eight tools |
| `DeskTypes` | `DeskTypeOK` |

A setup proposed live was tested under the conditions `LiveIsTested` names, and validated setups come first:
`Scores` says of each setup what its score and its conditions imply, and both follow setup by setup. An indicator
that turns against a position makes the verdict no milder and the trail no looser, because every signal of the
verdict is monotone in an order of rows (`NoMilder`). For the ladder, `LevelsAre` goes along
the recursive function of the rungs, `TopIs` and `StopIs` put the stop beyond every rung, `StopsFit` counts the
orders. `LadderInv` adds that the market stays between the first target and the stop; then a found order is
typed as a stop exactly when it is one, and the sizes of the stops found are the units covered (`QuantityIsUnits`).
Stops that cover less than what has filled are then always called out (`AlarmHolds`); that more is called out too
while the ladder fills is one of the disagreements of section 3.
The assumptions name what the tools are given: a ladder of at most three rungs (`PlacementAssumption`; four
would need more than ten stop orders, of which `placement.js:157` warns), and an exchange that tells the direction
of its orders or a market price (without both the code falls back on the entry, which a trailed stop deceives).
`DeskIsItsParts` is what carries the theorems about single tools over to the run that explores them together:
each step of the desk is a step of one tool and leaves the variables of the others as they are.

For every tape, cooldown, window and exit that satisfy `BackTestAssumption`, the back-test is honest: a variant
fills after the bar that signalled it and inside the window of its own kind (`WindowOf`), at a price of its own kind
(`PriceIsHonest`: `HonestLimit`, `HonestAtClose`, `HonestLadder`, `HonestBounce`): a limit at a price its bar trades
at, in a gap inside the gap, a reversal at the close of its bar, a ladder at a price that has traded since its
signal and lies between the close of the signal and the last rung; two signals of a setup are a cooldown apart; and a simulated trade loses at most the
distance to its first stop and gains at most its target. The argument: `BackTestInv` says what each pending
may be, by its kind (`PendingOK`), and what a pushed signal is (`SignalsOK`). The pendings of a bar are
processed by a fold that pushes while it filters, and the pushes of a bar are another: `FoldExists` gives each
and carries its invariant (`WalkOK`). The stop of a simulated trade is a recursive function of the bars since
the entry: `RecursionExists` gives it, `AlongInduction` its bounds (`StopsWithin`). `Detect` may be reasoned
about only if prices are numbers and an open or a close lies between the low and the high: that is the
assumption on `Candles`.

`PerceptionProofs` proves, for every chart of bars of the grid (`PerceptionAssumption`), any day before, any prices
of its volume and any number of zones kept:

| Theorem | Property |
|---|---|
| `ProposalsAreBacked` | `ProposalIsBacked` |
| `ChartTypes` | `ChartTypeOK` |
| `SidesAreAlike` | `MirrorImage` |

A proposal has something to rest on: every zone of a chart is a band with the bottom below the top
(`ZonesAreOK`), so a location score that is high enough without a near zone of the side counts five kinds of zone
(`LocationMeans`, `Crowd`). The types say that a score never leaves its scale, although the four parts of it are
capped one by one (`SideRange`).

`SidesAreAlike` follows two charts through the whole reading. They are mirror images bar by bar (`Mirrors`), which
is symmetric, so that it is enough to carry each thing that is found on one over to the other. Swings exchange
highs and lows (`SwingsTurn`). The breaks are a recursive function of the bars on both charts: `ScanIs` gives the
two and `AfterTurns` carries `ScansOpposed` along them (`BreaksTurn`). Every kind of zone is found on the image at
the mirrored band with the opposite side (`GapsTurn`, `BlocksTurn`, `LevelsTurn`, `EqualsTurn`, `DayTurns`, `VolumeTurns`), and what is
computed of all zones together, touches, strength, distance and crowd, agrees (`FinishedTurns`), so the zones of
the image are the images of the zones (`ZonesTurn`). Of both there are as many (`AsMany`), so the list is cut at the same
distance (`CutTurns`), and cut between two distances it is the only one that may come out (`CutCleanly`). Of the eleven patterns of candles two are never shown at once
with different directions but for a bar with two dominant wicks, hence the first one shown is the image of the
first one shown (`DetectTurns`). From there the four parts of the score change sides one by one (`ScoreTurns`) and with
them the decision and the candidate.

Four kinds of chart are excluded, and the property names them: in each the code takes the first of two things
that are worth the same. A last bar with two dominant wicks reads long (`candles.js:53`); a bar that closes
beyond both last swings breaks upwards (`structure.js:101`); of two zones of equal points at the same
distance the first in the list gives its crowd to the score (`confluence.js:56`); and of several zones at the
distance where the list is cut the first ones stay (`zones.js:151`). The third came out of the proof: the run on
the small charts had passed without it. A fifth lies in what is given: the prices of the volume are turned with
the chart, while of two bins of equal volume `zones.js:101` takes the lower one on both.

`ReconcileProofs` proves, for any trades, pairs, levels, ladders, faults and clock:

| Theorem | Property |
|---|---|
| `ReconcileTypes` | `TypeOK` |
| `LinesHaveTheirIds` | `OneLinePerId` |
| `MainLoopFindsItsLines` | `MainLoopFinds`: the lines the main loop has still to look at are in the file |
| `NetsStayOnTheirPair` | `NetsOnPair`: a line counts exits of trades of its own pair only |
| `ReconcileInvariant` | `[]RecInv`, the inductive invariant the first three follow from |

The argument: `RecInv` says of the exchange that an open position has a unit left (`MarketHolds`), of the file
that its ids are unique (`FileHolds`), of a pass that it works from rows the exchange has listed and has claimed
nothing before it has fetched them (`PassHolds`). A line is rewritten in its place (`RewriteKeeps`), appended under
a new id (`AppendKeeps`) or taken away with the order of the rest kept (`AmongKeeps`, by induction along the
recursive function `Among`): each keeps the ids unique. A line that is rewritten must be there, or `LineOf`
would be nothing: the main loop owes that to `MainLoopFinds`, the pre-passes to their guards, since for them it
may be false (`Throws`). That a claim of groups is a finite set with a last row and a mean (`RowsAre`,
`LastIs`, `MeanIs`) makes what is written a line.

What a pass leaves in the file it proves of a trade that is `Own`: logged, one order and not a ladder, alone on its
pair, and scaled in by at most what the tolerances allow (`matchPx`, `journal.js:858`, and
0.5% of the entry, `reconcile-match.js:168`):

| Theorem | Of | Property |
|---|---|---|
| `LoneTradeReads` | one `Own` trade on any account | `Reads(n)` after every undisturbed pass |
| `LoneHistoryKept` | one `Own` trade on any account | what a closed line counts of its exits stays counted, unless a pass sees later rows of the trade without it (`AgedAlone`) or opens the line again (`Reopened`) |
| `LoneTradesAreMirrored` | an account whose logged trades are `Own` | `Mirrored` |
| `LoneTradesAreKeptApart` | an account of `Own` trades | `KeptApart` |
| `LoneTradesAreAligned` | an account of `Own` trades | `PositionsAligned /\ NoExitMissed`, as long as no pass was disturbed |
| `LoneTradesKeepTheirHistory` | an account of `Own` trades | `HistoryKept` |
| `LonePassesAreIdempotent` | an account of `Own` trades | `Idempotent` |

The hypothesis is what the matching of the code presupposes and never checks: it knows a trade by pair, side,
price and time only. The part "solo" of `reconcile_both` satisfies it; where it fails the conclusions fail too, as
section 3 shows for a trade that leaves the tolerances and for two trades of a pair. (With a ladder, a manual
trade or two levels far apart TLC checks the same properties.) The first two theorems let every other trade
of the account be anything: what happens on another pair cannot reach the lines of this one.

The argument. None of these is inductive: what a pass leaves depends on what it found and on how far it is. `OwnInv`
holds of each `Own` trade while no pass was disturbed, in four parts. `ExchangeFits`: the average entry stays
within reach of the level, and an exit follows an opening. `FileFits`: on the trade's pair are its own line and at
most one child, the child after its parent; both count only its exits; and once it is flat its line counts all that
the exchange still lists of it, or some row is not counted yet. Rows age out one by one, also while the position
is open, so a line may count more than is listed, and after a pass never less: `AsOnExchange` compares the two by
what is listed. `PassFits` says for each stage of a pass what is claimed: before the pre-pass nothing; after it
either everything, the line handled and right, or nothing (`PrePassed`, `ScaledOut` tells which); once the main
loop has passed its line, everything, and the line is right (`Finished`); so the two last loops find nothing of the
pair to claim. That the child comes after its parent matters: a loop that came to the child first would claim its
parent's groups for it. `Quiet`: between passes over an unchanged view the line is right (`AsOnExchange`).
`OwnInvariant` collects `OwnInv` for all trades at once, with one lemma per action for the trade itself and one for
steps of other pairs, and needs `RecInv` and `NetsOnPair` beside it. For `Idempotent`, `SameAgain` shows that every
rewrite of such a pass writes the line that is there.

The assumptions on constants are types, non-empty windows and prices in order; the models and TLC's runs
satisfy them. No theorem assumes a bound: `MaxTime`, `MaxOrders`, `MaxBrackets` and the like are arbitrary
natural numbers.

The library's induction theorems take an operator as a parameter, which the provers cannot instantiate.
`Induction` therefore states them of sets and functions (`SetInduction`: a set of naturals that holds
0 and each successor is all of them), proves the existence of what is defined by recursion as
a function (`RecursionExists`, `FoldExists`) from approximations, and derives sums over finite sets.

Only model-checked:

- liveness, which the provers cannot reach, as `ENABLED` is out of their reach;
- `Aligned` in full: of passes that are killed, of a ladder, and of two trades of one pair whose levels the
  tolerances separate (the theorem is about trades alone on their pair and undisturbed passes);
- `RECURSIVE` operators would be out of reach; the modules have none.

## 5. What is left of the plan

1. More proofs about `Reconcile`: what a pass leaves of a ladder and of two trades of one pair whose levels
   the tolerances separate, and what a killed pass leaves to the next one.
2. `TradeLifecycle`: the abstract life of a trade (armed, placed, logged, open, closed), implemented by the
   composition of `EntryRadar` and `Reconcile`.
3. `monitor-state.json` and its alerts; the arithmetic of `defrag`; `scale_in` order by order.

## 6. What is not modelled

- The routine runner and the health checks: the runner starts a language model under a watchdog and judges it by
  the growth of the journal; what the model does in between is not code of the repository. Its schedule is the
  fairness assumed above and its limits are the kills.
- The TradingView tools drive a chart through a browser: input and output only.
- Portfolio, exit research, trajectories and the statistics of journal and optimiser: reports over finished
  data, which change no state that another program reads. A trajectory is a flag of `Thesis`.
- The order flow, the counting of volume, and the indicators themselves (averages, RSI, bands): inputs of the models.
- Dashboard, exports, notes, digest and notifications: rendering and output.
