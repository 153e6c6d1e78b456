----------------------------- MODULE MonitorTick -----------------------------
(* What happens to the stop and to the targets of one open long position     *)
(* while journal.js monitor-tick runs every half hour (as an alert-only task *)
(* and as monitor-manage.ps1), the routine moves the stop, the price walks   *)
(* and the exchange executes.  A tick works from one look at the position:   *)
(* what it looked at fixes the list of orders it then sends one by one.      *)
(* A short is the mirror image.  Prices are steps of a grid.                 *)
EXTENDS Integers, Sequences, FiniteSets, Functions

CONSTANTS
  Ticks,        \* the scheduled tasks that run monitor-tick
  Managing,     \* the one with MONITOR_TICK_AUTO_MANAGE and _AUTO_BE set, if any
  Routine,      \* the routine, which moves the stop by itself
  RoutineStops, \* the levels it may move it to
  Logged,       \* the position has a line in the journal
  MeanReverting,\* its strategy has a time-stop
  Verdicts,     \* the actions actionForVerdict may come to
  Entry, PlannedStop, Targets, MaxPrice,   \* levels of the grid
  Tenths,       \* the share of the size each target takes, in tenths
  Size,         \* the size of the position when it was filled
  Gap,          \* the distance of a trailing stop
  Gain,         \* the profit below which nothing is managed
  MaxOrders,    \* the conditional orders of one symbol the exchange accepts (10)
  Faults        \* what may fail: "order", "lost", "cancel", "fetch", "candles", "kill"

Procs   == Ticks \cup {Routine}
Indices == DOMAIN Targets
Levels  == 1..MaxPrice
Actions == {"keep", "take_partial_be", "take_partial_lock", "set_trailing", "tighten_sl"}
Tags    == {"be", "lock", "time_stop"}

ASSUME ConstantsAssumption ==
  /\ Managing \subseteq Ticks /\ \A t, u \in Managing : t = u
  /\ Routine \notin Ticks
  /\ Logged \in BOOLEAN /\ MeanReverting \in BOOLEAN
  /\ Verdicts \subseteq Actions
  /\ Entry \in Nat /\ MaxPrice \in Nat /\ PlannedStop \in Nat
  /\ 1 <= PlannedStop /\ PlannedStop < Entry /\ Entry + 1 < MaxPrice
  /\ RoutineStops \subseteq Levels
  /\ Targets \in Seq(Levels) /\ Tenths \in Seq(0..10) /\ Len(Tenths) = Len(Targets)
  /\ Targets # <<>> /\ \A i \in Indices : Targets[i] > Entry
  /\ Size \in Nat \ {0} /\ Gap \in Nat \ {0} /\ Gain \in Nat \ {0}
  /\ MaxOrders \in Nat /\ MaxOrders > Len(Targets)
  /\ Faults \subseteq {"order", "lost", "cancel", "fetch", "candles", "kill"}

VARIABLES
  px,        \* the price
  size,      \* what is left of the position
  stops,     \* for each level, how many stop-loss orders it has, each for the whole
  tps,       \* for each target, how many orders it has, each for its share
  trail,     \* the trailing stop of the position, if any
  touched,   \* the price has reached the first target
  due,       \* the position is older than its time-stop
  taken,     \* tp_taken of the journal's line: targets banked
  managed,   \* monitor_managed of the line: one-shot actions done
  looked,    \* for each tick, what it read of the position and its line
  todo,      \* for each process, the calls it has still to make
  stage,     \* where in its first call each process is
  found,     \* the stops that call has found
  held,      \* the size it has read
  banked,    \* for each tick, the targets it has banked
  disturbed, \* history: what has gone wrong
  floor,     \* history: the highest stop in force so far
  units,     \* history: for each target, the size taken there
  cuts       \* history: the partial profits taken for each tag

market  == <<px, touched, due>>
account == <<size, stops, tps, trail>>
line    == <<taken, managed>>
locals  == <<looked, todo, stage, found, held, banked>>
history == <<disturbed, floor, units, cuts>>
vars    == <<market, account, line, locals, history>>

\* The commands of a list of orders: a stop is moved, a trailing stop set, a
\* part of the position sold, a target banked or posted, the line saved.
Command(do, level, amount) == [do |-> do, level |-> level, amount |-> amount]

NoStops == [l \in Levels |-> 0]
Nothing == [size |-> 0, px |-> 0, taken |-> {}, managed |-> {}]
NoTrail == [at |-> 0, stop |-> 0]

Share(i) == (Tenths[i] * Size) \div 10
Smaller(a, b) == IF a < b THEN a ELSE b
Idle(p) == looked[p] = Nothing /\ todo[p] = <<>>

\* The level at which the exchange closes the position, 0 when nothing does.
StopLevels == {l \in Levels : stops[l] > 0}
InForce == LET all == StopLevels \cup {trail.stop, 0} IN CHOOSE l \in all : \A m \in all : m <= l
Orders  == SumFunction(stops) + SumFunction(tps)
Naked   == size > 0 /\ InForce = 0

\* The stop was placed with the entry, or refused; so were the targets, the
\* nearer of which the exchange refuses while they are on the wrong side.
Init ==
  /\ px = Entry /\ touched = FALSE /\ due = FALSE
  /\ size = Size
  /\ \E n \in {0, 1} : stops = [l \in Levels |-> IF l = PlannedStop THEN n ELSE 0]
  /\ tps \in [Indices -> {0, 1}]
  /\ trail = NoTrail
  /\ taken = {} /\ managed = {}
  /\ looked = [p \in Procs |-> Nothing] /\ todo = [p \in Procs |-> <<>>]
  /\ stage = [p \in Procs |-> "start"] /\ found = [p \in Procs |-> NoStops]
  /\ held = [p \in Procs |-> 0]
  /\ banked = [p \in Procs |-> {}]
  /\ disturbed = IF stops = NoStops THEN {"naked"} ELSE {}
  /\ floor = InForce
  /\ units = [i \in Indices |-> 0] /\ cuts = [g \in Tags |-> 0]

-----------------------------------------------------------------------------
(* The plan of a tick                                                       *)

\* The profit that a position must show before it is managed.
Winner(seen, candles) == IF candles THEN seen.px >= Entry + Gain ELSE seen.px > Entry

\* safeTightenSl: to the entry and a little more, only in profit.
BreakEven    == Entry + 1
Tighten(seen) == IF seen.px > BreakEven THEN <<Command("move", BreakEven, 0)>> ELSE <<>>
\* A mutant of Trail: a tag outside the one-shot ones is recorded.
TrailTagged(seen, candles) ==
  IF candles THEN <<Command("trail", seen.px, 0), Command("tag", 0, "trail")>> ELSE <<>>
Trail(seen, candles) == IF candles THEN <<Command("trail", seen.px, 0)>> ELSE <<>>

\* Mutants of OneShot: the tag is not looked at, is recorded before the order,
\* or half the position is sold whatever the fraction.
OneShotAgain(tag, fraction, seen, then) ==
  <<Command("partial", fraction, tag)>> \o then \o <<Command("tag", 0, tag)>>
OneShotTagFirst(tag, fraction, seen, then) ==
  IF tag \in seen.managed THEN <<>>
  ELSE <<Command("tag", 0, tag), Command("partial", fraction, tag)>> \o then
OneShotHalf(tag, fraction, seen, then) ==
  IF tag \in seen.managed THEN <<>>
  ELSE <<Command("partial", 5, tag)>> \o then \o <<Command("tag", 0, tag)>>

\* A one-shot action: its part is sold, the stop moved, its tag recorded.
OneShot(tag, fraction, seen, then) ==
  IF tag \in seen.managed THEN <<>>
  ELSE <<Command("partial", fraction, tag)>> \o then \o <<Command("tag", 0, tag)>>

\* manageIntents: the calls an action of the plan comes to.
Intents(action, seen, candles) ==
  CASE action = "time_stop_close" -> OneShot("time_stop", 10, seen, <<>>)
    [] action = "place_sl" -> IF Logged THEN <<Command("move", PlannedStop, 0)>> ELSE <<>>
    [] ~Winner(seen, candles) -> <<>>
    [] action = "set_trailing" -> Trail(seen, candles)
    [] action = "tighten_sl" -> Tighten(seen)
    [] action = "take_partial_be" -> OneShot("be", 5, seen, Tighten(seen))
    [] action = "take_partial_lock" -> OneShot("lock", 5, seen, Tighten(seen) \o Trail(seen, candles))
    [] OTHER -> <<>>

\* Mutants of ActionOf: a stop that is there is placed again, or a missing
\* one is left to the verdict.
ActionOfAlways(verdict, hasStop) == IF due THEN "time_stop_close" ELSE "place_sl"
ActionOfVerdict(verdict, hasStop) == IF due THEN "time_stop_close" ELSE verdict

\* planMonitoring: a time-stop first, then a missing stop, then the verdict.
ActionOf(verdict, hasStop) ==
  CASE due -> "time_stop_close"
    [] ~due /\ ~hasStop -> "place_sl"
    [] OTHER -> verdict

\* breakevenAfterTp1: the planned stop of the line is never updated, so the
\* move is due at each tick once the first target was touched.
BreakEvenDue(seen, candles) ==
  IF Logged /\ candles /\ touched /\ seen.px > Entry THEN <<Command("move", Entry, 0)>> ELSE <<>>

\* Mutants of TpTakePlan: the banked targets are forgotten, or the targets
\* ahead of the price are never posted.
TpTakePlanUntaken(seen, posted) ==
  LET take(i) == IF Logged /\ i \notin posted /\ Share(i) > 0
                 THEN <<Command(IF seen.px >= Targets[i] THEN "bank" ELSE "repost", i, Share(i))>>
                 ELSE <<>>
      plan[i \in 0..Len(Targets)] == IF i = 0 THEN <<>> ELSE plan[i - 1] \o take(i)
  IN  plan[Len(Targets)]
TpTakePlanReached(seen, posted) ==
  LET take(i) == IF Logged /\ i \notin posted \cup seen.taken /\ seen.px >= Targets[i]
                 THEN <<Command("bank", i, Smaller(Share(i), seen.size))>> ELSE <<>>
      plan[i \in 0..Len(Targets)] == IF i = 0 THEN <<>> ELSE plan[i - 1] \o take(i)
  IN  plan[Len(Targets)]

\* tpTakePlan: what is planned, not posted and not banked is banked when the
\* price has reached it and posted otherwise.
TpTakePlan(seen, posted) ==
  LET qty(i)  == Smaller(Share(i), seen.size)
      take(i) == IF Logged /\ i \notin posted /\ i \notin seen.taken /\ qty(i) > 0
                 THEN <<Command(IF seen.px >= Targets[i] THEN "bank" ELSE "repost", i, qty(i))>>
                 ELSE <<>>
      plan[i \in 0..Len(Targets)] == IF i = 0 THEN <<>> ELSE plan[i - 1] \o take(i)
  IN  plan[Len(Targets)]

\* The whole of a tick once it has looked: break-even, targets, the banked
\* targets saved, then the action of the plan.
Plan(t, seen, hasStop, posted, verdict, candles) ==
  LET be     == IF t \in Managing THEN BreakEvenDue(seen, candles) ELSE <<>>
      manage == IF t \in Managing THEN Intents(ActionOf(verdict, hasStop), seen, candles) ELSE <<>>
  IN  be \o TpTakePlan(seen, posted) \o <<Command("save", 0, 0)>> \o manage

-----------------------------------------------------------------------------
Disturb(kinds) == disturbed' = disturbed \cup kinds

\* A tick reads the position, its price and its line ...
Look(t) ==
  /\ Idle(t) /\ size > 0
  /\ looked' = [looked EXCEPT ![t] = [size |-> size, px |-> px, taken |-> taken, managed |-> managed]]
  /\ banked' = [banked EXCEPT ![t] = {}]
  /\ Disturb(IF \E p \in Procs \ {t} : ~Idle(p) THEN {"overlap"} ELSE {})
  /\ UNCHANGED <<market, account, line, todo, stage, found, held, floor, units, cuts>>

\* ... then its conditional orders; a fetch that fails reads as none.  Whether
\* a trailing stop is listed with a trigger price depends on the exchange.
Decide(t) ==
  /\ looked[t] # Nothing
  /\ \E fetched \in IF "fetch" \in Faults THEN BOOLEAN ELSE {TRUE},
        candles \in IF "candles" \in Faults THEN BOOLEAN ELSE {TRUE},
        listed \in IF trail = NoTrail THEN {FALSE} ELSE BOOLEAN,
        verdict \in Verdicts :
       /\ todo' = [todo EXCEPT ![t] =
            Plan(t, looked[t], fetched /\ (stops # NoStops \/ listed),
                 {i \in Indices : fetched /\ tps[i] > 0}, verdict, candles)]
       /\ Disturb(IF fetched THEN {} ELSE {"fetch"})
  /\ looked' = [looked EXCEPT ![t] = Nothing]
  /\ UNCHANGED <<market, account, line, stage, found, held, banked, floor, units, cuts>>

\* The routine moves the stop up by the same tool.
RoutineMoves(level) ==
  /\ Idle(Routine) /\ size > 0 /\ level > InForce
  /\ todo' = [todo EXCEPT ![Routine] = <<Command("move", level, 0)>>]
  /\ Disturb(IF \E p \in Ticks : ~Idle(p) THEN {"overlap"} ELSE {})
  /\ UNCHANGED <<market, account, line, looked, stage, found, held, banked, floor, units, cuts>>

-----------------------------------------------------------------------------
(* The calls, order by order                                                *)

At(p, do, where) == todo[p] # <<>> /\ Head(todo[p]).do \in do /\ stage[p] = where

Done(p) ==
  /\ todo' = [todo EXCEPT ![p] = Tail(@)]
  /\ stage' = [stage EXCEPT ![p] = "start"]
  /\ found' = [found EXCEPT ![p] = NoStops]
  /\ held' = [held EXCEPT ![p] = 0]

\* The fate of an order: one that cannot be is refused, one that can may be
\* refused all the same, or accepted with its answer lost.
Fate(possible) ==
  IF ~possible THEN {"refused"}
  ELSE {"accepted"} \cup (IF "order" \in Faults THEN {"refused"} ELSE {})
                    \cup (IF "lost" \in Faults THEN {"lost"} ELSE {})
Mishap(fate, possible) ==
  CASE fate = "accepted" -> {}
    [] fate = "lost"     -> {"lost"}
    [] OTHER             -> IF possible THEN {"order"} ELSE {"refused"}

\* The calls of the skill throw when there is no position, bybit_move_sl also
\* when the level is on the wrong side of the price, before anything changes.
CallThrows(p) ==
  /\ \/ At(p, {"move", "trail", "partial"}, "start") /\ size = 0
     \/ At(p, {"move"}, "start") /\ Head(todo[p]).level >= px
  /\ Done(p)
  /\ UNCHANGED <<market, account, line, looked, banked, history>>

\* _findSlOrders: the stops below the entry; a fetch that fails finds none.
FindStops(p) ==
  /\ At(p, {"move", "trail"}, "start") /\ size > 0
  /\ At(p, {"move"}, "start") => Head(todo[p]).level < px
  /\ \E fetched \in IF "fetch" \in Faults THEN BOOLEAN ELSE {TRUE} :
       /\ found' = [found EXCEPT ![p] = IF fetched
                    THEN [l \in Levels |-> IF l < Entry THEN stops[l] ELSE 0] ELSE NoStops]
       /\ Disturb(IF fetched THEN {} ELSE {"fetch"})
  /\ stage' = [stage EXCEPT ![p] = "found"]
  /\ UNCHANGED <<market, account, line, looked, todo, held, banked, floor, units, cuts>>

\* The stops found are cancelled; a cancellation that fails is swallowed.
CancelStops(p) ==
  /\ At(p, {"move", "trail"}, "found")
  /\ \E kept \in IF "cancel" \in Faults THEN SUBSET StopLevels ELSE {{}} :
       stops' = [l \in Levels |-> IF l \in kept THEN stops[l]
                                  ELSE stops[l] - Smaller(found[p][l], stops[l])]
  /\ stage' = [stage EXCEPT ![p] = "cancelled"]
  /\ UNCHANGED <<market, size, tps, trail, line, looked, todo, found, held, banked, history>>

\* A mutant of CreateStop: a stop that was found is taken for still there.
CreateStopIfNone(p) ==
  /\ At(p, {"move"}, "cancelled")
  /\ LET level    == Head(todo[p]).level
         possible == size > 0 /\ level < px /\ Orders < MaxOrders
     IN  \E fate \in Fate(possible) :
           /\ stops' = IF fate = "refused" \/ found[p] # NoStops THEN stops
                       ELSE [stops EXCEPT ![level] = @ + 1]
           /\ Disturb(Mishap(fate, possible))
           /\ floor' = IF fate = "refused" \/ level < floor THEN floor ELSE level
  /\ Done(p)
  /\ UNCHANGED <<market, size, tps, trail, line, looked, banked, units, cuts>>

\* The new stop is sent: the exchange refuses it when the price is beyond.
CreateStop(p) ==
  /\ At(p, {"move"}, "cancelled")
  /\ LET level    == Head(todo[p]).level
         possible == size > 0 /\ level < px /\ Orders < MaxOrders
     IN  \E fate \in Fate(possible) :
           /\ stops' = IF fate = "refused" THEN stops ELSE [stops EXCEPT ![level] = @ + 1]
           /\ Disturb(Mishap(fate, possible))
           /\ floor' = IF fate = "refused" \/ level < floor THEN floor ELSE level
  /\ Done(p)
  /\ UNCHANGED <<market, size, tps, trail, line, looked, banked, units, cuts>>

\* A trailing stop replaces the stops; it starts when the price is at the
\* activation level, which was the price of the look.
SetTrailing(p) ==
  /\ At(p, {"trail"}, "cancelled")
  /\ \E fate \in Fate(size > 0) :
       /\ trail' = IF fate = "refused" THEN trail
                   ELSE LET at == Head(todo[p]).level
                        IN  [at |-> at, stop |-> IF px >= at /\ px > Gap THEN px - Gap ELSE 0]
       /\ Disturb(Mishap(fate, size > 0) \cup {"trail"})
  /\ Done(p)
  /\ UNCHANGED <<market, size, stops, tps, line, looked, banked, floor, units, cuts>>

\* bybit_take_partial reads the size ...
ReadSize(p) ==
  /\ At(p, {"partial"}, "start") /\ size > 0
  /\ held' = [held EXCEPT ![p] = (Head(todo[p]).level * size) \div 10]
  /\ stage' = [stage EXCEPT ![p] = "found"]
  /\ UNCHANGED <<market, account, line, looked, todo, found, banked, history>>

\* ... and sells its share of what it read, at most what is left.
SellPart(p) ==
  /\ At(p, {"partial"}, "found")
  /\ LET tag      == Head(todo[p]).amount
         possible == size > 0 /\ held[p] > 0
     IN  \E fate \in Fate(possible) :
           /\ size' = IF fate = "refused" THEN size ELSE size - Smaller(held[p], size)
           /\ cuts' = IF fate = "refused" THEN cuts ELSE [cuts EXCEPT ![tag] = @ + 1]
           /\ Disturb(Mishap(fate, possible))
  /\ Done(p)
  /\ UNCHANGED <<market, stops, tps, trail, line, looked, banked, floor, units>>

\* A target the price has reached is sold at the market; only an order that
\* is known to have been accepted counts as banked.
Bank(p) ==
  /\ At(p, {"bank"}, "start")
  /\ LET i == Head(todo[p]).level
         n == Smaller(Head(todo[p]).amount, size)
     IN  \E fate \in Fate(size > 0) :
           /\ size' = IF fate = "refused" THEN size ELSE size - n
           /\ units' = IF fate = "refused" THEN units ELSE [units EXCEPT ![i] = @ + n]
           /\ banked' = IF fate = "accepted" THEN [banked EXCEPT ![p] = @ \cup {i}] ELSE banked
           /\ Disturb(Mishap(fate, size > 0))
  /\ Done(p)
  /\ UNCHANGED <<market, stops, tps, trail, line, looked, floor, cuts>>

\* A target ahead of the price is posted as a conditional order.
Repost(p) ==
  /\ At(p, {"repost"}, "start")
  /\ LET i        == Head(todo[p]).level
         possible == size > 0 /\ px < Targets[i] /\ Orders < MaxOrders
     IN  \E fate \in Fate(possible) :
           /\ tps' = IF fate = "refused" THEN tps ELSE [tps EXCEPT ![i] = @ + 1]
           /\ Disturb(Mishap(fate, possible))
  /\ Done(p)
  /\ UNCHANGED <<market, size, stops, trail, line, looked, banked, floor, units, cuts>>

\* The banked targets are saved once, after all the orders; so is the tag of
\* a one-shot action, whatever became of its calls.
Save(p) ==
  /\ At(p, {"save"}, "start")
  /\ taken' = IF Logged THEN taken \cup banked[p] ELSE taken
  /\ banked' = [banked EXCEPT ![p] = {}]
  /\ Done(p)
  /\ UNCHANGED <<market, account, managed, looked, history>>

SaveTag(p) ==
  /\ At(p, {"tag"}, "start")
  /\ managed' = IF Logged THEN managed \cup {Head(todo[p]).amount} ELSE managed
  /\ Done(p)
  /\ UNCHANGED <<market, account, taken, looked, banked, history>>

\* The scheduler ends a tick that runs for too long.
Kill(t) ==
  /\ "kill" \in Faults /\ ~Idle(t)
  /\ looked' = [looked EXCEPT ![t] = Nothing]
  /\ todo' = [todo EXCEPT ![t] = <<>>]
  /\ stage' = [stage EXCEPT ![t] = "start"]
  /\ found' = [found EXCEPT ![t] = NoStops] /\ held' = [held EXCEPT ![t] = 0]
  /\ banked' = [banked EXCEPT ![t] = {}]
  /\ Disturb({"kill"})
  /\ UNCHANGED <<market, account, line, floor, units, cuts>>

-----------------------------------------------------------------------------
(* The market and the exchange                                              *)

Fired(p) == {i \in Indices : tps[i] > 0 /\ Targets[i] <= p}

\* The targets that fire sell in the order of their levels: together never
\* more than what is left.
Sold(p) ==
  LET asked[j \in 0..Len(Targets)] ==
        IF j = 0 THEN 0 ELSE asked[j - 1] + (IF j \in Fired(p) THEN tps[j] * Share(j) ELSE 0)
  IN  [j \in 0..Len(Targets) |-> Smaller(asked[j], size)]
SoldAt(i, p) == Sold(p)[i] - Sold(p)[i - 1]

\* The price moves by one level: the stop in force closes the position, the
\* targets reached sell their part, the trailing stop follows.
PriceMoves(p) ==
  /\ size > 0 /\ p \in Levels \ {px} /\ p \in {px - 1, px + 1}
  /\ px' = p
  /\ touched' = (touched \/ p >= Targets[1])
  /\ size' = IF p <= InForce THEN 0 ELSE size - Sold(p)[Len(Targets)]
  /\ units' = [i \in Indices |-> units[i] + SoldAt(i, p)]
  /\ tps' = [i \in Indices |-> IF i \in Fired(p) THEN 0 ELSE tps[i]]
  /\ trail' = IF trail.at # 0 /\ p >= trail.at /\ p > Gap /\ p - Gap > trail.stop
              THEN [trail EXCEPT !.stop = p - Gap] ELSE trail
  /\ UNCHANGED <<due, stops, line, locals, disturbed, floor, cuts>>

\* The position grows older than 24 bars of four hours.
GrowsOld ==
  /\ MeanReverting /\ Logged /\ ~due /\ size > 0
  /\ due' = TRUE
  /\ UNCHANGED <<px, touched, account, line, locals, history>>

-----------------------------------------------------------------------------
Call(p) ==
  \/ CallThrows(p) \/ FindStops(p) \/ CancelStops(p) \/ CreateStop(p) \/ SetTrailing(p)
  \/ ReadSize(p) \/ SellPart(p) \/ Bank(p) \/ Repost(p) \/ Save(p) \/ SaveTag(p)

TickStep(t) == Look(t) \/ Decide(t) \/ Call(t)

Next ==
  \/ \E t \in Ticks : TickStep(t) \/ Kill(t)
  \/ \E l \in RoutineStops : RoutineMoves(l)
  \/ Call(Routine)
  \/ \E p \in Levels : PriceMoves(p)
  \/ GrowsOld

Spec == Init /\ [][Next]_vars

\* The scheduler starts ticks for ever, and a call that was begun goes on.
FairSpec == Spec /\ (\A t \in Ticks : WF_vars(TickStep(t))) /\ WF_vars(Call(Routine))

-----------------------------------------------------------------------------
(* Properties                                                               *)

Disturbances == {"naked", "order", "lost", "refused", "fetch", "overlap", "kill", "trail"}
Undisturbed(kinds) == disturbed \cap kinds = {}

\* What a process may have to do: the routine moves the stop and nothing else.
Commands(p) ==
  [do : {"move"}, level : IF p = Routine THEN RoutineStops ELSE {PlannedStop, Entry, BreakEven},
   amount : {0}]
    \cup IF p = Routine THEN {}
         ELSE [do : {"trail"}, level : 0..MaxPrice, amount : {0}]
                \cup [do : {"partial"}, level : {5, 10}, amount : Tags]
                \cup [do : {"bank", "repost"}, level : Indices, amount : 0..Size]
                \cup [do : {"save"}, level : {0}, amount : {0}]
                \cup [do : {"tag"}, level : {0}, amount : Tags]

TypeOK ==
  /\ px \in Levels /\ touched \in BOOLEAN /\ due \in BOOLEAN
  /\ size \in 0..Size /\ stops \in [Levels -> Nat]
  /\ tps \in [Indices -> Nat]
  /\ trail \in [at : 0..MaxPrice, stop : 0..MaxPrice]
  /\ taken \subseteq Indices /\ managed \subseteq Tags
  /\ looked \in [Procs -> [size : 0..Size, px : 0..MaxPrice, taken : SUBSET Indices, managed : SUBSET Tags]]
  /\ DOMAIN todo = Procs /\ \A p \in Procs : todo[p] \in Seq(Commands(p))
  /\ stage \in [Procs -> {"start", "found", "cancelled"}]
  /\ found \in [Procs -> [Levels -> Nat]] /\ held \in [Procs -> 0..Size]
  /\ banked \in [Procs -> SUBSET Indices]
  /\ disturbed \subseteq Disturbances /\ floor \in 0..MaxPrice
  /\ units \in [Indices -> Nat] /\ cuts \in [Tags -> Nat]

\* However ticks and the routine interleave their moves of the stop, the
\* position is without one only inside a call that is replacing it.
StopUnlessDisturbed ==
  Undisturbed({"naked", "order", "refused", "kill", "trail"}) =>
    (Naked => \E p \in Procs : stage[p] = "cancelled")

\* monitor-exec.js:9, never "ELARGIR un SL": what one tick or the routine does
\* at a time never leaves the stop lower than it has been, also where the
\* stop of a naked position is placed again.
NeverLoosened ==
  (/\ Undisturbed({"order", "refused", "kill", "trail", "fetch", "overlap"})
   /\ size > 0 /\ \A p \in Procs : stage[p] # "cancelled") => InForce >= floor

\* A target recorded as banked is never taken again, neither by a tick nor by
\* an order that was posted for it, whatever is refused, lost or killed.
BankedOnce ==
  [][Undisturbed({"fetch", "overlap"}) =>
       \A i \in taken : units'[i] = units[i]]_vars

\* A one-shot partial profit is taken once, although its tag is recorded in
\* the end: only a kill between the order and the record repeats it.  And a
\* recorded tag means it was taken, unless its order was refused.
OneShotOnce ==
  /\ (Logged /\ Undisturbed({"kill"})) => \A g \in Tags : cuts[g] <= 1
  /\ Undisturbed({"order", "refused"}) => \A g \in managed : cuts[g] >= 1 \/ size = 0

\* The floor of the monitor: a naked position is protected in the end, unless
\* its price is beyond its planned stop already, or calls are refused.
NakedIsProtected ==
  (Logged /\ Managing # {} /\ Naked /\ trail = NoTrail)
    ~> (~Naked \/ px <= PlannedStop \/ trail # NoTrail \/ ~Undisturbed({"order", "fetch", "kill"}))

\* A target that is neither posted nor banked is in the end, unless the price
\* crosses it while the tick is posting it, or the exchange accepts no more
\* orders: each tick adds a break-even stop and removes none of the former.
TargetsLookedAfter ==
  \A i \in Indices :
    (Logged /\ size > 0 /\ tps[i] = 0 /\ i \notin taken)
      ~> (tps[i] > 0 \/ i \in taken \/ size = 0 \/ px >= Targets[i] \/ Orders >= MaxOrders
          \/ ~Undisturbed({"order", "fetch", "kill", "lost"}))

\* A position beyond its time-stop is closed in the end.
TimeStopCloses ==
  (due /\ Managing # {}) ~> (size = 0 \/ ~Undisturbed({"order", "kill"}))

-----------------------------------------------------------------------------
(* What a comment of the code claims without condition                      *)

\* monitor.js:264, "IDEMPOTENT : un TP deja banke (px dans tpTaken) ou deja pose
\* [...] n'est jamais repris": no target takes more than its share.
TakenOnce == \A i \in Indices : units[i] <= Share(i)
=============================================================================
