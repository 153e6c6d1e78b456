------------------------------ MODULE BackTest ------------------------------
(***************************************************************************)
(* The back-test of optimize.js: detect() walks a tape of four hour bars   *)
(* once, pushes the signals of the setups and keeps the pending entries of *)
(* the variants that do not enter at the close (limit in a gap, retrace,   *)
(* reclaim, confirmation, ladders); sim() then runs a signal against the   *)
(* bars that follow; run() maps the daily bias on the bars.                *)
(*                                                                         *)
(* A candle carries, besides its prices, what the indicators say there.    *)
(* Prices are steps of a grid, StochRSI is in hundredths, the average true *)
(* range and the daily average are parameters.  Signals entered at the     *)
(* close are represented by MR8_MTF and FVG_disp: the other setups differ  *)
(* only in their conditions (module Setups has those that are live).       *)
(***************************************************************************)
EXTENDS Integers, Sequences, FiniteSets, FiniteSetsExt, SequencesExt

CONSTANTS
  Candles,    \* what a bar may be: [o, h, l, c, srsi, db, bear, range]
  TapeLength,    \* the length of the tape (bound)
  Range1,     \* the average true range, a multiple of 12
  Average,    \* the daily average the bias compares with
  BarsPerDay, \* the bars of a day (6)
  Cooldown,   \* bars between two signals of a setup (8)
  Window, ShortWindow, ReclaimWindow,  \* lives of the pendings (6, 4, 12)
  SweepBack,  \* the bars of the swing a reclaim must sweep (30)
  MaxHold,    \* the bars a simulated trade is held (60)
  Exits       \* the exits tried: [sl, tp, trail, be] in average true ranges

ASSUME BackTestAssumption ==
  /\ {TapeLength, Average, BarsPerDay, Cooldown, Window, ShortWindow, ReclaimWindow, SweepBack, MaxHold}
       \subseteq Nat \ {0}
  /\ Range1 \in Nat \ {0} /\ Range1 % 12 = 0
  /\ Candles \subseteq [o : Int, h : Int, l : Int, c : Int, srsi : Int, db : {"bull", "bear", "none"},
                        bear : BOOLEAN, range : BOOLEAN]
  /\ \A bar \in Candles : bar.l <= bar.o /\ bar.l <= bar.c /\ bar.o <= bar.h /\ bar.c <= bar.h
  /\ Exits \subseteq [sl : Nat, tp : Nat, trail : Nat, be : BOOLEAN]

VARIABLES
  tape,      \* the bars walked so far
  pendings,  \* the entries that wait, in the order they were made
  signals    \* what was pushed: [name, side, i, entry, from]

backTestVars == <<tape, pendings, signals>>

BackTestTypeOK ==
  /\ tape \in Seq(Candles)
  /\ \A p \in ToSet(pendings) : p.from \in 1..Len(tape) /\ Len(p.fills) <= 3
  /\ \A s \in signals : s.i \in 1..Len(tape) /\ s.side \in {"long", "short"} /\ s.entry \in Int

-----------------------------------------------------------------------------
(* push: one signal of a name, then none for Cooldown bars                  *)

Cooling(pushed, name, i) == \E s \in pushed : s.name = name /\ i - s.i < Cooldown

Push(pushed, name, side, i, entry, from) ==
  IF Cooling(pushed, name, i) THEN pushed
  ELSE pushed \cup {[name |-> name, side |-> side, i |-> i, entry |-> entry, from |-> from]}

\* The pushes of one bar, hits of [name, side, entry, from].
PushAll(pushed, hits, i) ==
  FoldSet(LAMBDA hit, got : Push(got, hit.name, hit.side, i, hit.entry, hit.from), pushed, hits)

-----------------------------------------------------------------------------
(* What a bar does to a pending                                             *)

Beyond(side) == IF side = "long" THEN -1 ELSE 1

\* The bar trades at the price, seen from a side that waits for a pull-back.
TradesAt(bar, side, price) == IF side = "long" THEN bar.l <= price ELSE bar.h >= price

\* The bar takes out the swing before it and closes back inside.
Reclaims(bars, i, side) ==
  LET before == Max({1, i - SweepBack})..(i - 1)
      low  == Min({bars[k].l : k \in before})
      high == Max({bars[k].h : k \in before})
  IN  IF side = "long" THEN bars[i].l < low /\ bars[i].c > low
                       ELSE bars[i].h > high /\ bars[i].c < high

\* StochRSI turns and has left the extreme.
Confirms(bars, i, side) ==
  IF side = "long" THEN bars[i].srsi > bars[i - 1].srsi /\ bars[i].srsi > 15
                   ELSE bars[i].srsi < bars[i - 1].srsi /\ bars[i].srsi < 85

\* The rungs a ladder fills on this bar, each after the one before.
Filled(p, bar) ==
  LET deeper(got, level) ==
        IF Len(got) < level /\ TradesAt(bar, p.side, p.rungs[level]) THEN Append(got, p.rungs[level]) ELSE got
  IN  deeper(deeper(deeper(p.fills, 1), 2), 3)

\* The names of the two policies that wait for a bounce.
BounceOnly == [S1 |-> "S1_bounceonly", S2 |-> "S2_bounceonly"]
BounceCont == [S1 |-> "S1_bounce_cont", S2 |-> "S2_bounce_cont"]

Mean(fills) == FoldLeft(LAMBDA a, b : a + b, 0, fills) \div Len(fills)

\* [keep, fills, hits]: whether it goes on waiting, and the entries it makes.
Process(p, bars, i) ==
  LET bar == bars[i]
      got == IF p.kind \in {"ladder", "bounce"} THEN Filled(p, bar) ELSE <<>>
      met == CASE p.kind = "limit"   -> TradesAt(bar, p.side, p.rungs[1])
               [] p.kind = "reclaim" -> Reclaims(bars, i, p.side)
               [] p.kind = "confirm" -> Confirms(bars, i, p.side)
               [] OTHER -> Len(got) = 3 \/ i >= p.expiry
      at(name, price) == [name |-> name, side |-> p.side, entry |-> price, from |-> p.from]
  IN  [keep  |-> ~met /\ (i <= p.expiry \/ p.kind \in {"ladder", "bounce"}),
       fills |-> got,
       hits  |-> CASE ~met \/ (i > p.expiry /\ p.kind \notin {"ladder", "bounce"}) -> {}
                   [] met /\ i <= p.expiry /\ p.kind = "limit" -> {at(p.name, p.rungs[1])}
                   [] met /\ i <= p.expiry /\ p.kind \in {"reclaim", "confirm"} -> {at(p.name, bar.c)}
                   [] met /\ p.kind = "ladder" -> {at(p.name, Mean(got))}
                   [] met /\ p.kind = "bounce" /\ got # <<>> ->
                        {at(BounceOnly[p.name], Mean(got)), at(BounceCont[p.name], Mean(got))}
                   [] OTHER -> {at(BounceCont[p.name], bar.c)}]

\* What a pending adds to acc, [kept, pushed]; a hit that the cooldown refuses is consumed.
Processed(acc, p, bars, i) ==
  LET r == Process(p, bars, i)
  IN  [kept |-> IF r.keep THEN Append(acc.kept, [p EXCEPT !.fills = r.fills]) ELSE acc.kept,
       pushed |-> PushAll(acc.pushed, r.hits, i)]

\* All the pendings, in order.
ProcessAll(waiting, bars, i, pushed) ==
  FoldLeft(LAMBDA acc, p : Processed(acc, p, bars, i), [kept |-> <<>>, pushed |-> pushed], waiting)

-----------------------------------------------------------------------------
(* What a bar registers                                                     *)

Pending(kind, name, side, rungs, fills, i, life) ==
  [kind |-> kind, name |-> name, side |-> side, rungs |-> rungs, fills |-> fills,
   from |-> i, expiry |-> i + life]

\* The gap over a displacement bar, "none" without one.
GapSide(bars, i) ==
  LET big == i > 2 /\ 5 * (bars[i-1].h - bars[i-1].l) > 6 * Range1
  IN  CASE big /\ bars[i].l > bars[i-2].h /\ bars[i-1].c > bars[i-1].o -> "long"
        [] big /\ bars[i].h < bars[i-2].l /\ bars[i-1].c < bars[i-1].o -> "short"
        [] OTHER -> "none"

OtherSide(side) == IF side = "long" THEN "short" ELSE "long"
BiasOf(side) == IF side = "long" THEN "bull" ELSE "bear"

GapPendings(bars, i) ==
  LET side == GapSide(bars, i)
      near == IF side = "long" THEN bars[i].l ELSE bars[i].h
      far  == IF side = "long" THEN bars[i-2].h ELSE bars[i-2].l
      last == IF side = "long" THEN bars[i].h ELSE bars[i].l
  IN  (IF side # "none" /\ bars[i].db = BiasOf(side)
         THEN <<Pending("limit", "FVG_cont", side, <<(near + far) \div 2>>, <<>>, i, Window),
                Pending("limit", "FVG_cont_short", side, <<near - (near - far) \div 4>>, <<>>, i, ShortWindow)>>
         ELSE <<>>)
      \o (IF side # "none" /\ bars[i].range
            THEN <<Pending("limit", "FVG_react", OtherSide(side), <<last>>, <<>>, i, Window)>> ELSE <<>>)

\* The mean reversion signal that the variants of entry share.
FadeSide(bar) ==
  CASE bar.srsi < 15 /\ bar.db = "bull" -> "long"
    [] bar.srsi > 85 /\ bar.db = "bear" -> "short"
    [] OTHER -> "none"

Rungs(px, side, a, b, c) ==
  LET at(twelfths) == px + Beyond(side) * ((Range1 * twelfths) \div 12) IN <<at(a), at(b), at(c)>>

FadePendings(bar, i) ==
  LET side == FadeSide(bar)
      px == bar.c
  IN  IF side = "none" THEN <<>>
      ELSE <<Pending("limit", "MR8_e_retrace", side, <<Rungs(px, side, 0, 6, 12)[2]>>, <<>>, i, Window),
             Pending("reclaim", "MR8_e_reclaim", side, <<>>, <<>>, i, ReclaimWindow),
             Pending("confirm", "MR8_e_confirm", side, <<>>, <<>>, i, Window),
             Pending("ladder", "MR8_laddered", side, Rungs(px, side, 0, 6, 12), <<px>>, i, Window)>>

\* A pull-back in a falling market; S1 wants the daily bias as well.
TrendPendings(bar, i) ==
  LET both(base, name) ==
        <<Pending("ladder", name, "short", Rungs(bar.c, "short", 0, 6, 12), <<bar.c>>, i, Window),
          Pending("bounce", base, "short", Rungs(bar.c, "short", 4, 8, 12), <<>>, i, Window)>>
  IN  (IF bar.bear /\ bar.db = "bear" THEN both("S1", "S1_MTF_laddered") ELSE <<>>)
      \o (IF bar.bear THEN both("S2", "S2_laddered") ELSE <<>>)

Registered(bars, i) == GapPendings(bars, i) \o FadePendings(bars[i], i) \o TrendPendings(bars[i], i)

\* The signals entered at the close of the bar.
AtClose(bars, i) ==
  LET at(name, side) == [name |-> name, side |-> side, entry |-> bars[i].c, from |-> i]
      gap == GapSide(bars, i)
  IN  {s \in {at("MR8_MTF", FadeSide(bars[i])), at("FVG_disp", IF bars[i].db = BiasOf(gap) THEN gap ELSE "none")} :
         s.side # "none"}

-----------------------------------------------------------------------------
(* detect: one iteration; what waits is processed before more is registered *)

Walked(waiting, bars, i, pushed) ==
  LET done == ProcessAll(waiting, bars, i, pushed)
  IN  [kept |-> done.kept \o Registered(bars, i), pushed |-> done.pushed]

Detect(bar) ==
  LET bars == Append(tape, bar)
      i == Len(bars)
      walked == Walked(pendings, bars, i, signals)
  IN  /\ i <= TapeLength
      /\ tape' = bars
      /\ pendings' = walked.kept
      /\ signals' = PushAll(walked.pushed, AtClose(bars, i), i)

BackTestInit == tape = <<>> /\ pendings = <<>> /\ signals = {}
BackTestNext == \E bar \in Candles : Detect(bar)
BackTestSpec == BackTestInit /\ [][BackTestNext]_backTestVars

-----------------------------------------------------------------------------
(* sim: a signal against the bars that follow, by one exit                  *)

\* The same without the comparison with the stop in place.
TightenedAnyway(s, exit, stop, bar) ==
  LET peak == IF s.side = "long" THEN bar.h ELSE bar.l
  IN  IF exit.trail > 0 THEN peak + Beyond(s.side) * exit.trail * Range1 ELSE stop

\* The stop after a bar that hit neither stop nor target: it only tightens.
Tightened(s, exit, stop, bar) ==
  LET peak == IF s.side = "long" THEN bar.h ELSE bar.l
      up   == -Beyond(s.side)
      even == exit.be /\ up * (peak - s.entry) >= exit.sl * Range1
      trailed == peak - up * exit.trail * Range1
      tighter(a, b) == IF s.side = "long" THEN Max({a, b}) ELSE Min({a, b})
  IN  tighter(IF even THEN tighter(stop, s.entry) ELSE stop, IF exit.trail > 0 THEN trailed ELSE stop)

NoTarget == 99

\* The price the trade leaves at; the stop is looked at before the target.
Sim(s, exit, bars) ==
  LET up     == -Beyond(s.side)
      target == s.entry + up * exit.tp * Range1
      held   == 1..(Min({Len(bars), s.i + MaxHold}) - s.i)
      worst(k) == IF up = 1 THEN bars[s.i + k].l ELSE bars[s.i + k].h
      best(k)  == IF up = 1 THEN bars[s.i + k].h ELSE bars[s.i + k].l
      stop[k \in {0} \cup held] ==  \* once the k-th bar has been walked
        IF k = 0 THEN s.entry - up * exit.sl * Range1 ELSE Tightened(s, exit, stop[k - 1], bars[s.i + k])
      stopped(k) == up * (worst(k) - stop[k - 1]) <= 0
      reached(k) == exit.tp < NoTarget /\ up * (best(k) - target) >= 0
      leaves == {k \in held : stopped(k) \/ reached(k)}
  IN  IF leaves = {} THEN bars[s.i + Max(held)].c
      ELSE IF stopped(Min(leaves)) THEN stop[Min(leaves) - 1] ELSE target

-----------------------------------------------------------------------------
(* run: the daily bias of a bar, and of the tape that ended with that bar   *)

Day(i) == (i - 1) \div BarsPerDay
DayClose(bars, d) == bars[Max({i \in 1..Len(bars) : Day(i) = d})].c

\* idxAt: the last daily bar that opened before the bar.
IdxAt(bars, i) == Max({-1} \cup {d \in {Day(k) : k \in 1..Len(bars)} : d * BarsPerDay < i - 1})

DBull(bars, i) ==
  CASE IdxAt(bars, i) < 0 -> "none"
    [] IdxAt(bars, i) >= 0 /\ DayClose(bars, IdxAt(bars, i)) > Average -> "bull"
    [] OTHER -> "bear"

-----------------------------------------------------------------------------
(* Properties *)

\* The setups, by how they enter.
AtOnce      == {"MR8_MTF", "FVG_disp"}
InGaps      == {"FVG_cont", "FVG_cont_short"}
Limits      == InGaps \cup {"FVG_react", "MR8_e_retrace"}
Reversals   == {"MR8_e_reclaim", "MR8_e_confirm"}
Laddered    == {"MR8_laddered", "S1_MTF_laddered", "S2_laddered"}
BounceFills == {"S1_bounceonly", "S2_bounceonly"}
BounceConts == {"S1_bounce_cont", "S2_bounce_cont"}

\* The bars a setup has to enter.
WindowOf(name) ==
  CASE name = "FVG_cont_short" -> ShortWindow
    [] name = "MR8_e_reclaim"  -> ReclaimWindow
    [] OTHER                   -> Window

\* A price at least so far beyond the close of the signal, and not beyond the
\* last rung.
PulledBack(bars, from, side, least, price) ==
  (price - bars[from].c) * Beyond(side) \in least..Range1

\* One of the bars from a to b trades at the price.
TradedAt(bars, a, b, side, price) == \E k \in a..b : TradesAt(bars[k], side, price)

\* A price inside the gap that the bar made with the last but one.
InGap(bars, from, side, price) ==
  /\ from > 2
  /\ IF side = "long" THEN price \in bars[from - 2].h..bars[from].l
                      ELSE price \in bars[from].h..bars[from - 2].l

\* A bounce fills a rung after the bar of its signal, none before the first.
BounceFilled(s, bars, i) ==
  /\ PulledBack(bars, s.from, s.side, Range1 \div 3, s.entry)
  /\ TradedAt(bars, s.from + 1, i, s.side, s.entry)

\* What a variant enters at on bar i, by its name.
PriceIsHonest(s, bars, i) ==
  /\ s.name \in AtOnce \cup Reversals => s.entry = bars[i].c
  /\ s.name \in Limits => TradesAt(bars[i], s.side, s.entry)
  /\ s.name \in InGaps => InGap(bars, s.from, s.side, s.entry)
  /\ s.name \in Laddered \cup {"MR8_e_retrace"} => PulledBack(bars, s.from, s.side, 0, s.entry)
  /\ s.name \in Laddered => TradedAt(bars, s.from, i, s.side, s.entry)
  /\ s.name \in BounceFills => BounceFilled(s, bars, i)
  /\ s.name \in BounceConts =>
       BounceFilled(s, bars, i) \/ (s.entry = bars[i].c /\ i = s.from + Window)

\* A variant of entry never fills with what it could not have had: not on
\* the bar that signalled it nor before, and not after the window of its own
\* name.  A limit fills on a bar that trades there, in the gap when it waits
\* in one; a reversal at the close that confirms it; a ladder at a mean that
\* some bar since its signal has traded at, no further out than its last rung,
\* and a bounce only if it went at least to the first rung afterwards, or at
\* the close of the last bar of its window.  Two signals of a setup are a
\* cooldown apart (optimize.js lines 160-193 and 317-484).
FillsAreHonest ==
  \A s \in signals :
    /\ s.name \notin AtOnce => s.i > s.from /\ s.i <= s.from + WindowOf(s.name)
    /\ PriceIsHonest(s, tape, s.i)
    /\ \A t \in signals : s # t /\ s.name = t.name => s.i - t.i \notin (1 - Cooldown)..(Cooldown - 1)

\* Whatever the exit, a simulated trade loses at most the distance to its
\* first stop and gains at most its target: neither the break-even, the
\* trailing nor the end of the tape gives a result beyond the plan.
OutcomeWithinPlan ==
  \A s \in signals : \A exit \in Exits :
    s.i < Len(tape) =>
      LET gain == -Beyond(s.side) * (Sim(s, exit, tape) - s.entry)
      IN  gain >= -exit.sl * Range1 /\ (exit.tp < NoTarget => gain <= exit.tp * Range1)

\* A simulated trade is one that could have been taken, with its plan.
BackTestHonest == FillsAreHonest /\ OutcomeWithinPlan

\* The comment of idxAt says that the daily bar it picks has closed before
\* the bar ("sans lookahead").  Then the bias of a bar is the one that was
\* known when it opened, whatever comes after it.
NoHindsight == \A i \in 1..Len(tape) : DBull(tape, i) = DBull(SubSeq(tape, 1, i), i)
=============================================================================
