------------------------------- MODULE Candles -------------------------------
(***************************************************************************)
(* candles.js and confirm.js: what the last bars of a chart say, and when  *)
(* that is a confirmation.                                                 *)
(*                                                                         *)
(* A pattern is a confirmation only inside a zone of its side and not      *)
(* against the trend.  Qualities and strengths are in hundredths.          *)
(***************************************************************************)
EXTENDS Zones

Bull(b) == b.c > b.o
Bear(b) == b.c < b.o
Span(b) == Max({b.h - b.l, 1})
Upper(b) == b.h - Max({b.o, b.c})
Lower(b) == Min({b.o, b.c}) - b.l

\* The real body of a covers the real body of b, which is smaller.
Engulfs(a, b) ==
  /\ Body(a) > Body(b)
  /\ Max({a.o, a.c}) >= Max({b.o, b.c}) /\ Min({a.o, a.c}) <= Min({b.o, b.c})

Pattern(name, dir, strength) == [pattern |-> name, dir |-> dir, strength |-> strength]
NoPattern == Pattern("none", "neutral", 0)

-----------------------------------------------------------------------------
(* detectPattern: the first pattern of the list that the last bars show     *)

Patterns ==
  << Pattern("doji", "neutral", 20),
     Pattern("hammer", "long", 60),             Pattern("shooting_star", "short", 60),
     Pattern("bullish_engulfing", "long", 70),  Pattern("bearish_engulfing", "short", 70),
     Pattern("morning_star", "long", 75),       Pattern("evening_star", "short", 75),
     Pattern("strong_bull", "long", 55),        Pattern("strong_bear", "short", 55),
     Pattern("lower_wick_rejection", "long", 45), Pattern("upper_wick_rejection", "short", 45) >>

Shows(bars, name) ==
  LET n  == Len(bars)
      c0 == bars[n]
      smallMid == n >= 3 /\ 10 * Body(bars[n - 1]) < 4 * Span(bars[n - 1])
  IN  CASE name = "doji" -> 10 * Body(c0) < Span(c0)
        [] name = "hammer" -> Lower(c0) >= 2 * Body(c0) /\ Upper(c0) <= Body(c0) /\ 2 * Body(c0) < Span(c0)
        [] name = "shooting_star" -> Upper(c0) >= 2 * Body(c0) /\ Lower(c0) <= Body(c0) /\ 2 * Body(c0) < Span(c0)
        [] name = "bullish_engulfing" -> n >= 2 /\ Engulfs(c0, bars[n - 1]) /\ Bull(c0) /\ Bear(bars[n - 1])
        [] name = "bearish_engulfing" -> n >= 2 /\ Engulfs(c0, bars[n - 1]) /\ Bear(c0) /\ Bull(bars[n - 1])
        [] name = "morning_star" ->
             smallMid /\ Bear(bars[n - 2]) /\ Bull(c0) /\ 2 * c0.c > bars[n - 2].o + bars[n - 2].c
        [] name = "evening_star" ->
             smallMid /\ Bull(bars[n - 2]) /\ Bear(c0) /\ 2 * c0.c < bars[n - 2].o + bars[n - 2].c
        [] name = "strong_bull" -> 10 * Body(c0) >= 8 * Span(c0) /\ Bull(c0)
        [] name = "strong_bear" -> 10 * Body(c0) >= 8 * Span(c0) /\ Bear(c0)
        [] name = "lower_wick_rejection" -> 2 * Lower(c0) >= 3 * Body(c0)
        [] name = "upper_wick_rejection" -> 2 * Upper(c0) >= 3 * Body(c0)

DetectPattern(bars) ==
  LET shown == {i \in DOMAIN Patterns : bars # <<>> /\ Shows(bars, Patterns[i].pattern)}
  IN  IF shown = {} THEN NoPattern ELSE Patterns[Min(shown)]

-----------------------------------------------------------------------------
(* locationQuality and confirmation                                         *)

ZoneTypes(dir) ==
  {"flip", "order_block", "fvg", "hvn", "lvn", "vwap"} \cup
    (IF dir = "long" THEN {"support", "eql", "pdl", "pwl"} ELSE {"resistance", "eqh", "pdh", "pwh"})

\* A zone where a trade of that side is looked for.
Serves(z, dir) ==
  z.type \in ZoneTypes(dir) /\ z.side \in {"none", IF dir = "long" THEN "bull" ELSE "bear"}

Probe(b, dir) == IF dir = "long" THEN b.l ELSE b.h

\* 100 inside, falling to 0 at half an average true range; ten for each type
\* of zone that overlaps it.
QualityAt(probe, z) ==
  LET away == Min({Gapped(probe, z.lo), Gapped(probe, z.hi)})
      near == IF z.lo <= probe /\ probe <= z.hi THEN 100
              ELSE IF 2 * away <= Atr THEN (200 * (Atr - 2 * away) + Atr) \div (2 * Atr)
              ELSE 0
  IN  Min({100, near + 10 * Cardinality(z.confluence)})

LocationQuality(b, zones, dir) ==
  IF dir = "neutral" THEN 0
  ELSE Max({0} \cup {QualityAt(Probe(b, dir), z) : z \in {y \in zones : Serves(y, dir)}})

\* Mutant of AlignedHtf: any higher timeframe will do.
AlignedAny(dir, bias) == dir \in {"long", "short"}

AlignedHtf(dir, bias) ==
  \/ dir = "long" /\ bias # "bearish"
  \/ dir = "short" /\ bias # "bullish"

Threshold == 50

Confirmation(bars, zones, bias) ==
  LET det == DetectPattern(bars)
      lq  == LocationQuality(bars[Len(bars)], zones, det.dir)
  IN  [pattern |-> det.pattern, strength |-> det.strength, location_quality |-> lq,
       confirmation_valid |-> /\ det.pattern # "none" /\ det.dir # "neutral"
                              /\ lq >= Threshold /\ AlignedHtf(det.dir, bias),
       side |-> IF det.dir = "neutral" THEN "none" ELSE det.dir]

-----------------------------------------------------------------------------
(* confirm.js: the radar's confirmation of an armed level, by family.  The  *)
(* mean reversion family confirms at once and needs no bar.                 *)

SweepK == 15      \* hundredths of the average true range beyond the level
SweepWindow == 6

\* Mutant of ConfirmZone: any sweep before the last close, strict for shorts only.
ConfirmZoneAnySweep(side, bars, level) ==
  LET last == bars[Len(bars)]
  IN  /\ IF side = "long" THEN last.c >= level ELSE last.c < level
      /\ \E k \in DOMAIN bars : IF side = "long" THEN bars[k].l < level ELSE bars[k].h > level

\* A close on the right side of the level, with a wick beyond it on that bar
\* or on the bar before: the run of piercing bars that leads to the reclaim.
ConfirmZone(side, bars, level) ==
  LET start == Max({1, Len(bars) - SweepWindow + 1})
      pierces(b)   == IF side = "long" THEN 100 * (level - b.l) > SweepK * Atr
                                       ELSE 100 * (b.h - level) > SweepK * Atr
      reclaimed(b) == IF side = "long" THEN b.c >= level ELSE b.c <= level
  IN  \E i \in start..Len(bars) :
        /\ reclaimed(bars[i])
        /\ \E k \in {i, i - 1} \cap (start..i) : pierces(bars[k])

\* The last bar tests the level and closes back on the trade's side of it.
ConfirmTrend(side, bars, level) ==
  LET b == bars[Len(bars)]
  IN  IF side = "short" THEN b.h >= level /\ b.c < level ELSE b.l <= level /\ b.c > level

SetupFamily ==
  [S1 |-> "trend", S2 |-> "trend", S3 |-> "trend", S12 |-> "trend",
   S5 |-> "mr", MR1 |-> "mr", MR2 |-> "mr", MR3 |-> "mr", MR4 |-> "mr", MR7 |-> "mr", MR8 |-> "mr",
   S_long_dip |-> "long_watch", S_long_break |-> "long_watch", reaction_zone |-> "zone"]

ConfirmCandle(family, side, bars, level) ==
  CASE family = "mr" -> TRUE
    [] family = "zone" -> bars # <<>> /\ ConfirmZone(side, bars, level)
    [] family \in {"trend", "long_watch"} -> bars # <<>> /\ ConfirmTrend(side, bars, level)
=============================================================================
