----------------------------- MODULE Perception -----------------------------
(***************************************************************************)
(* confluence.js, perception.js and the candidates that scan.js takes from *)
(* them: the chart of a pair is read as structure, zones and candles, the  *)
(* readings are scored for both sides, and the better side is proposed.    *)
(*                                                                         *)
(* The chart grows by closing bars; its last bar is still forming and      *)
(* trades go on changing it.  Points are in 1/1200, scores in tenths.      *)
(* The order flow is not modelled: its twenty points are left out, as in   *)
(* the scan of all the pairs, which calls buildPerception without it.      *)
(***************************************************************************)
EXTENDS Candles

CONSTANTS
  Shapes,    \* the bars a chart is made of
  MaxBars,   \* the longest chart (bound)
  MaxPrice,  \* prices lie in 0..MaxPrice (bound)
  PrevDay,   \* the high and the low of the day before
  Volumes    \* where the volume traded: its average, the most and the least

ASSUME PerceptionAssumption ==
  /\ Shapes \subseteq {b \in Bar : b.l <= Min({b.o, b.c}) /\ Max({b.o, b.c}) <= b.h /\ b.h <= MaxPrice}
  /\ MaxBars \in Nat /\ MaxPrice \in Nat
  /\ PrevDay \in [h : 0..MaxPrice, l : 0..MaxPrice]
  /\ Volumes \subseteq [vwap : 0..MaxPrice, hvn : 0..MaxPrice, lvn : 0..MaxPrice]

VARIABLE chart

ChartInit == chart = <<>>

\* A bar starts to form: the one before it is closed.
CloseBar == Len(chart) < MaxBars /\ \E b \in Shapes : chart' = Append(chart, b)

\* The forming bar goes on from the same open.
TradeOn ==
  /\ chart # <<>>
  /\ \E b \in Shapes : b.o = chart[Len(chart)].o /\ chart' = [chart EXCEPT ![Len(chart)] = b]

ChartNext == CloseBar \/ TradeOn
ChartSpec == ChartInit /\ [][ChartNext]_chart

-----------------------------------------------------------------------------
(* scoreSide                                                                *)

Want(dir) == IF dir = "long" THEN "up" ELSE "down"
Opposite(dir) == IF dir = "long" THEN "short" ELSE "long"

StructurePoints(dir, s) ==
  LET trend == IF s.trend = Want(dir) THEN 14 ELSE IF s.trend = "range" THEN 6 ELSE 0
      turn  == IF s.mss.dir = Want(dir) THEN 6 ELSE IF s.choch.dir = Want(dir) THEN 3 ELSE 0
  IN  1200 * Min({20, trend + turn})

FreshPoints == [fresh |-> 7200, mitigated |-> 4320, invalidated |-> 1440]

ZonePoints(z) == 64 * (150 - z.dist) + FreshPoints[z.status] + 720 * z.strength

\* Close zones of the side; confluence.js has no lvn in its lists.
Reachable(dir, zones) == {z \in zones : Serves(z, dir) /\ z.type # "lvn" /\ z.dist <= 150}

\* Of the best ones the nearest, as zones come by distance.  Those at one
\* distance come as they were found, which is left open.
BestZones(dir, zones) ==
  LET near == Reachable(dir, zones)
      best == {z \in near : \A y \in near : ZonePoints(y) <= ZonePoints(z)}
  IN  {z \in best : \A y \in best : z.dist <= y.dist}

BestZone(dir, zones) == CHOOSE z \in BestZones(dir, zones) : TRUE

CandlePoints(dir, candle) ==
  CASE candle.side # dir -> 0
    [] candle.side = dir /\ candle.confirmation_valid -> 3 * candle.strength * candle.location_quality
    [] candle.side = dir /\ ~candle.confirmation_valid ->
         IF candle.location_quality >= 30 THEN 7200 ELSE 0

\* What the other kinds of zone at its level are worth.
Stacked(z) == Min({9, 3 * Cardinality(z.confluence)})

\* Mutant of LiquidityPoints: both sides look for their targets above.
LiquidityPointsAbove(dir, zones) ==
  LET stacked == IF Reachable(dir, zones) = {} THEN 0 ELSE Stacked(BestZone(dir, zones))
  IN  1200 * (stacked + 3 * Cardinality({z.type : z \in zones} \cap {"eqh", "pdh"}))

LiquidityPoints(dir, zones) ==
  LET stacked == IF Reachable(dir, zones) = {} THEN 0 ELSE Stacked(BestZone(dir, zones))
      targets == IF dir = "long" THEN {"eqh", "pdh"} ELSE {"eql", "pdl"}
  IN  1200 * (stacked + 3 * Cardinality({z.type : z \in zones} \cap targets))

ScoreSide(dir, s, zones, candle) ==
  LET zone   == IF Reachable(dir, zones) = {} THEN 0 ELSE ZonePoints(BestZone(dir, zones))
      points == StructurePoints(dir, s) + zone + CandlePoints(dir, candle) + LiquidityPoints(dir, zones)
  IN  (points + 60) \div 120

-----------------------------------------------------------------------------
(* confluence: the side with the better score and what is proposed          *)

To14(score) == (14 * score + 50) \div 100
FloorB == 60
FloorA == 90
Tier14(score14) == CASE score14 >= FloorA -> "A+"
                     [] score14 >= FloorB /\ score14 < FloorA -> "B"
                     [] OTHER -> "sub"

BestSide(long, short) == IF long >= short THEN "long" ELSE "short"

Decide(long, short, zones, candle) ==
  LET side  == BestSide(long, short)
      score14 == To14(Max({long, short}))
      valid == candle.confirmation_valid /\ candle.side = side
  IN  [long |-> long, short |-> short, side |-> side, score14 |-> score14, tier |-> Tier14(score14),
       opp14 |-> To14(Min({long, short})),
       decision |-> CASE valid -> side
                      [] ~valid /\ (\E z \in zones : z.dist <= 50) -> "wait"
                      [] ~valid /\ ~(\E z \in zones : z.dist <= 50) -> "no_trade",
       conviction |-> IF valid THEN Tier14(score14) ELSE "none",
       would_gate |-> valid /\ score14 >= FloorB]

Confluence(s, zones, candle) ==
  Decide(ScoreSide("long", s, zones, candle), ScoreSide("short", s, zones, candle), zones, candle)

-----------------------------------------------------------------------------
(* buildPerception, compactPerception, perceptionCandidates                 *)

HtfFromTrend(trend) ==
  CASE trend = "up" -> "bullish" [] trend = "down" -> "bearish" [] trend = "range" -> "neutral"

MinBars == 6

Together(s, zones, candle) ==
  [structure |-> s, zones |-> zones, candles |-> candle, confluence |-> Confluence(s, zones, candle)]

ReadCandles(bars, s, zones) == Together(s, zones, Confirmation(bars, zones, HtfFromTrend(s.trend)))

\* From six bars on, with the zones that were built of them.
Perceive(bars, zones) == ReadCandles(bars, MarketStructure(bars), zones)

\* What the scan keeps of it.
Compact(perc) ==
  [trend |-> perc.structure.trend, choch |-> perc.structure.choch.dir, mss |-> perc.structure.mss.dir,
   near |-> IF perc.zones = {} THEN 1000 ELSE Min({z.dist : z \in perc.zones}),
   candle |-> IF perc.candles.confirmation_valid THEN perc.candles.side ELSE "none",
   confluence |-> perc.confluence]

TrendSeen(pc, side) == pc.trend = (IF side = "long" THEN "bull" ELSE "bear")

\* A pair whose structure goes the way of a tradeable side, with a zone or a
\* candle that supports it; covered is the side the setups already propose.
PerceptionCandidate(pc, covered) ==
  LET side == pc.confluence.side
  IN  /\ pc.confluence.score14 >= FloorB
      /\ pc.mss = Want(side) \/ pc.choch = Want(side) \/ TrendSeen(pc, side)
      /\ covered # side
      /\ pc.candle = side \/ pc.near <= 100
-----------------------------------------------------------------------------
(* Properties *)

\* Where the volume of a chart may have traded, and the zones it may show.
Traded(bars) ==
  LET between(p) == \E i, j \in DOMAIN bars : bars[i].l <= p /\ p <= bars[j].h
  IN  {v \in Volumes : between(v.vwap) /\ between(v.hvn) /\ between(v.lvn)}

Shown(bars) == UNION {BuildZones(bars, PrevDay, v) : v \in Traded(bars)}

\* Every reading has its type, from the first bar on.
Typed(p) ==
  /\ p.structure.trend \in {"up", "down", "range"}
  /\ \A z \in p.zones : z.lo <= z.hi /\ z.strength \in 0..10 /\ z.dist \in Nat
  /\ p.candles.location_quality \in 0..100
  /\ p.confluence.long \in 0..1000 /\ p.confluence.short \in 0..1000
  /\ p.confluence.opp14 <= p.confluence.score14

ChartTypeOK ==
  /\ chart \in Seq(Shapes) /\ Len(chart) <= MaxBars
  /\ Len(chart) >= MinBars => \A zones \in Shown(chart) : Typed(Perceive(chart, zones))

\* The two sides are treated alike: turning a chart upside down, with the
\* prices where its volume traded, exchanges the long and the short score and
\* turns structure and candle around.  Every comparison of structure.js,
\* zones.js, candles.js and confluence.js is written twice, once for each side.
\* Excepted are charts on which the code has to prefer a side: bars whose two
\* wicks are both dominant are read as long (candles.js:53 comes before :54),
\* a close beyond both last swings counts upwards (structure.js:101), and of
\* zones at one distance those that were found first come first, those of
\* highs before those of lows (zones.js:67), where the list is cut
\* (zones.js:151) and where two are worth the same (confluence.js:56).  Of bins
\* that traded alike, empty ones too, volumeProfile takes the lowest
\* (zones.js:101): its choice is an input here and is turned with the chart.
Upside(b) == [o |-> MaxPrice - b.o, h |-> MaxPrice - b.l, l |-> MaxPrice - b.h, c |-> MaxPrice - b.c]
UpsideDown(bars) == [i \in DOMAIN bars |-> Upside(bars[i])]
Turned == [up |-> "down", down |-> "up", range |-> "range", none |-> "none",
           long |-> "short", short |-> "long", neutral |-> "neutral"]

TwoWays(bars) ==
  \/ 2 * Lower(bars[Len(bars)]) >= 3 * Body(bars[Len(bars)]) /\ 2 * Upper(bars[Len(bars)]) >= 3 * Body(bars[Len(bars)])
  \/ \E j \in DOMAIN bars : LET hs == {i \in Highs(bars) : i < j}
                                ls == {i \in Lows(bars) : i < j}
                            IN  hs # {} /\ ls # {} /\ bars[Max(hs)].h < bars[j].c /\ bars[j].c < bars[Max(ls)].l

Tied(zones) ==
  \E dir \in {"long", "short"} : \E y, z \in BestZones(dir, zones) : Stacked(y) # Stacked(z)

TurnedAround(p, q) ==
  /\ q.structure.trend = Turned[p.structure.trend]
  /\ q.structure.choch.dir = Turned[p.structure.choch.dir]
  /\ q.candles.side = Turned[p.candles.side]
  /\ q.candles.confirmation_valid = p.candles.confirmation_valid
  /\ q.confluence.long = p.confluence.short /\ q.confluence.short = p.confluence.long
  /\ p.confluence.long # p.confluence.short =>
       PerceptionCandidate(Compact(p), "none") = PerceptionCandidate(Compact(q), "none")

DayTurned(day) == [h |-> MaxPrice - day.l, l |-> MaxPrice - day.h]
VolumeTurned(v) == [vwap |-> MaxPrice - v.vwap, hvn |-> MaxPrice - v.hvn, lvn |-> MaxPrice - v.lvn]

SidesAlike ==
  Len(chart) >= MinBars /\ ~TwoWays(chart) =>
    \A v \in Traded(chart) :
      AtCut(AllZones(chart, PrevDay, v)) = {} =>
        \A zones \in BuildZones(chart, PrevDay, v),
           zones2 \in BuildZones(UpsideDown(chart), DayTurned(PrevDay), VolumeTurned(v)) :
          ~Tied(zones) => TurnedAround(Perceive(chart, zones), Perceive(UpsideDown(chart), zones2))

\* The radar's confirmations treat the two sides alike as well: a level that
\* is swept and reclaimed, or tested and rejected, for a long is so for a
\* short of the chart turned upside down.
ConfirmedAlike ==
  chart # <<>> =>
    \A family \in {"zone", "trend"}, level \in 0..MaxPrice :
      ConfirmCandle(family, "long", chart, level)
        <=> ConfirmCandle(family, "short", UpsideDown(chart), MaxPrice - level)

\* Longs and shorts are treated alike, from the structure to the candle that
\* lets an order through.
MirrorImage == SidesAlike /\ ConfirmedAlike

\* Something the candle of a side rests on, near the last bar or crowded.
Backing(z, side) ==
  LET probe == Probe(chart[Len(chart)], side)
  IN  /\ Serves(z, side)
      /\ \/ 2 * z.lo - Atr <= 2 * probe /\ 2 * probe <= 2 * z.hi + Atr
         \/ Cardinality(z.confluence) >= 5

Backed(p) ==
  LET side == p.confluence.decision
  IN  side \in {"long", "short"} =>
        /\ p.structure.trend # Want(Opposite(side))
        /\ p.candles.side = side
        /\ \E z \in p.zones : Backing(z, side)
        /\ side = BestSide(p.confluence.long, p.confluence.short)

\* A proposal to trade never goes against the trend and is for the side with
\* the better score (confluence.js decides by a candle that was judged with
\* other lists and another distance).  It rests on a zone of its side within
\* half an average true range of the bar, or where five kinds of zone meet:
\* the bonus of candles.js:78 counts at any distance.
ProposalIsBacked == Len(chart) >= MinBars => \A zones \in Shown(chart) : Backed(Perceive(chart, zones))

\* A break of structure against a position, made on one of the last bars,
\* makes its verdict at least weakening.  journal.js:1421: "Un MSS/CHoCH
\* recent CONTRE la position passe le verdict a flipped/weakening".
BreakEscalates ==
  \A side \in {"long", "short"}, scan \in {"no_scan", "hold", "running"} :
    /\ Len(chart) >= MinBars
    /\ LET b == Breaks(chart).choch IN b.dir = Want(Opposite(side)) /\ Len(chart) - b.j <= Recency
    => VerdictRank[MoreProtective(scan, FreshStructureVerdict(side, MarketStructure(chart), Len(chart)))]
         >= VerdictRank["weakening"]
=============================================================================
