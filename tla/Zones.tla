-------------------------------- MODULE Zones --------------------------------
(***************************************************************************)
(* zones.js: the zones of a chart where a reaction is expected.            *)
(*                                                                         *)
(* The volumes of the bars are represented by what zones.js takes from     *)
(* them: the price of the volume-weighted average, and the prices of the   *)
(* bins that traded most and least.  The weekly chart is left out, which   *)
(* no caller passes.  Zones form a set: two that are alike in everything   *)
(* count once.                                                             *)
(***************************************************************************)
EXTENDS Structure

CONSTANT MaxZones   \* the nearest zones that are kept (14)

ASSUME ZonesAssumption == MaxZones \in Nat \ {0}

Zone == [type : {"fvg", "order_block", "flip", "eqh", "eql", "vwap", "hvn", "lvn", "pdh", "pdl"},
         side : {"none", "bull", "bear"}, lo : Nat, hi : Nat,
         status : {"fresh", "mitigated", "invalidated", "unset"}, n : Nat]

Touches(bars, lo, hi) == Cardinality({j \in DOMAIN bars : bars[j].l <= hi /\ bars[j].h >= lo})

-----------------------------------------------------------------------------
(* Fair value gaps: the bar before and the bar after a move do not overlap  *)

\* What later bars did to the gap: closed through it, or entered it.
GapStatus(side, lo, hi, later) ==
  LET through(b) == IF side = "bull" THEN b.c < lo ELSE b.c > hi
      enters(b)  == IF side = "bull" THEN b.l <= hi ELSE b.h >= lo
  IN  CASE \E i \in DOMAIN later : through(later[i]) -> "invalidated"
        [] /\ ~\E i \in DOMAIN later : through(later[i])
           /\ \E i \in DOMAIN later : enters(later[i]) -> "mitigated"
        [] OTHER -> "fresh"

Gap3(side, lo, hi, later) ==
  [type |-> "fvg", side |-> side, lo |-> lo, hi |-> hi, status |-> GapStatus(side, lo, hi, later), n |-> 1]

\* fvgZones, by the bar that completes the gap.
FvgAt(bars, k) ==
  LET later == SubSeq(bars, k + 1, Len(bars))
  IN  CASE bars[k].l > bars[k - 2].h -> {Gap3("bull", bars[k - 2].h, bars[k].l, later)}
        [] bars[k].h < bars[k - 2].l -> {Gap3("bear", bars[k].h, bars[k - 2].l, later)}
        [] OTHER -> {}

FvgLookback == 60
FvgZones(bars) ==
  UNION {FvgAt(bars, k) : k \in Max({3, Len(bars) - FvgLookback + 1})..Len(bars)}

-----------------------------------------------------------------------------
(* Order blocks: the last bar against a strong bar that follows it          *)

OrderBlockSide(bars, k) ==
  LET move == bars[k + 1].c - bars[k + 1].o
  IN  CASE 10 * Body(bars[k + 1]) < 12 * Atr -> "none"
        [] move > 0 /\ 10 * move >= 12 * Atr /\ bars[k].c < bars[k].o -> "bull"
        [] move < 0 /\ -10 * move >= 12 * Atr /\ bars[k].c > bars[k].o -> "bear"
        [] OTHER -> "none"

\* The six most recent ones.
OrderBlockZones(bars) ==
  LET at == {k \in Max({2, Len(bars) - 119})..(Len(bars) - 1) : OrderBlockSide(bars, k) # "none"}
  IN  {[type |-> "order_block", side |-> OrderBlockSide(bars, k), lo |-> bars[k].l, hi |-> bars[k].h,
        status |-> "unset", n |-> 1] : k \in {m \in at : Cardinality({i \in at : i > m}) < 6}}

-----------------------------------------------------------------------------
(* Supports and resistances: swings clustered in bands.  The comparison     *)
(* with the price reads a mid the bands do not have: all are "flip".        *)

Near05(a, b) == 2 * Gapped(a, b) <= Atr

Clusters(prices) ==
  LET starts == {p \in prices : \A q \in prices : q < p => ~Near05(p, q)}
      ends   == {p \in prices : \A q \in prices : q > p => ~Near05(p, q)}
  IN  {<<lo, Min({p \in ends : p >= lo})>> : lo \in starts}

SrZones(bars) ==
  LET of(at, px(_)) ==
        {[type |-> "flip", side |-> "none", lo |-> band[1], hi |-> band[2], status |-> "unset",
          n |-> Cardinality({j \in at : band[1] <= px(j) /\ px(j) <= band[2]})] :
            band \in Clusters({px(j) : j \in at})}
      high(j) == bars[j].h
      low(j)  == bars[j].l
  IN  of(Highs(bars), high) \cup of(Lows(bars), low)

\* equalLevels: each swing with the next one at its level.
EqualLevels(bars) ==
  LET pairs(type, at, px(_)) ==
        {[type |-> type, side |-> "none", lo |-> Min({px(e[1]), px(e[2])}), hi |-> Max({px(e[1]), px(e[2])}),
          status |-> "unset", n |-> 1] :
            e \in {d \in at \X at : /\ d[1] < d[2] /\ 4 * Gapped(px(d[1]), px(d[2])) <= Atr
                                    /\ \A m \in at : d[1] < m /\ m < d[2]
                                         => 4 * Gapped(px(d[1]), px(m)) > Atr}}
      high(j) == bars[j].h
      low(j)  == bars[j].l
  IN  pairs("eqh", Highs(bars), high) \cup pairs("eql", Lows(bars), low)

Level(type, p) == [type |-> type, side |-> "none", lo |-> p, hi |-> p, status |-> "unset", n |-> 1]

\* vwapZone and volumeProfile; the width of their bands, a tenth of the
\* average true range and a 24th of the chart's range, is below the grid.
VolumeZones(volume) == {Level("vwap", volume.vwap), Level("hvn", volume.hvn), Level("lvn", volume.lvn)}

\* prevPeriodZones: the extremes of the day before, in bands as narrow.
PrevDayZones(day) == {Level("pdh", day.h), Level("pdl", day.l)}

-----------------------------------------------------------------------------
(* buildZones                                                               *)

\* Distances are in hundredths of the average true range, strengths in tenths.
Finished(bars, z, all) ==
  LET touches == Touches(bars, z.lo, z.hi)
      px      == bars[Len(bars)].c
  IN  [type |-> z.type, side |-> z.side, lo |-> z.lo, hi |-> z.hi,
       status |-> IF z.status # "unset" THEN z.status
                  ELSE IF touches <= 1 THEN "fresh" ELSE "mitigated",
       strength |-> Min({10, 3 * z.n + Min({touches, 5})}),
       dist |-> (50 * Gapped(2 * px, z.lo + z.hi)) \div Atr,
       confluence |-> {o.type : o \in {y \in all : y.lo <= z.hi /\ y.hi >= z.lo}} \ {z.type}]

Raw(bars, day, volume) ==
  SrZones(bars) \cup FvgZones(bars) \cup OrderBlockZones(bars) \cup EqualLevels(bars)
    \cup VolumeZones(volume) \cup PrevDayZones(day)

AllZones(bars, day, volume) ==
  IF Len(bars) < 6 THEN {}
  ELSE LET raw == Raw(bars, day, volume) IN {Finished(bars, z, raw) : z \in raw}

\* The zones that are kept however the list is ordered, and those at the
\* distance where it is cut.
Inside(all) == {z \in all : Cardinality({y \in all : y.dist <= z.dist}) <= MaxZones}
AtCut(all) == {z \in all \ Inside(all) : Cardinality({y \in all : y.dist < z.dist}) < MaxZones}

\* The lists that may come out: zones at one distance stay in the order they
\* were found in, which is left open.
BuildZones(bars, day, volume) ==
  LET all == AllZones(bars, day, volume)
  IN  {Inside(all) \cup kept : kept \in
         {k \in SUBSET AtCut(all) :
            Cardinality(k) = Min({Cardinality(AtCut(all)), MaxZones - Cardinality(Inside(all))})}}
=============================================================================
