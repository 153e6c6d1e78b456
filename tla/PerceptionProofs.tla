-------------------------- MODULE PerceptionProofs --------------------------
(***************************************************************************)
(* The reading of a chart, for every chart: what is proposed rests on      *)
(* something, every part of the reading has its type, and a chart turned   *)
(* upside down is read the other way round.                                *)
(*                                                                         *)
(* The last one follows the reading from its first step to the score.  Two *)
(* charts are mirror images (Mirrors) when their bars are, one by one;     *)
(* then their swings exchange highs and lows, the breaks of structure      *)
(* their direction, the zones their side and their bounds (ReadyTurned),   *)
(* the patterns of candles their names, and the scores of the two sides    *)
(* change places.  What a step shows of the mirror image it shows of the   *)
(* chart too, as the image of the image is the chart (MirrorsBack).        *)
(***************************************************************************)
EXTENDS Perception, Induction

-----------------------------------------------------------------------------
(* What a proposal rests on                                                *)

LEMMA MinOfTwo ==
  ASSUME NEW a \in Int, NEW b \in Int
  PROVE  Min({a, b}) \in {a, b} /\ a >= Min({a, b}) /\ b >= Min({a, b})
<1>1. \E m \in {a, b} : \A k \in {a, b} : m <= k
  <2>1. CASE a <= b
    BY <2>1
  <2>2. CASE b <= a
    BY <2>2
  <2> QED BY <2>1, <2>2
<1> QED BY <1>1 DEF Min

LEMMA MaxOfTwo ==
  ASSUME NEW a \in Int, NEW b \in Int
  PROVE  Max({a, b}) \in {a, b} /\ a <= Max({a, b}) /\ b <= Max({a, b})
<1>1. \E m \in {a, b} : \A k \in {a, b} : m >= k
  <2>1. CASE a <= b
    BY <2>1
  <2>2. CASE b <= a
    BY <2>2
  <2> QED BY <2>1, <2>2
<1> QED BY <1>1 DEF Max

\* A bar of the chart is a bar.
LEMMA ShapeIsBar ==
  \A b \in Shapes : /\ b.o \in Nat /\ b.h \in Nat /\ b.l \in Nat /\ b.c \in Nat
                    /\ b.l <= b.h /\ b.h \in 0..MaxPrice /\ b.l \in 0..MaxPrice
<1> SUFFICES ASSUME NEW b \in Shapes
             PROVE  /\ b.o \in Nat /\ b.h \in Nat /\ b.l \in Nat /\ b.c \in Nat
                    /\ b.l <= b.h /\ b.h \in 0..MaxPrice /\ b.l \in 0..MaxPrice
  OBVIOUS
<1>1. b \in Bar /\ b.l <= Min({b.o, b.c}) /\ Max({b.o, b.c}) <= b.h /\ b.h <= MaxPrice /\ MaxPrice \in Nat
  BY PerceptionAssumption
<1>2. b.o \in Nat /\ b.h \in Nat /\ b.l \in Nat /\ b.c \in Nat
  BY <1>1 DEF Bar
<1>n. b.o \in Int /\ b.c \in Int
  BY <1>2
<1>3. Min({b.o, b.c}) \in {b.o, b.c} /\ b.o >= Min({b.o, b.c})
  BY <1>n, ZenonT(20), MinOfTwo
<1>4. Max({b.o, b.c}) \in {b.o, b.c} /\ b.o <= Max({b.o, b.c})
  BY <1>n, ZenonT(20), MaxOfTwo
<1>5. b.l <= b.h
  BY <1>1, <1>2, <1>3, <1>4
<1> QED BY <1>1, <1>2, <1>5

\* Swings are bars of the chart.
LEMMA SwingsAreBars ==
  ASSUME NEW bars \in Seq(Shapes)
  PROVE  Highs(bars) \subseteq 1..Len(bars) /\ Lows(bars) \subseteq 1..Len(bars)
<1>1. Len(bars) \in Nat /\ PivotK \in Nat \ {0} /\ Len(bars) - Lookback \in Int
  BY StructureAssumption
<1> DEFINE m == Max({PivotK, Len(bars) - Lookback})
<1>i. PivotK \in Int
  BY <1>1
<1>2. m \in Int /\ m >= PivotK
  <2> DEFINE k == Len(bars) - Lookback
  <2>1. k \in Int
    BY <1>1
  <2> HIDE DEF k
  <2>2. Max({PivotK, k}) \in {PivotK, k} /\ PivotK <= Max({PivotK, k})
    BY <1>i, <2>1, ZenonT(20), MaxOfTwo
  <2>3. m = Max({PivotK, k})
    BY DEF k
  <2> QED BY <1>1, <2>1, <2>2, <2>3
<1> HIDE DEF m
<1>3. (m + 1)..(Len(bars) - PivotK) \subseteq 1..Len(bars)
  BY <1>1, <1>2
<1>4. Searched(bars) \subseteq 1..Len(bars)
  BY <1>3 DEF Searched, m
<1> QED BY <1>4 DEF Highs, Lows

\* The names of the zones.
ZoneKinds == {"fvg", "order_block", "flip", "eqh", "eql", "vwap", "hvn", "lvn", "pdh", "pdl"}

LEMMA KindsAreFinite == IsFiniteSet(ZoneKinds)
<1> DEFINE K == {"fvg"} \cup ({"order_block"} \cup ({"flip"} \cup ({"eqh"} \cup {"eql"})))
           L == {"vwap"} \cup ({"hvn"} \cup ({"lvn"} \cup ({"pdh"} \cup {"pdl"})))
<1>1. ZoneKinds = K \cup L
  BY DEF ZoneKinds
<1>2. IsFiniteSet(K)
  BY FS_Singleton, FS_Union
<1>3. IsFiniteSet(L)
  BY FS_Singleton, FS_Union
<1> HIDE DEF K, L
<1> QED BY <1>1, <1>2, <1>3, FS_Union

\* A zone as it is found: a band of prices.
BandOK(z) == z.type \in ZoneKinds /\ z.lo \in Nat /\ z.hi \in Nat /\ z.lo <= z.hi

LEMMA GapsAreBands ==
  ASSUME NEW bars \in Seq(Shapes), NEW z \in FvgZones(bars)
  PROVE  BandOK(z)
<1>1. Len(bars) \in Nat /\ Len(bars) - FvgLookback + 1 \in Int
  BY DEF FvgLookback
<1> DEFINE m == Max({3, Len(bars) - FvgLookback + 1})
<1>2. m \in Int /\ m >= 3
  <2> DEFINE k == Len(bars) - FvgLookback + 1
  <2>1. k \in Int
    BY <1>1
  <2> HIDE DEF k
  <2>n. 3 \in Int
    OBVIOUS
  <2>2. Max({3, k}) \in {3, k} /\ 3 <= Max({3, k})
    BY <2>1, <2>n, ZenonT(20), MaxOfTwo
  <2>3. m = Max({3, k})
    BY DEF k
  <2> QED BY <2>1, <2>2, <2>3
<1>3. PICK k \in m..Len(bars) : z \in FvgAt(bars, k)
  BY DEF FvgZones
<1> HIDE DEF m
<1>4. k \in 1..Len(bars) /\ k - 2 \in 1..Len(bars)
  BY <1>1, <1>2, <1>3
<1>5. bars[k] \in Shapes /\ bars[k - 2] \in Shapes
  BY <1>4
<1>6. /\ bars[k].l \in Nat /\ bars[k].h \in Nat /\ bars[k - 2].l \in Nat /\ bars[k - 2].h \in Nat
  BY <1>5, ShapeIsBar
<1> DEFINE later == SubSeq(bars, k + 1, Len(bars))
           up == Gap3("bull", bars[k - 2].h, bars[k].l, later)
           down == Gap3("bear", bars[k].h, bars[k - 2].l, later)
<1>7. \/ z = up /\ bars[k].l > bars[k - 2].h
      \/ z = down /\ bars[k].h < bars[k - 2].l
  BY <1>3 DEF FvgAt
<1>8. /\ up.type = "fvg" /\ up.lo = bars[k - 2].h /\ up.hi = bars[k].l
      /\ down.type = "fvg" /\ down.lo = bars[k].h /\ down.hi = bars[k - 2].l
  BY DEF Gap3
<1> HIDE DEF up, down
<1> QED BY <1>6, <1>7, <1>8 DEF BandOK, ZoneKinds

LEMMA BlocksAreBands ==
  ASSUME NEW bars \in Seq(Shapes), NEW z \in OrderBlockZones(bars)
  PROVE  BandOK(z)
<1>1. Len(bars) \in Nat /\ Len(bars) - 119 \in Int
  OBVIOUS
<1> DEFINE m == Max({2, Len(bars) - 119})
<1>2. m \in Int /\ m >= 2
  <2> DEFINE k == Len(bars) - 119
  <2>1. k \in Int
    BY <1>1
  <2> HIDE DEF k
  <2>n. 2 \in Int
    OBVIOUS
  <2>2. Max({2, k}) \in {2, k} /\ 2 <= Max({2, k})
    BY <2>1, <2>n, ZenonT(20), MaxOfTwo
  <2>3. m = Max({2, k})
    BY DEF k
  <2> QED BY <2>1, <2>2, <2>3
<1> DEFINE at == {k \in m..(Len(bars) - 1) : OrderBlockSide(bars, k) # "none"}
           block(k) == [type |-> "order_block", side |-> OrderBlockSide(bars, k), lo |-> bars[k].l, hi |-> bars[k].h,
                        status |-> "unset", n |-> 1]
<1>a. z \in {block(k) : k \in {i \in at : Cardinality({j \in at : j > i}) < 6}}
  BY DEF OrderBlockZones
<1>b. \A k : block(k).type = "order_block" /\ block(k).lo = bars[k].l /\ block(k).hi = bars[k].h
  OBVIOUS
<1> HIDE DEF block
<1>c. PICK k \in at : z = block(k)
  BY <1>a
<1>3. k \in m..(Len(bars) - 1) /\ z.type = "order_block" /\ z.lo = bars[k].l /\ z.hi = bars[k].h
  BY <1>b, <1>c
<1> HIDE DEF m
<1>4. bars[k] \in Shapes
  BY <1>1, <1>2, <1>3
<1>5. bars[k].l \in Nat /\ bars[k].h \in Nat /\ bars[k].l <= bars[k].h
  BY <1>4, ShapeIsBar
<1> QED BY <1>3, <1>5 DEF BandOK, ZoneKinds

\* A cluster is a band: it ends at its start or above.
LEMMA ClustersAreBands ==
  ASSUME NEW prices \in SUBSET (0..MaxPrice), NEW band \in Clusters(prices)
  PROVE  band[1] \in Nat /\ band[2] \in Nat /\ band[1] <= band[2]
<1>0. MaxPrice \in Nat
  BY PerceptionAssumption
<1> DEFINE ends == {p \in prices : \A q \in prices : q > p => ~Near05(p, q)}
<1>1. PICK lo \in prices : band = <<lo, Min({p \in ends : p >= lo})>>
  BY DEF Clusters
<1> DEFINE after == {p \in ends : p >= lo}
<1>2. lo \in 0..MaxPrice
  BY <1>1
<1>3. PICK top \in prices : \A q \in prices : q <= top
  BY <1>0, <1>1, Greatest
<1>4. top \in 0..MaxPrice /\ top >= lo
  BY <1>1, <1>2, <1>3
<1>5. ASSUME NEW q \in prices PROVE ~(q > top)
  <2>1. q \in 0..MaxPrice /\ q <= top
    BY <1>3
  <2> QED BY <1>0, <1>4, <2>1
<1>6. top \in after
  BY <1>4, <1>5
<1>7. after \in SUBSET Nat /\ \A p \in after : p >= lo
  <2>1. after \subseteq prices /\ \A p \in after : p >= lo
    OBVIOUS
  <2> HIDE DEF after
  <2> QED BY <1>0, <2>1
<1> HIDE DEF after
<1>8. PICK least \in after : \A q \in after : least <= q
  BY <1>6, <1>7, Least
<1>9. Min(after) \in after
  BY <1>8 DEF Min
<1>10. band[1] = lo /\ band[2] = Min(after)
  BY <1>1 DEF after
<1>11. Min(after) \in Nat /\ Min(after) >= lo
  BY <1>7, <1>9
<1> QED BY <1>0, <1>2, <1>10, <1>11

LEMMA LevelsAreBands ==
  ASSUME NEW bars \in Seq(Shapes), NEW z \in SrZones(bars)
  PROVE  BandOK(z)
<1> DEFINE highs == {bars[j].h : j \in Highs(bars)}
           lows == {bars[j].l : j \in Lows(bars)}
<1>1. \A j \in 1..Len(bars) : bars[j].h \in 0..MaxPrice /\ bars[j].l \in 0..MaxPrice
  BY ShapeIsBar
<1>2. highs \in SUBSET (0..MaxPrice) /\ lows \in SUBSET (0..MaxPrice)
  BY <1>1, SwingsAreBars
<1> DEFINE zone(band, n) ==
             [type |-> "flip", side |-> "none", lo |-> band[1], hi |-> band[2], status |-> "unset", n |-> n]
           above(band) == Cardinality({j \in Highs(bars) : band[1] <= bars[j].h /\ bars[j].h <= band[2]})
           below(band) == Cardinality({j \in Lows(bars) : band[1] <= bars[j].l /\ bars[j].l <= band[2]})
<1>a. z \in {zone(band, above(band)) : band \in Clusters(highs)}
            \cup {zone(band, below(band)) : band \in Clusters(lows)}
  BY Zenon DEF SrZones
<1>b. \A band, n : LET y == zone(band, n)
                              IN  y.type = "flip" /\ y.lo = band[1] /\ y.hi = band[2]
  OBVIOUS
<1> HIDE DEF zone, above, below, highs, lows
<1>3. \E band \in Clusters(highs) \cup Clusters(lows) : z.type = "flip" /\ z.lo = band[1] /\ z.hi = band[2]
  BY <1>a, <1>b
<1>4. PICK band \in Clusters(highs) \cup Clusters(lows) : z.type = "flip" /\ z.lo = band[1] /\ z.hi = band[2]
  BY <1>3
<1>5. band[1] \in Nat /\ band[2] \in Nat /\ band[1] <= band[2]
  BY <1>2, ClustersAreBands
<1> QED BY <1>4, <1>5 DEF BandOK, ZoneKinds

LEMMA EqualsAreBands ==
  ASSUME NEW bars \in Seq(Shapes), NEW z \in EqualLevels(bars)
  PROVE  BandOK(z)
<1>1. \A j \in 1..Len(bars) : bars[j].h \in Nat /\ bars[j].l \in Nat
  BY ShapeIsBar
<1>2. \/ \E i, j \in Highs(bars) : /\ z.type = "eqh" /\ z.lo = Min({bars[i].h, bars[j].h})
                                   /\ z.hi = Max({bars[i].h, bars[j].h})
      \/ \E i, j \in Lows(bars) : /\ z.type = "eql" /\ z.lo = Min({bars[i].l, bars[j].l})
                                  /\ z.hi = Max({bars[i].l, bars[j].l})
  <2> DEFINE level(type, a, b) == [type |-> type, side |-> "none", lo |-> Min({a, b}), hi |-> Max({a, b}),
                                   status |-> "unset", n |-> 1]
             first == {d \in Highs(bars) \X Highs(bars) :
                         /\ d[1] < d[2] /\ 4 * Gapped(bars[d[1]].h, bars[d[2]].h) <= Atr
                         /\ \A m \in Highs(bars) : d[1] < m /\ m < d[2]
                              => 4 * Gapped(bars[d[1]].h, bars[m].h) > Atr}
             second == {d \in Lows(bars) \X Lows(bars) :
                          /\ d[1] < d[2] /\ 4 * Gapped(bars[d[1]].l, bars[d[2]].l) <= Atr
                          /\ \A m \in Lows(bars) : d[1] < m /\ m < d[2]
                               => 4 * Gapped(bars[d[1]].l, bars[m].l) > Atr}
  <2>1. z \in {level("eqh", bars[e[1]].h, bars[e[2]].h) : e \in first}
              \cup {level("eql", bars[e[1]].l, bars[e[2]].l) : e \in second}
    BY Zenon DEF EqualLevels
  <2>2. /\ \A e \in first : e[1] \in Highs(bars) /\ e[2] \in Highs(bars)
        /\ \A e \in second : e[1] \in Lows(bars) /\ e[2] \in Lows(bars)
    OBVIOUS
  <2>3. \A type, a, b : LET y == level(type, a, b)
                        IN  y.type = type /\ y.lo = Min({a, b}) /\ y.hi = Max({a, b})
    OBVIOUS
  <2> HIDE DEF level, first, second
  <2>4. ASSUME NEW e \in first, z = level("eqh", bars[e[1]].h, bars[e[2]].h)
        PROVE  \E i, j \in Highs(bars) : /\ z.type = "eqh" /\ z.lo = Min({bars[i].h, bars[j].h})
                                          /\ z.hi = Max({bars[i].h, bars[j].h})
    <3> DEFINE a == bars[e[1]].h
               b == bars[e[2]].h
    <3>1. z.type = "eqh" /\ z.lo = Min({a, b}) /\ z.hi = Max({a, b})
      <4> HIDE DEF a, b
      <4> QED BY <2>3, <2>4 DEF a, b
    <3>2. e[1] \in Highs(bars) /\ e[2] \in Highs(bars)
      BY <2>2
    <3> QED BY <3>1, <3>2, Zenon
  <2>5. ASSUME NEW e \in second, z = level("eql", bars[e[1]].l, bars[e[2]].l)
        PROVE  \E i, j \in Lows(bars) : /\ z.type = "eql" /\ z.lo = Min({bars[i].l, bars[j].l})
                                         /\ z.hi = Max({bars[i].l, bars[j].l})
    <3> DEFINE a == bars[e[1]].l
               b == bars[e[2]].l
    <3>1. z.type = "eql" /\ z.lo = Min({a, b}) /\ z.hi = Max({a, b})
      <4> HIDE DEF a, b
      <4> QED BY <2>3, <2>5 DEF a, b
    <3>2. e[1] \in Lows(bars) /\ e[2] \in Lows(bars)
      BY <2>2
    <3> QED BY <3>1, <3>2, Zenon
  <2> QED BY <2>1, <2>4, <2>5, Zenon
<1>3. \E a, b \in Nat : z.type \in {"eqh", "eql"} /\ z.lo = Min({a, b}) /\ z.hi = Max({a, b})
  BY <1>1, <1>2, SwingsAreBars
<1>4. PICK a, b \in Nat : z.type \in {"eqh", "eql"} /\ z.lo = Min({a, b}) /\ z.hi = Max({a, b})
  BY <1>3
<1>n. a \in Int /\ b \in Int
  OBVIOUS
<1>5. Min({a, b}) \in {a, b} /\ a >= Min({a, b})
  BY <1>n, ZenonT(20), MinOfTwo
<1>6. Max({a, b}) \in {a, b} /\ a <= Max({a, b})
  BY <1>n, ZenonT(20), MaxOfTwo
<1> QED BY <1>4, <1>5, <1>6 DEF BandOK, ZoneKinds

\* A zone of the chart: a band, with the kinds of zone that overlap it.
ZoneOK(z) == z.lo \in Nat /\ z.hi \in Nat /\ z.lo <= z.hi /\ z.confluence \subseteq ZoneKinds

\* The zones that are shown are zones of the chart.
LEMMA BuiltOfAll ==
  ASSUME NEW bars, NEW day, NEW v, NEW zones \in BuildZones(bars, day, v)
  PROVE  zones \subseteq AllZones(bars, day, v)
<1> DEFINE all == AllZones(bars, day, v)
<1>1. PICK kept \in SUBSET AtCut(all) : zones = Inside(all) \cup kept
  BY DEF BuildZones
<1> HIDE DEF all
<1>2. Inside(all) \subseteq all /\ AtCut(all) \subseteq all
  BY DEF Inside, AtCut
<1> QED BY <1>1, <1>2 DEF all

LEMMA ZonesAreOK ==
  ASSUME NEW bars \in Seq(Shapes), NEW zones \in Shown(bars), NEW z \in zones
  PROVE  ZoneOK(z)
<1>v. PICK v \in Volumes : zones \in BuildZones(bars, PrevDay, v)
  BY DEF Shown, Traded
<1> DEFINE raw == Raw(bars, PrevDay, v)
<1>1. ASSUME NEW y \in PrevDayZones(PrevDay) \cup VolumeZones(v) PROVE BandOK(y)
  <2>1. PrevDay.h \in Nat /\ PrevDay.l \in Nat /\ v.vwap \in Nat /\ v.hvn \in Nat /\ v.lvn \in Nat
    BY PerceptionAssumption
  <2>2. /\ y.type \in {"pdh", "pdl", "vwap", "hvn", "lvn"} /\ y.lo = y.hi
        /\ y.lo \in {PrevDay.h, PrevDay.l, v.vwap, v.hvn, v.lvn}
    BY DEF PrevDayZones, VolumeZones, Level
  <2> QED BY <2>1, <2>2 DEF BandOK, ZoneKinds
<1>2. \A y \in raw : BandOK(y)
  BY <1>1, GapsAreBands, BlocksAreBands, LevelsAreBands, EqualsAreBands DEF Raw
<1>3. \E y \in raw : z = Finished(bars, y, raw)
  BY <1>v, BuiltOfAll DEF AllZones
<1> HIDE DEF raw
<1>4. PICK y \in raw : z = Finished(bars, y, raw)
  BY <1>3
<1>5. /\ z.lo = y.lo /\ z.hi = y.hi
      /\ z.confluence = {o.type : o \in {x \in raw : x.lo <= y.hi /\ x.hi >= y.lo}} \ {y.type}
  BY <1>4 DEF Finished
<1>6. z.confluence \subseteq ZoneKinds
  BY <1>2, <1>5 DEF BandOK
<1> QED BY <1>2, <1>5, <1>6 DEF BandOK, ZoneOK

\* How crowded a zone is.
LEMMA Crowd ==
  ASSUME NEW z, ZoneOK(z)
  PROVE  Cardinality(z.confluence) \in Nat
<1>3. IsFiniteSet(z.confluence)
  BY KindsAreFinite, FS_Subset DEF ZoneOK
<1> QED BY <1>3, FS_CardinalityType

LEMMA QuotientIsNat ==
  ASSUME NEW a \in Nat, NEW b \in Nat \ {0}
  PROVE  a \div b \in Nat
<1>1. a \div b \in Int
  OBVIOUS
<1>2. a = b * (a \div b) + (a % b) /\ a % b \in 0..(b - 1)
  OBVIOUS
<1> QED BY <1>1, <1>2

\* Within half an average true range of the zone.
CloseTo(probe, z) == 2 * z.lo - Atr <= 2 * probe /\ 2 * probe <= 2 * z.hi + Atr

\* A location is worth 100 at most, and half of it only near or in a crowd.
LEMMA QualityMeans ==
  ASSUME NEW probe \in Nat, NEW z, ZoneOK(z)
  PROVE  /\ QualityAt(probe, z) \in 0..100
         /\ QualityAt(probe, z) >= Threshold => CloseTo(probe, z) \/ Cardinality(z.confluence) >= 5
<1> DEFINE c == Cardinality(z.confluence)
           a == Gapped(probe, z.lo)
           b == Gapped(probe, z.hi)
           away == Min({a, b})
           inside == z.lo <= probe /\ probe <= z.hi
           part == (200 * (Atr - 2 * away) + Atr) \div (2 * Atr)
           near == IF inside THEN 100 ELSE IF 2 * away <= Atr THEN part ELSE 0
<1>1. Atr \in Nat \ {0} /\ z.lo \in Nat /\ z.hi \in Nat /\ z.lo <= z.hi
  BY StructureAssumption DEF ZoneOK
<1>2. c \in Nat
  BY Crowd
<1>3. a \in Nat /\ b \in Nat
  BY <1>1 DEF Gapped
<1>4. away \in {a, b}
  <2> HIDE DEF a, b
  <2>1. a \in Int /\ b \in Int
    BY <1>3
  <2> QED BY <2>1, ZenonT(20), MinOfTwo
<1>5. 2 * away <= Atr => CloseTo(probe, z)
  <2>1. 2 * a <= Atr => CloseTo(probe, z)
    BY <1>1 DEF Gapped, CloseTo
  <2>2. 2 * b <= Atr => CloseTo(probe, z)
    BY <1>1 DEF Gapped, CloseTo
  <2> HIDE DEF a, b, away
  <2> QED BY <1>4, <2>1, <2>2
<1>6. inside => CloseTo(probe, z)
  BY <1>1 DEF CloseTo
<1>7. QualityAt(probe, z) = Min({100, near + 10 * c})
  BY DEF QualityAt
<1> HIDE DEF a, b
<1>8. away \in Nat
  BY <1>3, <1>4
<1> HIDE DEF away
<1>9. 2 * away <= Atr => part \in Nat
  <2> SUFFICES ASSUME 2 * away <= Atr PROVE part \in Nat
    OBVIOUS
  <2> DEFINE top == 200 * (Atr - 2 * away) + Atr
             under == 2 * Atr
  <2>1. top \in Nat /\ under \in Nat \ {0}
    BY <1>1, <1>8
  <2> HIDE DEF top, under
  <2>2. top \div under \in Nat
    BY <2>1, QuotientIsNat
  <2> QED BY <2>2 DEF top, under
<1> HIDE DEF part, inside
<1>10. near \in Nat /\ (near > 0 => CloseTo(probe, z))
  BY <1>5, <1>6, <1>9
<1> HIDE DEF near, c
<1>11. near + 10 * c \in Nat
  BY <1>2, <1>10
<1>12. /\ Min({100, near + 10 * c}) \in {100, near + 10 * c}
       /\ 100 >= Min({100, near + 10 * c}) /\ near + 10 * c >= Min({100, near + 10 * c})
  <2> DEFINE k == near + 10 * c
  <2>1. k \in Int /\ 100 \in Int
    BY <1>11
  <2> HIDE DEF k
  <2>2. Min({100, k}) \in {100, k} /\ 100 >= Min({100, k}) /\ k >= Min({100, k})
    BY <2>1, ZenonT(20), MinOfTwo
  <2> QED BY <2>2 DEF k
<1>13. QualityAt(probe, z) \in 0..100 /\ QualityAt(probe, z) <= near + 10 * c
  BY <1>7, <1>11, <1>12
<1>14. near + 10 * c >= 50 => near > 0 \/ c >= 5
  BY <1>2, <1>10
<1>15. QualityAt(probe, z) >= Threshold => CloseTo(probe, z) \/ c >= 5
  BY <1>10, <1>11, <1>13, <1>14 DEF Threshold
<1> QED BY <1>13, <1>15 DEF c

\* A location good enough for a confirmation is that of a zone.
LEMMA LocationMeans ==
  ASSUME NEW b \in Shapes, NEW zones, \A z \in zones : ZoneOK(z),
         NEW dir \in {"long", "short"}, LocationQuality(b, zones, dir) >= Threshold
  PROVE  \E z \in zones : /\ Serves(z, dir)
                          /\ CloseTo(Probe(b, dir), z) \/ Cardinality(z.confluence) >= 5
<1> DEFINE probe == Probe(b, dir)
           served == {y \in zones : Serves(y, dir)}
           all == {0} \cup {QualityAt(probe, z) : z \in served}
<1>1. probe \in Nat
  BY ShapeIsBar DEF Probe
<1> HIDE DEF probe
<1>2. \A z \in served : /\ QualityAt(probe, z) \in 0..100
                        /\ QualityAt(probe, z) >= Threshold => CloseTo(probe, z) \/ Cardinality(z.confluence) >= 5
  BY <1>1, QualityMeans
<1>3. all \in SUBSET (0..100) /\ all # {}
  BY <1>2
<1>4. LocationQuality(b, zones, dir) = Max(all)
  BY DEF LocationQuality, probe
<1>5. \A q \in all : q = 0 \/ \E z \in served : q = QualityAt(probe, z)
  OBVIOUS
<1> HIDE DEF all
<1>6. PICK m \in all : \A q \in all : q <= m
  BY <1>3, Greatest
<1>7. \A q \in all : m >= q
  BY <1>3, <1>6
<1>8. Max(all) \in all
  BY <1>7 DEF Max
<1>9. Max(all) >= 50 /\ Max(all) # 0
  BY <1>4 DEF Threshold
<1>10. PICK z \in served : Max(all) = QualityAt(probe, z)
  BY <1>5, <1>8, <1>9
<1> QED BY <1>2, <1>9, <1>10 DEF Threshold, probe

LEMMA BackedAlways ==
  ASSUME chart \in Seq(Shapes), Len(chart) >= MinBars, NEW zones \in Shown(chart)
  PROVE  Backed(Perceive(chart, zones))
<1> DEFINE s == MarketStructure(chart)
           last == chart[Len(chart)]
           candle == Confirmation(chart, zones, HtfFromTrend(s.trend))
           long == ScoreSide("long", s, zones, candle)
           short == ScoreSide("short", s, zones, candle)
           side == BestSide(long, short)
           told == Decide(long, short, zones, candle)
           p == Perceive(chart, zones)
           det == DetectPattern(chart)
<1>1. /\ p.structure = s /\ p.zones = zones /\ p.candles = candle /\ p.confluence = told
  BY DEF Perceive, ReadCandles, Together, Confluence
<1>2. /\ told.long = long /\ told.short = short
      /\ told.decision \in {"long", "short"} => told.decision = side /\ candle.confirmation_valid /\ candle.side = side
  BY DEF Decide
<1>3. /\ candle.side = (IF det.dir = "neutral" THEN "none" ELSE det.dir)
      /\ candle.confirmation_valid => /\ LocationQuality(last, zones, det.dir) >= Threshold
                                      /\ AlignedHtf(det.dir, HtfFromTrend(s.trend))
  BY DEF Confirmation
<1>4. last \in Shapes
  BY DEF MinBars
<1>5. \A z \in zones : ZoneOK(z)
  BY ZonesAreOK
<1> HIDE DEF s, last, candle, long, short, told, p, det
<1> SUFFICES ASSUME told.decision \in {"long", "short"}
             PROVE  /\ s.trend # Want(Opposite(side)) /\ candle.side = side
                    /\ \E z \in zones : Backing(z, side)
  BY <1>1, <1>2 DEF Backed, p
<1>6. det.dir = side /\ side \in {"long", "short"} /\ candle.side = side
  BY <1>2, <1>3 DEF AlignedHtf
<1>7. s.trend # Want(Opposite(side))
  BY <1>2, <1>3, <1>6 DEF AlignedHtf, HtfFromTrend, Want, Opposite
<1>8. LocationQuality(last, zones, side) >= Threshold
  BY <1>2, <1>3, <1>6
<1>9. PICK z \in zones : Serves(z, side) /\ (CloseTo(Probe(last, side), z) \/ Cardinality(z.confluence) >= 5)
  BY <1>4, <1>5, <1>6, <1>8, LocationMeans
<1>10. Backing(z, side)
  BY <1>9 DEF Backing, CloseTo, last
<1> QED BY <1>6, <1>7, <1>10

\* Perception.ProposalIsBacked, for every chart: what is proposed to be
\* traded is not against the trend, is for the side with the better score
\* and rests on a zone of that side near the last bar, or on a crowded one.
THEOREM ProposalsAreBacked == ChartSpec => []ProposalIsBacked
<1> DEFINE I == chart \in Seq(Shapes)
<1>1. ChartInit => I
  BY DEF ChartInit
<1>2. I /\ [ChartNext]_chart => I'
  BY DEF ChartNext, CloseBar, TradeOn
<1>3. I => ProposalIsBacked
  BY BackedAlways DEF ProposalIsBacked
<1> QED BY <1>1, <1>2, <1>3, PTL DEF ChartSpec

-----------------------------------------------------------------------------
(* A chart and its mirror image                                            *)


Prices == 0..MaxPrice

\* A bar whose prices lie on the grid.
OnGrid(b) == b.o \in Prices /\ b.h \in Prices /\ b.l \in Prices /\ b.c \in Prices /\ b.l <= b.h

\* b is the bar a upside down.
Flipped(a, b) ==
  /\ b.o = MaxPrice - a.o /\ b.c = MaxPrice - a.c
  /\ b.h = MaxPrice - a.l /\ b.l = MaxPrice - a.h

\* Two charts, each of which is the other upside down.
Mirrors(bars, turned) ==
  /\ bars \in Seq(Bar) /\ turned \in Seq(Bar) /\ Len(bars) = Len(turned)
  /\ \A i \in 1..Len(bars) : OnGrid(bars[i]) /\ OnGrid(turned[i]) /\ Flipped(bars[i], turned[i])

LEMMA FlippedBack ==
  ASSUME NEW a, NEW b, OnGrid(a), OnGrid(b), Flipped(a, b)
  PROVE  Flipped(b, a)
<1>1. MaxPrice \in Nat
  BY PerceptionAssumption
<1> QED BY <1>1 DEF OnGrid, Flipped, Prices

\* The bars of two such charts.
LEMMA MirrorBars ==
  ASSUME NEW bars, NEW turned, Mirrors(bars, turned), NEW i \in 1..Len(bars)
  PROVE  /\ bars[i].o \in Nat /\ bars[i].h \in Nat /\ bars[i].l \in Nat /\ bars[i].c \in Nat
         /\ bars[i].o <= MaxPrice /\ bars[i].h <= MaxPrice /\ bars[i].l <= MaxPrice /\ bars[i].c <= MaxPrice
         /\ bars[i].l <= bars[i].h
         /\ turned[i].o = MaxPrice - bars[i].o /\ turned[i].c = MaxPrice - bars[i].c
         /\ turned[i].h = MaxPrice - bars[i].l /\ turned[i].l = MaxPrice - bars[i].h
         /\ MaxPrice \in Nat /\ Len(bars) \in Nat /\ Len(turned) = Len(bars)
<1>1. OnGrid(bars[i]) /\ Flipped(bars[i], turned[i]) /\ Len(turned) = Len(bars)
  BY DEF Mirrors
<1>2. MaxPrice \in Nat
  BY PerceptionAssumption
<1>3. Len(bars) \in Nat
  BY DEF Mirrors
<1>4. /\ bars[i].o \in 0..MaxPrice /\ bars[i].h \in 0..MaxPrice /\ bars[i].l \in 0..MaxPrice
      /\ bars[i].c \in 0..MaxPrice /\ bars[i].l <= bars[i].h
  BY <1>1 DEF OnGrid, Prices
<1>5. /\ turned[i].o = MaxPrice - bars[i].o /\ turned[i].c = MaxPrice - bars[i].c
      /\ turned[i].h = MaxPrice - bars[i].l /\ turned[i].l = MaxPrice - bars[i].h
  BY <1>1 DEF Flipped
<1>6. Len(turned) = Len(bars)
  BY <1>1
<1> QED BY <1>2, <1>3, <1>4, <1>5, <1>6

LEMMA MirrorsBack ==
  ASSUME NEW bars, NEW turned, Mirrors(bars, turned)
  PROVE  Mirrors(turned, bars) /\ MaxPrice \in Nat
<1>0. MaxPrice \in Nat
  BY PerceptionAssumption
<1>1. ASSUME NEW i \in 1..Len(bars) PROVE Flipped(turned[i], bars[i])
  <2>1. OnGrid(bars[i]) /\ OnGrid(turned[i]) /\ Flipped(bars[i], turned[i])
    BY DEF Mirrors
  <2> QED BY <1>0, <2>1, FlippedBack
<1> QED BY <1>0, <1>1 DEF Mirrors

\* A chart of the program and that chart turned upside down.
LEMMA ChartMirrors ==
  ASSUME NEW bars \in Seq(Shapes)
  PROVE  Mirrors(bars, UpsideDown(bars))
<1>0. MaxPrice \in Nat /\ \A b \in Shapes : b \in Bar
  BY PerceptionAssumption
<1>1. ASSUME NEW b \in Shapes
      PROVE  OnGrid(b) /\ OnGrid(Upside(b)) /\ Flipped(b, Upside(b)) /\ Upside(b) \in Bar
  <2>1. b \in Bar /\ b.l <= Min({b.o, b.c}) /\ Max({b.o, b.c}) <= b.h /\ b.h <= MaxPrice
    BY PerceptionAssumption
  <2>2. b.o \in Nat /\ b.h \in Nat /\ b.l \in Nat /\ b.c \in Nat
    BY <2>1 DEF Bar
  <2>3. b.o \in Int /\ b.c \in Int
    BY <2>2
  <2>4. Min({b.o, b.c}) \in {b.o, b.c} /\ b.o >= Min({b.o, b.c}) /\ b.c >= Min({b.o, b.c})
    BY <2>3, ZenonT(20), MinOfTwo
  <2>5. Max({b.o, b.c}) \in {b.o, b.c} /\ b.o <= Max({b.o, b.c}) /\ b.c <= Max({b.o, b.c})
    BY <2>3, ZenonT(20), MaxOfTwo
  <2>6. b.o \in Prices /\ b.h \in Prices /\ b.l \in Prices /\ b.c \in Prices /\ b.l <= b.h
    BY <1>0, <2>1, <2>2, <2>4, <2>5 DEF Prices
  <2>7. /\ Upside(b).o = MaxPrice - b.o /\ Upside(b).h = MaxPrice - b.l
        /\ Upside(b).l = MaxPrice - b.h /\ Upside(b).c = MaxPrice - b.c
    BY DEF Upside
  <2>8. /\ MaxPrice - b.o \in Prices /\ MaxPrice - b.l \in Prices /\ MaxPrice - b.h \in Prices
        /\ MaxPrice - b.c \in Prices /\ MaxPrice - b.h <= MaxPrice - b.l
    BY <1>0, <2>6 DEF Prices
  <2>9. Upside(b) \in Bar
    <3>1. /\ MaxPrice - b.o \in Nat /\ MaxPrice - b.l \in Nat /\ MaxPrice - b.h \in Nat
          /\ MaxPrice - b.c \in Nat
      BY <1>0, <2>8 DEF Prices
    <3> QED BY <3>1 DEF Upside, Bar
  <2> QED BY <2>6, <2>7, <2>8, <2>9 DEF OnGrid, Flipped
<1>2. \A i \in 1..Len(bars) : bars[i] \in Shapes
  OBVIOUS
<1>3. UpsideDown(bars) = [i \in 1..Len(bars) |-> Upside(bars[i])]
  BY DEF UpsideDown
<1>4. /\ UpsideDown(bars) \in Seq(Bar) /\ Len(UpsideDown(bars)) = Len(bars)
      /\ \A i \in 1..Len(bars) : UpsideDown(bars)[i] = Upside(bars[i])
  <2>1. \A i \in 1..Len(bars) : Upside(bars[i]) \in Bar
    BY <1>1, <1>2
  <2>2. Len(bars) \in Nat
    OBVIOUS
  <2> QED BY <1>3, <2>1, <2>2
<1>5. bars \in Seq(Bar)
  BY <1>0
<1> QED BY <1>1, <1>2, <1>4, <1>5 DEF Mirrors

-----------------------------------------------------------------------------
(* Structure                                                               *)

LEMMA SearchedIs ==
  ASSUME NEW bars, Len(bars) \in Nat
  PROVE  Searched(bars) \subseteq (PivotK + 1)..(Len(bars) - PivotK)
<1>1. PivotK \in Nat \ {0} /\ Len(bars) - Lookback \in Int
  BY StructureAssumption
<1> DEFINE k == Len(bars) - Lookback
<1>2. k \in Int /\ PivotK \in Int
  BY <1>1
<1> HIDE DEF k
<1>3. Max({PivotK, k}) \in {PivotK, k} /\ PivotK <= Max({PivotK, k})
  BY <1>2, ZenonT(20), MaxOfTwo
<1>4. Searched(bars) = (Max({PivotK, k}) + 1)..(Len(bars) - PivotK)
  BY DEF Searched, k
<1> QED BY <1>1, <1>2, <1>3, <1>4

LEMMA SwingsTurn ==
  ASSUME NEW bars, NEW turned, Mirrors(bars, turned)
  PROVE  /\ Highs(turned) = Lows(bars) /\ Lows(turned) = Highs(bars)
         /\ Highs(bars) \subseteq 1..Len(bars) /\ Lows(bars) \subseteq 1..Len(bars)
         /\ IsFiniteSet(Highs(bars)) /\ IsFiniteSet(Lows(bars))
<1>1. /\ Len(bars) \in Nat /\ Len(turned) = Len(bars) /\ MaxPrice \in Nat
      /\ PivotK \in Nat \ {0}
  BY StructureAssumption, PerceptionAssumption DEF Mirrors
<1>2. Searched(turned) = Searched(bars)
  BY <1>1 DEF Searched
<1>3. ASSUME NEW j \in Searched(bars)
      PROVE  j \in 1..Len(bars) /\ Around(j) \subseteq 1..Len(bars)
  <2>1. j \in (PivotK + 1)..(Len(bars) - PivotK)
    BY <1>1, SearchedIs
  <2>2. \A m \in Around(j) : m \in (j - PivotK)..(j + PivotK)
    BY DEF Around
  <2> DEFINE n == Len(bars)
  <2>3. n \in Nat /\ PivotK \in Nat /\ j \in (PivotK + 1)..(n - PivotK)
    BY <1>1, <2>1
  <2> HIDE DEF n
  <2>4. j \in 1..n /\ \A m \in (j - PivotK)..(j + PivotK) : m \in 1..n
    BY <2>3
  <2> QED BY <2>2, <2>4 DEF n
<1>4. ASSUME NEW j \in 1..Len(bars), NEW m \in 1..Len(bars)
      PROVE  /\ turned[j].h > turned[m].h <=> bars[j].l < bars[m].l
             /\ turned[j].l < turned[m].l <=> bars[j].h > bars[m].h
  <2>1. /\ bars[j].l \in Nat /\ bars[j].h \in Nat /\ bars[m].l \in Nat /\ bars[m].h \in Nat
        /\ turned[j].h = MaxPrice - bars[j].l /\ turned[j].l = MaxPrice - bars[j].h
        /\ turned[m].h = MaxPrice - bars[m].l /\ turned[m].l = MaxPrice - bars[m].h
    BY MirrorBars
  <2> DEFINE a == bars[j].l
             b == bars[m].l
             c == bars[j].h
             d == bars[m].h
  <2>2. a \in Nat /\ b \in Nat /\ c \in Nat /\ d \in Nat
    BY <2>1
  <2>3. /\ turned[j].h = MaxPrice - a /\ turned[m].h = MaxPrice - b
        /\ turned[j].l = MaxPrice - c /\ turned[m].l = MaxPrice - d
    BY <2>1
  <2> HIDE DEF a, b, c, d
  <2>4. (turned[j].h > turned[m].h <=> a < b) /\ (turned[j].l < turned[m].l <=> c > d)
    BY <1>1, <2>2, <2>3
  <2> QED BY <2>4 DEF a, b, c, d
<1>6. Highs(turned) = Lows(bars) /\ Lows(turned) = Highs(bars)
  BY <1>2, <1>3, <1>4 DEF Highs, Lows
<1>7. Highs(bars) \subseteq 1..Len(bars) /\ Lows(bars) \subseteq 1..Len(bars)
  BY <1>3 DEF Highs, Lows
<1>8. IsFiniteSet(1..Len(bars))
  <2>1. 1 \in Int /\ Len(bars) \in Int
    BY <1>1
  <2> QED BY <2>1, FS_Interval
<1> QED BY <1>6, <1>7, <1>8, FS_Subset

\* The greatest of some numbers up to n, and the one below it.
LEMMA MaxIn ==
  ASSUME NEW n \in Nat, NEW S, S \subseteq 1..n, S # {}
  PROVE  Max(S) \in S /\ \A k \in S : k <= Max(S)
<1>1. S \in SUBSET (0..n)
  OBVIOUS
<1>2. \E m \in S : \A k \in S : k <= m
  BY <1>1, Greatest
<1>3. \E m \in S : \A k \in S : m >= k
  BY <1>2
<1> QED BY <1>3 DEF Max

LEMMA TwoAreThere ==
  ASSUME NEW n \in Nat, NEW S, S \subseteq 1..n, IsFiniteSet(S), ~ (Cardinality(S) < 2)
  PROVE  Max(S) \in S /\ Max(S \ {Max(S)}) \in S
<1>0. Cardinality(S) \in Nat
  BY FS_CardinalityType
<1>1. S # {}
  BY <1>0, FS_EmptySet
<1>2. Max(S) \in S
  BY <1>1, MaxIn
<1> DEFINE m == Max(S)
<1> HIDE DEF m
<1>3. m \in S
  BY <1>2 DEF m
<1>4. Cardinality(S \ {m}) = Cardinality(S) - 1
  BY <1>3, FS_RemoveElement
<1>5. S \ {m} # {}
  <2>1. Cardinality(S \ {m}) # 0
    BY <1>0, <1>4
  <2> QED BY <2>1, FS_EmptySet
<1>6. S \ {m} \subseteq 1..n
  OBVIOUS
<1>7. Max(S \ {m}) \in S \ {m}
  BY <1>5, <1>6, MaxIn
<1> QED BY <1>2, <1>7 DEF m

\* The trend of the mirror image is the opposite one.
LEMMA TrendTurns ==
  ASSUME NEW bars, NEW turned, Mirrors(bars, turned)
  PROVE  Trend(bars) \in {"up", "down", "range"} /\ Trend(turned) = Turned[Trend(bars)]
<1> DEFINE hs == Highs(bars)
           ls == Lows(bars)
           a == bars[Max(hs)].h - bars[Max(hs \ {Max(hs)})].h
           b == bars[Max(ls)].l - bars[Max(ls \ {Max(ls)})].l
           c == turned[Max(ls)].h - turned[Max(ls \ {Max(ls)})].h
           d == turned[Max(hs)].l - turned[Max(hs \ {Max(hs)})].l
           few == Cardinality(hs) < 2 \/ Cardinality(ls) < 2
<1>0. /\ hs \subseteq 1..Len(bars) /\ IsFiniteSet(hs) /\ ls \subseteq 1..Len(bars) /\ IsFiniteSet(ls)
      /\ Highs(turned) = ls /\ Lows(turned) = hs
  BY SwingsTurn
<1>n. Len(bars) \in Nat
  BY DEF Mirrors
<1>1. Trend(bars) = IF few THEN "range"
                    ELSE CASE a > 0 /\ b > 0 -> "up" [] a < 0 /\ b < 0 -> "down" [] OTHER -> "range"
  BY Zenon DEF Trend
<1>2. Trend(turned) = IF Cardinality(ls) < 2 \/ Cardinality(hs) < 2 THEN "range"
                      ELSE CASE c > 0 /\ d > 0 -> "up" [] c < 0 /\ d < 0 -> "down" [] OTHER -> "range"
  <2> DEFINE rs == Highs(turned)
             qs == Lows(turned)
  <2>1. Trend(turned) = IF Cardinality(rs) < 2 \/ Cardinality(qs) < 2 THEN "range"
                        ELSE CASE turned[Max(rs)].h - turned[Max(rs \ {Max(rs)})].h > 0
                                  /\ turned[Max(qs)].l - turned[Max(qs \ {Max(qs)})].l > 0 -> "up"
                               [] turned[Max(rs)].h - turned[Max(rs \ {Max(rs)})].h < 0
                                  /\ turned[Max(qs)].l - turned[Max(qs \ {Max(qs)})].l < 0 -> "down"
                               [] OTHER -> "range"
    BY Zenon DEF Trend
  <2>2. rs = ls /\ qs = hs
    BY <1>0
  <2> HIDE DEF rs, qs, hs, ls
  <2> QED BY <2>1, <2>2
<1>3. ~ few => a \in Int /\ b \in Int /\ c = -b /\ d = -a
  <2> SUFFICES ASSUME ~ few PROVE a \in Int /\ b \in Int /\ c = -b /\ d = -a
    OBVIOUS
  <2> DEFINE h1 == Max(hs)
             h2 == Max(hs \ {Max(hs)})
             l1 == Max(ls)
             l2 == Max(ls \ {Max(ls)})
  <2>1. h1 \in hs /\ h2 \in hs
    <3> HIDE DEF hs, ls
    <3> QED BY <1>0, <1>n, TwoAreThere
  <2>2. l1 \in ls /\ l2 \in ls
    <3> HIDE DEF hs, ls
    <3> QED BY <1>0, <1>n, TwoAreThere
  <2>3. h1 \in 1..Len(bars) /\ h2 \in 1..Len(bars) /\ l1 \in 1..Len(bars) /\ l2 \in 1..Len(bars)
    <3> HIDE DEF hs, ls, h1, h2, l1, l2
    <3> QED BY <1>0, <2>1, <2>2
  <2>4. a = bars[h1].h - bars[h2].h /\ b = bars[l1].l - bars[l2].l
    OBVIOUS
  <2>5. c = turned[l1].h - turned[l2].h /\ d = turned[h1].l - turned[h2].l
    OBVIOUS
  <2> HIDE DEF a, b, c, d, h1, h2, l1, l2
  <2> DEFINE p == bars[h1].h
             q == bars[h2].h
             r == bars[l1].l
             s == bars[l2].l
  <2>6. /\ p \in Nat /\ q \in Nat /\ r \in Nat /\ s \in Nat /\ MaxPrice \in Nat
        /\ turned[h1].l = MaxPrice - p /\ turned[h2].l = MaxPrice - q
        /\ turned[l1].h = MaxPrice - r /\ turned[l2].h = MaxPrice - s
    BY <2>3, MirrorBars
  <2>7. a = p - q /\ b = r - s
    BY <2>4
  <2> HIDE DEF p, q, r, s
  <2> QED BY <2>5, <2>6, <2>7
<1> HIDE DEF hs, ls, a, b, c, d, few
<1>4. Trend(turned) = IF few THEN "range"
                      ELSE CASE c > 0 /\ d > 0 -> "up" [] c < 0 /\ d < 0 -> "down" [] OTHER -> "range"
  BY <1>2 DEF few
<1>5. CASE few
  BY <1>1, <1>4, <1>5 DEF Turned
<1>6. CASE ~ few
  <2>1. (c > 0 /\ d > 0 <=> a < 0 /\ b < 0) /\ (c < 0 /\ d < 0 <=> a > 0 /\ b > 0) /\ ~ (a > 0 /\ a < 0)
    BY <1>3, <1>6
  <2> DEFINE rise == a > 0 /\ b > 0
             fall == a < 0 /\ b < 0
  <2>2. Trend(bars) = CASE rise -> "up" [] fall -> "down" [] OTHER -> "range"
    BY <1>1, <1>6
  <2>3. Trend(turned) = CASE fall -> "up" [] rise -> "down" [] OTHER -> "range"
    BY <1>4, <1>6, <2>1
  <2>4. ~ (rise /\ fall)
    BY <2>1
  <2> HIDE DEF rise, fall
  <2> QED BY <2>2, <2>3, <2>4 DEF Turned
<1> QED BY <1>5, <1>6

Breakings == [dir : {"up", "down", "none"}, level : Nat, j : Nat]

\* Neither of two breaks is one, or they go opposite ways.
Opposed(b, c) == b \in Breakings /\ c \in Breakings /\ c.dir = Turned[b.dir]
                 /\ (b = NoBreak <=> b.dir = "none") /\ (c = NoBreak <=> c.dir = "none")

\* A bar that breaks a swing breaks it the other way in the mirror image,
\* unless it closes beyond both.
LEMMA BreakTurns ==
  ASSUME NEW bars, NEW turned, Mirrors(bars, turned), ~ TwoWays(bars), NEW j \in 1..Len(bars)
  PROVE  Opposed(BreakAt(bars, j), BreakAt(turned, j))
<1> DEFINE hs == {i \in Highs(bars) : i < j}
           ls == {i \in Lows(bars) : i < j}
           h == bars[Max(hs)].h
           l == bars[Max(ls)].l
           x == bars[j].c
           above == hs # {} /\ x > h
           below == ls # {} /\ x < l
           h1 == turned[Max(ls)].h
           l1 == turned[Max(hs)].l
           x1 == turned[j].c
           up(level) == [dir |-> "up", level |-> level, j |-> j]
           down(level) == [dir |-> "down", level |-> level, j |-> j]
<1>0. /\ Highs(turned) = Lows(bars) /\ Lows(turned) = Highs(bars)
      /\ Highs(bars) \subseteq 1..Len(bars) /\ Lows(bars) \subseteq 1..Len(bars)
  BY SwingsTurn
<1>n. Len(bars) \in Nat /\ j \in Nat
  BY DEF Mirrors
<1>1. hs # {} => Max(hs) \in 1..Len(bars)
  <2>1. hs \subseteq 1..Len(bars)
    BY <1>0
  <2> HIDE DEF hs
  <2> QED BY <1>n, <2>1, MaxIn
<1>2. ls # {} => Max(ls) \in 1..Len(bars)
  <2>1. ls \subseteq 1..Len(bars)
    BY <1>0
  <2> HIDE DEF ls
  <2> QED BY <1>n, <2>1, MaxIn
<1>3. x \in Nat /\ x <= MaxPrice /\ x1 = MaxPrice - x /\ MaxPrice \in Nat
  BY MirrorBars
<1>4. hs # {} => h \in Nat /\ h <= MaxPrice /\ l1 = MaxPrice - h
  BY <1>1, MirrorBars
<1>5. ls # {} => l \in Nat /\ l <= MaxPrice /\ h1 = MaxPrice - l
  BY <1>2, MirrorBars
<1>6. ~ (above /\ below)
  <2>1. j \in DOMAIN bars
    BY DEF Mirrors
  <2>2. ~ (hs # {} /\ ls # {} /\ h < x /\ x < l)
    BY <2>1, Zenon DEF TwoWays
  <2> HIDE DEF hs, ls, h, l, x
  <2>3. (hs # {} /\ x > h) => h < x
    BY <1>3, <1>4
  <2> QED BY <2>2, <2>3
<1>7. /\ BreakAt(bars, j) = CASE above -> up(h) [] (hs = {} \/ x <= h) /\ below -> down(l) [] OTHER -> NoBreak
  BY DEF BreakAt, BreakBeyond
<1>8. BreakAt(turned, j) = CASE ls # {} /\ x1 > h1 -> up(h1)
                             [] (ls = {} \/ x1 <= h1) /\ hs # {} /\ x1 < l1 -> down(l1)
                             [] OTHER -> NoBreak
  <2>1. /\ {i \in Highs(turned) : i < j} = ls
        /\ {i \in Lows(turned) : i < j} = hs
    BY <1>0
  <2>2. BreakAt(turned, j) = BreakBeyond(ls, hs, turned, j)
    BY <2>1 DEF BreakAt
  <2> QED BY <2>2 DEF BreakBeyond
<1> HIDE DEF hs, ls, h, l, x, h1, l1, x1
<1>9. /\ above => ls = {} \/ ~ (x < l)
      /\ (hs = {} \/ x <= h) <=> ~ above
      /\ (ls # {} /\ x1 > h1) <=> below
      /\ (ls = {} \/ x1 <= h1) <=> ~ below
      /\ (hs # {} /\ x1 < l1) <=> above
  BY <1>3, <1>4, <1>5, <1>6
<1>10. above => h \in Nat /\ l1 \in Nat
  BY <1>3, <1>4
<1>11. below => l \in Nat /\ h1 \in Nat
  BY <1>3, <1>5
<1> HIDE DEF above, below, up, down
<1>12. \A n \in Nat : /\ up(n) \in Breakings /\ up(n).dir = "up" /\ up(n) # NoBreak
                      /\ down(n) \in Breakings /\ down(n).dir = "down" /\ down(n) # NoBreak
  <2>1. \A n \in Nat : up(n).dir = "up" /\ down(n).dir = "down"
    BY DEF up, down
  <2>2. NoBreak.dir = "none"
    BY DEF NoBreak
  <2>3. \A n \in Nat : up(n) \in Breakings /\ down(n) \in Breakings
    BY <1>n DEF up, down, Breakings
  <2> QED BY <2>1, <2>2, <2>3
<1>13. NoBreak \in Breakings /\ NoBreak.dir = "none"
  BY DEF NoBreak, Breakings
<1>14. CASE above
  <2>1. BreakAt(bars, j) = up(h)
    BY <1>7, <1>9, <1>14
  <2>2. BreakAt(turned, j) = down(l1)
    BY <1>6, <1>8, <1>9, <1>14
  <2> QED BY <1>10, <1>12, <1>14, <2>1, <2>2 DEF Opposed, Turned
<1>15. CASE below
  <2>1. BreakAt(bars, j) = down(l)
    BY <1>6, <1>7, <1>9, <1>15
  <2>2. BreakAt(turned, j) = up(h1)
    BY <1>8, <1>9, <1>15
  <2> QED BY <1>11, <1>12, <1>15, <2>1, <2>2 DEF Opposed, Turned
<1>16. CASE ~ above /\ ~ below
  <2>1. BreakAt(bars, j) = NoBreak
    BY <1>7, <1>16
  <2>2. BreakAt(turned, j) = NoBreak
    BY <1>8, <1>9, <1>16
  <2> QED BY <1>13, <2>1, <2>2 DEF Opposed, Turned
<1> QED BY <1>14, <1>15, <1>16

Ways == {"none", "up", "down"}
Scans == [way : Ways, bos : Breakings, choch : Breakings, mss : Breakings]
NoScan == [way |-> "none", bos |-> NoBreak, choch |-> NoBreak, mss |-> NoBreak]

\* Two scans that have seen opposite breaks.
ScansOpposed(s, t) ==
  /\ s \in Scans /\ t \in Scans /\ t.way = Turned[s.way]
  /\ t.choch.dir = Turned[s.choch.dir] /\ t.mss.dir = Turned[s.mss.dir]

LEMMA AfterTurns ==
  ASSUME NEW s, NEW t, ScansOpposed(s, t), NEW b, NEW c, Opposed(b, c), NEW bar, NEW other,
         Body(other) = Body(bar)
  PROVE  ScansOpposed(After(s, b, bar), After(t, c, other))
<1> DEFINE against == s.way \notin {"none", b.dir}
           strong == Body(bar) >= Atr
           new == [way   |-> b.dir,
                   bos   |-> IF against THEN s.bos ELSE b,
                   choch |-> IF against THEN b ELSE s.choch,
                   mss   |-> IF against /\ strong THEN b ELSE s.mss]
           back == [way   |-> c.dir,
                    bos   |-> IF against THEN t.bos ELSE c,
                    choch |-> IF against THEN c ELSE t.choch,
                    mss   |-> IF against /\ strong THEN c ELSE t.mss]
<1>0. /\ s.way \in Ways /\ s.bos \in Breakings /\ s.choch \in Breakings /\ s.mss \in Breakings
      /\ t.way \in Ways /\ t.bos \in Breakings /\ t.choch \in Breakings /\ t.mss \in Breakings
      /\ t.way = Turned[s.way] /\ t.choch.dir = Turned[s.choch.dir] /\ t.mss.dir = Turned[s.mss.dir]
  BY DEF ScansOpposed, Scans
<1>1. /\ b \in Breakings /\ c \in Breakings /\ c.dir = Turned[b.dir]
      /\ (b = NoBreak <=> b.dir = "none") /\ (c = NoBreak <=> c.dir = "none")
  BY DEF Opposed
<1>2. b.dir \in Ways /\ c.dir \in Ways
  BY <1>1 DEF Breakings, Ways
<1>3. b = NoBreak <=> c = NoBreak
  BY <1>1, <1>2 DEF Ways, Turned
<1>4. t.way \notin {"none", c.dir} <=> against
  BY <1>0, <1>1, <1>2 DEF Ways, Turned
<1>5. After(s, b, bar) = IF b = NoBreak THEN s ELSE new
  BY DEF After
<1>6. After(t, c, other) = IF c = NoBreak THEN t ELSE back
  <2>1. After(t, c, other) =
          IF c = NoBreak THEN t
          ELSE [way   |-> c.dir,
                bos   |-> IF t.way \notin {"none", c.dir} THEN t.bos ELSE c,
                choch |-> IF t.way \notin {"none", c.dir} THEN c ELSE t.choch,
                mss   |-> IF t.way \notin {"none", c.dir} /\ Body(other) >= Atr THEN c ELSE t.mss]
    BY DEF After
  <2> HIDE DEF against
  <2> QED BY <1>4, <2>1
<1> HIDE DEF against, strong
<1>7. /\ new.way = b.dir /\ new.choch = (IF against THEN b ELSE s.choch)
      /\ new.mss = (IF against /\ strong THEN b ELSE s.mss) /\ new \in Scans
  BY <1>0, <1>1, <1>2 DEF Scans
<1>8. /\ back.way = c.dir /\ back.choch = (IF against THEN c ELSE t.choch)
      /\ back.mss = (IF against /\ strong THEN c ELSE t.mss) /\ back \in Scans
  BY <1>0, <1>1, <1>2 DEF Scans
<1> HIDE DEF new, back
<1>9. ScansOpposed(new, back)
  <2>1. back.choch.dir = Turned[new.choch.dir]
    BY <1>0, <1>1, <1>7, <1>8
  <2>2. back.mss.dir = Turned[new.mss.dir]
    BY <1>0, <1>1, <1>7, <1>8
  <2> QED BY <1>1, <1>7, <1>8, <2>1, <2>2 DEF ScansOpposed
<1> QED BY <1>3, <1>5, <1>6, <1>9

\* What Breaks computes along the bars: g[k] is the scan once bar PivotK + k
\* has been read.
Scanned(g, bars, n) ==
  /\ g \in [0..n -> Scans]
  /\ g[0] = NoScan
  /\ \A k \in 1..n : g[k] = After(g[k - 1], BreakAt(bars, PivotK + k), bars[PivotK + k])

\* The scan of a chart whose breaks are typed.
LEMMA ScanIs ==
  ASSUME NEW bars, Len(bars) \in Nat, PivotK <= Len(bars),
         \A j \in 1..Len(bars) : BreakAt(bars, j) \in Breakings
                                 /\ (BreakAt(bars, j) = NoBreak <=> BreakAt(bars, j).dir = "none")
  PROVE  \E g : Scanned(g, bars, Len(bars) - PivotK) /\ Breaks(bars) = g[Len(bars) - PivotK]
<1> DEFINE n == Len(bars) - PivotK
           IsScan(f) == f = [j \in PivotK..Len(bars) |->
                               IF j = PivotK THEN [way |-> "none", bos |-> NoBreak, choch |-> NoBreak, mss |-> NoBreak]
                               ELSE After(f[j - 1], BreakAt(bars, j), bars[j])]
           scan == CHOOSE f : IsScan(f)
           step == [k \in 1..n |-> [s \in Scans |-> After(s, BreakAt(bars, PivotK + k), bars[PivotK + k])]]
<1>0. PivotK \in Nat /\ n \in Nat /\ PivotK + n = Len(bars)
  BY StructureAssumption
<1>1. NoScan \in Scans
  BY DEF NoScan, Scans, Ways, Breakings, NoBreak
<1>2. \A k \in 1..n : PivotK + k \in 1..Len(bars)
  BY <1>0
<1>3. ASSUME NEW k \in 1..n, NEW s \in Scans
      PROVE  After(s, BreakAt(bars, PivotK + k), bars[PivotK + k]) \in Scans
  <2> DEFINE b == BreakAt(bars, PivotK + k)
  <2>1. b \in Breakings
    BY <1>2
  <2> HIDE DEF b
  <2>2. b.dir \in Ways
    BY <2>1 DEF Breakings, Ways
  <2>3. /\ s.bos \in Breakings /\ s.choch \in Breakings /\ s.mss \in Breakings
    BY DEF Scans
  <2>4. After(s, b, bars[PivotK + k]) \in Scans
    BY <2>1, <2>2, <2>3 DEF After, Scans
  <2> QED BY <2>4 DEF b
<1>4. step \in [1..n -> [Scans -> Scans]]
  BY <1>3
<1>5. PICK g \in [0..n -> Scans] : Recurs(g, n, NoScan, step)
  <2> HIDE DEF step, n
  <2> QED BY <1>0, <1>1, <1>4, RecursionExists
<1>6. /\ g[0] = NoScan
      /\ \A k \in 1..n : g[k] = After(g[k - 1], BreakAt(bars, PivotK + k), bars[PivotK + k])
  <2>1. \A k \in 0..n : g[k] = IF k = 0 THEN NoScan ELSE step[k][g[k - 1]]
    <3> HIDE DEF step, n
    <3> QED BY <1>5 DEF Recurs
  <2>2. ASSUME NEW k \in 1..n
        PROVE  g[k] = After(g[k - 1], BreakAt(bars, PivotK + k), bars[PivotK + k])
    <3>1. k \in 0..n /\ k # 0 /\ k - 1 \in 0..n
      BY <1>0
    <3>2. g[k] = step[k][g[k - 1]] /\ g[k - 1] \in Scans
      <4> HIDE DEF step, n
      <4> QED BY <1>5, <2>1, <3>1
    <3> QED BY <3>2
  <2>3. 0 \in 0..n
    BY <1>0
  <2> QED BY <2>1, <2>2, <2>3
<1>7. \E f : IsScan(f)
  <2> DEFINE f == [j \in PivotK..Len(bars) |-> g[j - PivotK]]
  <2>1. ASSUME NEW j \in PivotK..Len(bars)
        PROVE  f[j] = IF j = PivotK THEN NoScan ELSE After(f[j - 1], BreakAt(bars, j), bars[j])
    <3>1. CASE j = PivotK
      <4>1. f[j] = g[0]
        BY <1>0, <3>1
      <4> QED BY <1>6, <3>1, <4>1
    <3>2. CASE j # PivotK
      <4>1. j - PivotK \in 1..n /\ j - 1 \in PivotK..Len(bars) /\ PivotK + (j - PivotK) = j
            /\ (j - 1) - PivotK = (j - PivotK) - 1
        BY <1>0, <3>2
      <4>2. f[j] = g[j - PivotK] /\ f[j - 1] = g[(j - PivotK) - 1]
        BY <4>1
      <4> HIDE DEF f
      <4> QED BY <1>6, <3>2, <4>1, <4>2
    <3> QED BY <3>1, <3>2
  <2>2. f = [j \in PivotK..Len(bars) |-> f[j]]
    OBVIOUS
  <2> HIDE DEF f
  <2>3. IsScan(f)
    BY <2>1, <2>2 DEF NoScan
  <2> HIDE DEF IsScan
  <2> QED BY <2>3
<1>8. IsScan(scan)
  BY <1>7
<1>9. Breaks(bars) = scan[Len(bars)]
  BY DEF Breaks
<1>10. \A j \in PivotK..Len(bars) :
         scan[j] = IF j = PivotK THEN NoScan ELSE After(scan[j - 1], BreakAt(bars, j), bars[j])
  <2> HIDE DEF scan
  <2> QED BY <1>8 DEF NoScan
<1> HIDE DEF scan, IsScan
<1>11. \A k \in 0..n : scan[PivotK + k] = g[k]
  <2> DEFINE S == {k \in 0..n : scan[PivotK + k] = g[k]}
  <2>1. 0 \in S
    <3>1. PivotK \in PivotK..Len(bars) /\ PivotK + 0 = PivotK /\ 0 \in 0..n
      BY <1>0
    <3> QED BY <1>6, <1>10, <3>1
  <2>2. ASSUME NEW k \in 1..n, k - 1 \in S PROVE k \in S
    <3>1. PivotK + k \in PivotK..Len(bars) /\ PivotK + k # PivotK /\ k \in 0..n
          /\ (PivotK + k) - 1 = PivotK + (k - 1)
      BY <1>0
    <3>2. scan[PivotK + k] = After(scan[PivotK + (k - 1)], BreakAt(bars, PivotK + k), bars[PivotK + k])
      BY <1>10, <3>1
    <3> QED BY <1>6, <2>2, <3>1, <3>2
  <2> HIDE DEF S
  <2>3. \A k \in 0..n : k \in S
    <3> HIDE DEF n
    <3> QED BY <1>0, <2>1, <2>2, AlongInduction
  <2> QED BY <2>3 DEF S
<1>12. scan[Len(bars)] = g[n]
  <2>1. n \in 0..n
    BY <1>0
  <2> QED BY <1>0, <1>11, <2>1
<1>13. Scanned(g, bars, n)
  BY <1>6 DEF Scanned
<1> QED BY <1>9, <1>12, <1>13

\* The breaks of the mirror image are the opposite ones.
LEMMA BreaksTurn ==
  ASSUME NEW bars, NEW turned, Mirrors(bars, turned), ~ TwoWays(bars), PivotK <= Len(bars)
  PROVE  ScansOpposed(Breaks(bars), Breaks(turned))
<1> DEFINE n == Len(bars) - PivotK
<1>0. PivotK \in Nat /\ n \in Nat /\ Len(turned) = Len(bars) /\ Len(bars) \in Nat
  BY StructureAssumption DEF Mirrors
<1>1. \A j \in 1..Len(bars) : Opposed(BreakAt(bars, j), BreakAt(turned, j))
  BY BreakTurns
<1>2. PICK g : Scanned(g, bars, n) /\ Breaks(bars) = g[n]
  BY <1>0, <1>1, ScanIs DEF Opposed
<1>3. PICK h : Scanned(h, turned, n) /\ Breaks(turned) = h[n]
  BY <1>0, <1>1, ScanIs DEF Opposed
<1>4. ASSUME NEW j \in 1..Len(bars) PROVE Body(turned[j]) = Body(bars[j])
  <2> DEFINE o == bars[j].o
             c == bars[j].c
  <2>1. o \in Nat /\ c \in Nat /\ MaxPrice \in Nat /\ turned[j].o = MaxPrice - o /\ turned[j].c = MaxPrice - c
    BY MirrorBars
  <2> HIDE DEF o, c
  <2>2. Gapped(MaxPrice - o, MaxPrice - c) = Gapped(o, c)
    BY <2>1 DEF Gapped
  <2> QED BY <2>1, <2>2 DEF Body, o, c
<1> DEFINE S == {k \in 0..n : ScansOpposed(g[k], h[k])}
<1>5. 0 \in S
  <2>1. g[0] = NoScan /\ h[0] = NoScan /\ 0 \in 0..n
    BY <1>0, <1>2, <1>3 DEF Scanned
  <2>2. ScansOpposed(NoScan, NoScan)
    BY DEF ScansOpposed, NoScan, Scans, Ways, Breakings, NoBreak, Turned
  <2> QED BY <2>1, <2>2
<1>6. ASSUME NEW k \in 1..n, k - 1 \in S PROVE k \in S
  <2> DEFINE j == PivotK + k
  <2>1. j \in 1..Len(bars) /\ k \in 0..n
    BY <1>0
  <2>2. /\ g[k] = After(g[k - 1], BreakAt(bars, j), bars[j])
        /\ h[k] = After(h[k - 1], BreakAt(turned, j), turned[j])
    BY <1>2, <1>3 DEF Scanned
  <2>3. ScansOpposed(g[k - 1], h[k - 1])
    BY <1>6
  <2> HIDE DEF j
  <2>4. ScansOpposed(g[k], h[k])
    BY <1>1, <1>4, <2>1, <2>2, <2>3, AfterTurns
  <2> QED BY <2>1, <2>4
<1> HIDE DEF S
<1>7. \A k \in 0..n : k \in S
  <2> HIDE DEF n
  <2> QED BY <1>0, <1>5, <1>6, AlongInduction
<1>8. n \in 0..n
  BY <1>0
<1> QED BY <1>2, <1>3, <1>7, <1>8 DEF S

\* The structure of the mirror image is the opposite one.
LEMMA StructureTurns ==
  ASSUME NEW bars, NEW turned, Mirrors(bars, turned), ~ TwoWays(bars)
  PROVE  LET s == MarketStructure(bars)
             t == MarketStructure(turned)
         IN  /\ s.trend \in {"up", "down", "range"} /\ t.trend = Turned[s.trend]
             /\ s.choch.dir \in Ways /\ t.choch.dir = Turned[s.choch.dir]
             /\ s.mss.dir \in Ways /\ t.mss.dir = Turned[s.mss.dir]
<1>0. PivotK \in Nat /\ Len(turned) = Len(bars) /\ Len(bars) \in Nat
  BY StructureAssumption DEF Mirrors
<1>1. CASE Len(bars) < 2 * PivotK + 3
  <2>1. /\ MarketStructure(bars) = Block("range", "range", [bos |-> NoBreak, choch |-> NoBreak, mss |-> NoBreak])
        /\ MarketStructure(turned) = Block("range", "range", [bos |-> NoBreak, choch |-> NoBreak, mss |-> NoBreak])
    BY <1>0, <1>1 DEF MarketStructure
  <2> QED BY <2>1 DEF Block, Reported, NoBreak, Turned, Ways
<1>2. CASE ~ (Len(bars) < 2 * PivotK + 3)
  <2>1. PivotK <= Len(bars)
    BY <1>0, <1>2
  <2>2. /\ MarketStructure(bars) = Block(Trend(bars), Phase(bars), Breaks(bars))
        /\ MarketStructure(turned) = Block(Trend(turned), Phase(turned), Breaks(turned))
    BY <1>0, <1>2 DEF MarketStructure
  <2> DEFINE b == Breaks(bars)
             c == Breaks(turned)
  <2>3. ScansOpposed(b, c)
    BY <2>1, BreaksTurn
  <2> HIDE DEF b, c
  <2>4. /\ b.choch.dir \in Ways /\ b.mss.dir \in Ways
        /\ c.choch.dir = Turned[b.choch.dir] /\ c.mss.dir = Turned[b.mss.dir]
    BY <2>3 DEF ScansOpposed, Scans, Breakings, Ways
  <2>5. \A trend, phase, x : /\ Block(trend, phase, x).trend = trend
                             /\ Block(trend, phase, x).choch.dir = x.choch.dir
                             /\ Block(trend, phase, x).mss.dir = x.mss.dir
    BY DEF Block, Reported
  <2> QED BY <2>2, <2>4, <2>5, TrendTurns DEF b, c
<1> QED BY <1>1, <1>2

-----------------------------------------------------------------------------
(* Zones                                                                   *)

KindTurned == [fvg |-> "fvg", order_block |-> "order_block", flip |-> "flip",
               eqh |-> "eql", eql |-> "eqh", vwap |-> "vwap", hvn |-> "hvn", lvn |-> "lvn",
               pdh |-> "pdl", pdl |-> "pdh"]
SideTurned == [none |-> "none", bull |-> "bear", bear |-> "bull"]
ZoneStatuses == {"fresh", "mitigated", "invalidated", "unset"}

\* Zones as they are found, and what they are in the mirror image.
RawZones == [type : ZoneKinds, side : {"none", "bull", "bear"}, lo : Prices, hi : Prices,
             status : ZoneStatuses, n : Nat]

ZoneTurned(z) ==
  [type |-> KindTurned[z.type], side |-> SideTurned[z.side], lo |-> MaxPrice - z.hi,
   hi |-> MaxPrice - z.lo, status |-> z.status, n |-> z.n]

LEMMA ZoneTurnsBack ==
  ASSUME NEW z \in RawZones
  PROVE  ZoneTurned(z) \in RawZones /\ ZoneTurned(ZoneTurned(z)) = z
<1>0. MaxPrice \in Nat
  BY PerceptionAssumption
<1>1. /\ z.type \in ZoneKinds /\ z.side \in {"none", "bull", "bear"} /\ z.lo \in Prices /\ z.hi \in Prices
      /\ z.status \in ZoneStatuses /\ z.n \in Nat
      /\ z = [type |-> z.type, side |-> z.side, lo |-> z.lo, hi |-> z.hi, status |-> z.status, n |-> z.n]
  BY DEF RawZones
<1>2. \A k \in ZoneKinds : KindTurned[k] \in ZoneKinds /\ KindTurned[KindTurned[k]] = k
  BY DEF ZoneKinds, KindTurned
<1>3. \A s \in {"none", "bull", "bear"} : SideTurned[s] \in {"none", "bull", "bear"} /\ SideTurned[SideTurned[s]] = s
  BY DEF SideTurned
<1>4. \A p \in Prices : MaxPrice - p \in Prices /\ MaxPrice - (MaxPrice - p) = p
  BY <1>0 DEF Prices
<1> DEFINE t == ZoneTurned(z)
<1>5. /\ t.type = KindTurned[z.type] /\ t.side = SideTurned[z.side] /\ t.lo = MaxPrice - z.hi
      /\ t.hi = MaxPrice - z.lo /\ t.status = z.status /\ t.n = z.n
  BY DEF ZoneTurned
<1>6. t \in RawZones
  BY <1>1, <1>2, <1>3, <1>4 DEF ZoneTurned, RawZones
<1> HIDE DEF t
<1>7. ZoneTurned(t) = [type |-> KindTurned[t.type], side |-> SideTurned[t.side], lo |-> MaxPrice - t.hi,
                       hi |-> MaxPrice - t.lo, status |-> t.status, n |-> t.n]
  BY DEF ZoneTurned
<1>8. ZoneTurned(t) = z
  BY <1>1, <1>2, <1>3, <1>4, <1>5, <1>7
<1> QED BY <1>6, <1>8 DEF t

\* The later bars of a chart and of its mirror image.
LEMMA LaterMirrors ==
  ASSUME NEW bars, NEW turned, Mirrors(bars, turned), NEW k \in 1..Len(bars)
  PROVE  Mirrors(SubSeq(bars, k + 1, Len(bars)), SubSeq(turned, k + 1, Len(turned)))
<1> DEFINE n == Len(bars)
           a == SubSeq(bars, k + 1, n)
           b == SubSeq(turned, k + 1, n)
<1>0. bars \in Seq(Bar) /\ turned \in Seq(Bar) /\ Len(turned) = n /\ n \in Nat /\ k \in 1..n
  BY DEF Mirrors
<1>1. /\ a \in Seq(Bar) /\ Len(a) = n - k /\ \A i \in 1..(n - k) : a[i] = bars[k + i]
  BY <1>0
<1>2. /\ b \in Seq(Bar) /\ Len(b) = n - k /\ \A i \in 1..(n - k) : b[i] = turned[k + i]
  BY <1>0
<1> HIDE DEF a, b
<1>3. ASSUME NEW i \in 1..(n - k) PROVE OnGrid(a[i]) /\ OnGrid(b[i]) /\ Flipped(a[i], b[i])
  <2>1. k + i \in 1..n
    BY <1>0
  <2>2. OnGrid(bars[k + i]) /\ OnGrid(turned[k + i]) /\ Flipped(bars[k + i], turned[k + i])
    BY <2>1 DEF Mirrors
  <2> QED BY <1>1, <1>2, <2>2
<1>4. Mirrors(a, b)
  BY <1>1, <1>2, <1>3 DEF Mirrors
<1> QED BY <1>0, <1>4 DEF a, b

LEMMA StatusTurns ==
  ASSUME NEW bars, NEW turned, Mirrors(bars, turned), NEW lo \in Prices, NEW hi \in Prices,
         NEW side \in {"bull", "bear"}
  PROVE  /\ GapStatus(SideTurned[side], MaxPrice - hi, MaxPrice - lo, turned) = GapStatus(side, lo, hi, bars)
         /\ GapStatus(side, lo, hi, bars) \in ZoneStatuses
<1>0. MaxPrice \in Nat /\ lo \in 0..MaxPrice /\ hi \in 0..MaxPrice
  BY PerceptionAssumption DEF Prices
<1> DEFINE other == SideTurned[side]
           through(b) == IF side = "bull" THEN b.c < lo ELSE b.c > hi
           enters(b)  == IF side = "bull" THEN b.l <= hi ELSE b.h >= lo
           through2(b) == IF other = "bull" THEN b.c < MaxPrice - hi ELSE b.c > MaxPrice - lo
           enters2(b)  == IF other = "bull" THEN b.l <= MaxPrice - lo ELSE b.h >= MaxPrice - hi
<1>1. DOMAIN bars = 1..Len(bars) /\ DOMAIN turned = 1..Len(bars)
  BY DEF Mirrors
<1>2. other = (IF side = "bull" THEN "bear" ELSE "bull")
  BY DEF SideTurned
<1> HIDE DEF other
<1>3. ASSUME NEW i \in 1..Len(bars)
      PROVE  (through2(turned[i]) <=> through(bars[i])) /\ (enters2(turned[i]) <=> enters(bars[i]))
  <2> DEFINE c == bars[i].c
             h == bars[i].h
             l == bars[i].l
  <2>1. /\ c \in Nat /\ h \in Nat /\ l \in Nat /\ turned[i].c = MaxPrice - c
        /\ turned[i].h = MaxPrice - l /\ turned[i].l = MaxPrice - h
    BY MirrorBars
  <2>2. /\ through(bars[i]) <=> IF side = "bull" THEN c < lo ELSE c > hi
        /\ enters(bars[i]) <=> IF side = "bull" THEN l <= hi ELSE h >= lo
    OBVIOUS
  <2> HIDE DEF c, h, l
  <2>3. /\ through2(turned[i]) <=> IF side = "bull" THEN MaxPrice - c > MaxPrice - lo ELSE MaxPrice - c < MaxPrice - hi
        /\ enters2(turned[i]) <=> IF side = "bull" THEN MaxPrice - l >= MaxPrice - hi ELSE MaxPrice - h <= MaxPrice - lo
    BY <1>2, <2>1
  <2> QED BY <1>0, <2>1, <2>2, <2>3
<1> DEFINE ended == \E i \in 1..Len(bars) : through(bars[i])
           entered == \E i \in 1..Len(bars) : enters(bars[i])
<1>4. GapStatus(side, lo, hi, bars) =
        CASE ended -> "invalidated" [] ~ ended /\ entered -> "mitigated" [] OTHER -> "fresh"
  BY <1>1, Zenon DEF GapStatus
<1>5. GapStatus(other, MaxPrice - hi, MaxPrice - lo, turned) =
        CASE \E i \in 1..Len(bars) : through2(turned[i]) -> "invalidated"
          [] ~ (\E i \in 1..Len(bars) : through2(turned[i])) /\ \E i \in 1..Len(bars) : enters2(turned[i]) -> "mitigated"
          [] OTHER -> "fresh"
  BY <1>1, Zenon DEF GapStatus
<1> HIDE DEF through, enters, through2, enters2
<1>6. /\ (\E i \in 1..Len(bars) : through2(turned[i])) <=> ended
      /\ (\E i \in 1..Len(bars) : enters2(turned[i])) <=> entered
  BY <1>3
<1> HIDE DEF ended, entered
<1>7. GapStatus(other, MaxPrice - hi, MaxPrice - lo, turned) =
        CASE ended -> "invalidated" [] ~ ended /\ entered -> "mitigated" [] OTHER -> "fresh"
  BY <1>5, <1>6
<1> QED BY <1>4, <1>7 DEF other, ZoneStatuses

LEMMA FloorOf ==
  ASSUME NEW a \in Int, NEW k \in Int
  PROVE  Max({a, k}) \in Int /\ a <= Max({a, k})
<1>1. Max({a, k}) \in {a, k} /\ a <= Max({a, k})
  BY ZenonT(20), MaxOfTwo
<1> QED BY <1>1

\* A gap is a gap of the other side.
LEMMA GapsTurn ==
  ASSUME NEW bars, NEW turned, Mirrors(bars, turned), NEW z \in FvgZones(bars)
  PROVE  z \in RawZones /\ ZoneTurned(z) \in FvgZones(turned)
<1>0. MaxPrice \in Nat /\ Len(turned) = Len(bars) /\ Len(bars) \in Nat
  BY PerceptionAssumption DEF Mirrors
<1> DEFINE m == Max({3, Len(bars) - FvgLookback + 1})
<1>1. m \in Int /\ 3 <= m
  <2> DEFINE k == Len(bars) - FvgLookback + 1
  <2>1. k \in Int /\ 3 \in Int
    BY <1>0 DEF FvgLookback
  <2> HIDE DEF k
  <2>2. Max({3, k}) \in Int /\ 3 <= Max({3, k})
    BY <2>1, FloorOf
  <2> QED BY <2>2 DEF k
<1>2. /\ FvgZones(bars) = UNION {FvgAt(bars, k) : k \in m..Len(bars)}
      /\ FvgZones(turned) = UNION {FvgAt(turned, k) : k \in m..Len(bars)}
  BY <1>0 DEF FvgZones
<1> HIDE DEF m
<1>3. PICK k \in m..Len(bars) : z \in FvgAt(bars, k)
  BY <1>2
<1>4. k \in 1..Len(bars) /\ k - 2 \in 1..Len(bars)
  BY <1>0, <1>1
<1> DEFINE later == SubSeq(bars, k + 1, Len(bars))
           later2 == SubSeq(turned, k + 1, Len(turned))
           l == bars[k].l
           h == bars[k].h
           h2 == bars[k - 2].h
           l2 == bars[k - 2].l
<1>5. Mirrors(later, later2)
  BY <1>4, LaterMirrors
<1>6. /\ l \in Nat /\ h \in Nat /\ l <= h /\ h <= MaxPrice /\ l <= MaxPrice
      /\ turned[k].l = MaxPrice - h /\ turned[k].h = MaxPrice - l
  BY <1>4, MirrorBars
<1>7. /\ l2 \in Nat /\ h2 \in Nat /\ l2 <= h2 /\ h2 <= MaxPrice /\ l2 <= MaxPrice
      /\ turned[k - 2].l = MaxPrice - h2 /\ turned[k - 2].h = MaxPrice - l2
  BY <1>4, MirrorBars
<1>8. FvgAt(bars, k) = CASE l > h2 -> {Gap3("bull", h2, l, later)}
                         [] h < l2 -> {Gap3("bear", h, l2, later)}
                         [] OTHER -> {}
  BY DEF FvgAt
<1>9. FvgAt(turned, k) = CASE turned[k].l > turned[k - 2].h -> {Gap3("bull", turned[k - 2].h, turned[k].l, later2)}
                           [] turned[k].h < turned[k - 2].l -> {Gap3("bear", turned[k].h, turned[k - 2].l, later2)}
                           [] OTHER -> {}
  BY DEF FvgAt
<1> HIDE DEF later, later2, l, h, l2, h2
<1>10. FvgAt(turned, k) = CASE h < l2 -> {Gap3("bull", MaxPrice - l2, MaxPrice - h, later2)}
                            [] l > h2 -> {Gap3("bear", MaxPrice - l, MaxPrice - h2, later2)}
                            [] OTHER -> {}
  <2>1. (turned[k].l > turned[k - 2].h <=> h < l2) /\ (turned[k].h < turned[k - 2].l <=> l > h2)
    BY <1>0, <1>6, <1>7
  <2> QED BY <1>6, <1>7, <1>9, <2>1
<1>11. ~ (l > h2 /\ h < l2)
  BY <1>6, <1>7
<1>12. ASSUME NEW side \in {"bull", "bear"}, NEW lo \in Prices, NEW hi \in Prices
       PROVE  /\ Gap3(side, lo, hi, later) \in RawZones
              /\ ZoneTurned(Gap3(side, lo, hi, later)) = Gap3(SideTurned[side], MaxPrice - hi, MaxPrice - lo, later2)
  <2> DEFINE st == GapStatus(side, lo, hi, later)
  <2>1. st \in ZoneStatuses /\ GapStatus(SideTurned[side], MaxPrice - hi, MaxPrice - lo, later2) = st
    BY <1>5, StatusTurns
  <2>2. Gap3(side, lo, hi, later) = [type |-> "fvg", side |-> side, lo |-> lo, hi |-> hi, status |-> st, n |-> 1]
    BY DEF Gap3
  <2>3. Gap3(SideTurned[side], MaxPrice - hi, MaxPrice - lo, later2)
          = [type |-> "fvg", side |-> SideTurned[side], lo |-> MaxPrice - hi, hi |-> MaxPrice - lo, status |-> st, n |-> 1]
    BY <2>1 DEF Gap3
  <2> HIDE DEF st
  <2> DEFINE g == Gap3(side, lo, hi, later)
  <2>4. /\ g.type = "fvg" /\ g.side = side /\ g.lo = lo /\ g.hi = hi /\ g.status = st /\ g.n = 1
    BY <2>2
  <2>5. g \in RawZones
    BY <2>1, <2>2 DEF RawZones, ZoneKinds
  <2> HIDE DEF g
  <2>6. ZoneTurned(g) = [type |-> "fvg", side |-> SideTurned[side], lo |-> MaxPrice - hi, hi |-> MaxPrice - lo,
                         status |-> st, n |-> 1]
    BY <2>4 DEF ZoneTurned, KindTurned
  <2> QED BY <2>3, <2>5, <2>6 DEF g
<1>13. l \in Prices /\ h \in Prices /\ l2 \in Prices /\ h2 \in Prices
  BY <1>0, <1>6, <1>7 DEF Prices
<1>14. CASE l > h2
  <2>1. z = Gap3("bull", h2, l, later)
    BY <1>3, <1>8, <1>11, <1>14
  <2>2. Gap3("bear", MaxPrice - l, MaxPrice - h2, later2) \in FvgAt(turned, k)
    BY <1>10, <1>11, <1>14
  <2>3. SideTurned["bull"] = "bear"
    BY DEF SideTurned
  <2>4. z \in RawZones /\ ZoneTurned(z) = Gap3("bear", MaxPrice - l, MaxPrice - h2, later2)
    BY <1>12, <1>13, <2>1, <2>3
  <2> QED BY <1>2, <2>2, <2>4
<1>15. CASE ~ (l > h2) /\ h < l2
  <2>1. z = Gap3("bear", h, l2, later)
    BY <1>3, <1>8, <1>15
  <2>2. Gap3("bull", MaxPrice - l2, MaxPrice - h, later2) \in FvgAt(turned, k)
    BY <1>10, <1>15
  <2>3. SideTurned["bear"] = "bull"
    BY DEF SideTurned
  <2>4. z \in RawZones /\ ZoneTurned(z) = Gap3("bull", MaxPrice - l2, MaxPrice - h, later2)
    BY <1>12, <1>13, <2>1, <2>3
  <2> QED BY <1>2, <2>2, <2>4
<1>16. CASE ~ (l > h2) /\ ~ (h < l2)
  BY <1>3, <1>8, <1>16
<1> QED BY <1>14, <1>15, <1>16

\* The side of an order block, in the mirror image.
LEMMA BlockSideTurns ==
  ASSUME NEW bars, NEW turned, Mirrors(bars, turned), NEW k \in 1..Len(bars), k + 1 \in 1..Len(bars)
  PROVE  /\ OrderBlockSide(bars, k) \in {"none", "bull", "bear"}
         /\ OrderBlockSide(turned, k) = SideTurned[OrderBlockSide(bars, k)]
<1> DEFINE o == bars[k].o
           c == bars[k].c
           p == bars[k + 1].o
           q == bars[k + 1].c
           weak == 10 * Gapped(p, q) < 12 * Atr
           rises == q - p > 0 /\ 10 * (q - p) >= 12 * Atr /\ c < o
           falls == q - p < 0 /\ -10 * (q - p) >= 12 * Atr /\ c > o
<1>0. Atr \in Nat \ {0} /\ MaxPrice \in Nat
  BY StructureAssumption, PerceptionAssumption
<1>1. /\ o \in Nat /\ c \in Nat /\ turned[k].o = MaxPrice - o /\ turned[k].c = MaxPrice - c
  BY MirrorBars
<1>2. /\ p \in Nat /\ q \in Nat /\ turned[k + 1].o = MaxPrice - p /\ turned[k + 1].c = MaxPrice - q
  BY MirrorBars
<1>3. OrderBlockSide(bars, k) = CASE weak -> "none" [] rises -> "bull" [] falls -> "bear" [] OTHER -> "none"
  BY DEF OrderBlockSide, Body
<1> DEFINE weak2 == 10 * Gapped(MaxPrice - p, MaxPrice - q) < 12 * Atr
           move2 == (MaxPrice - q) - (MaxPrice - p)
           rises2 == move2 > 0 /\ 10 * move2 >= 12 * Atr /\ MaxPrice - c < MaxPrice - o
           falls2 == move2 < 0 /\ -10 * move2 >= 12 * Atr /\ MaxPrice - c > MaxPrice - o
<1>4. OrderBlockSide(turned, k) = CASE weak2 -> "none" [] rises2 -> "bull" [] falls2 -> "bear" [] OTHER -> "none"
  <2> HIDE DEF o, c, p, q
  <2> QED BY <1>1, <1>2 DEF OrderBlockSide, Body
<1> HIDE DEF o, c, p, q
<1>5. /\ (weak2 <=> weak) /\ (rises2 <=> falls) /\ (falls2 <=> rises) /\ ~ (rises /\ falls)
      /\ weak => ~ rises /\ ~ falls
  <2>1. Gapped(MaxPrice - p, MaxPrice - q) = Gapped(p, q)
    BY <1>0, <1>2 DEF Gapped
  <2>2. move2 = p - q
    BY <1>0, <1>2
  <2> HIDE DEF move2
  <2>3. MaxPrice - c < MaxPrice - o <=> c > o
    BY <1>0, <1>1
  <2>4. MaxPrice - c > MaxPrice - o <=> c < o
    BY <1>0, <1>1
  <2>5. /\ (move2 > 0 <=> q - p < 0) /\ (move2 < 0 <=> q - p > 0)
        /\ 10 * move2 = -10 * (q - p) /\ -10 * move2 = 10 * (q - p)
    BY <1>2, <2>2
  <2>6. ~ (q - p > 0 /\ q - p < 0)
    BY <1>2
  <2>7. weak => ~ rises /\ ~ falls
    BY <1>0, <1>2 DEF Gapped
  <2> QED BY <2>1, <2>3, <2>4, <2>5, <2>6, <2>7
<1> HIDE DEF weak, rises, falls, weak2, rises2, falls2
<1>6. CASE weak
  BY <1>3, <1>4, <1>5, <1>6 DEF SideTurned
<1>7. CASE ~ weak
  BY <1>3, <1>4, <1>5, <1>7 DEF SideTurned
<1> QED BY <1>6, <1>7

\* An order block is one of the other side.
LEMMA BlocksTurn ==
  ASSUME NEW bars, NEW turned, Mirrors(bars, turned), NEW z \in OrderBlockZones(bars)
  PROVE  z \in RawZones /\ ZoneTurned(z) \in OrderBlockZones(turned)
<1>0. MaxPrice \in Nat /\ Len(turned) = Len(bars) /\ Len(bars) \in Nat
  BY PerceptionAssumption DEF Mirrors
<1> DEFINE m == Max({2, Len(bars) - 119})
           at == {k \in m..(Len(bars) - 1) : OrderBlockSide(bars, k) # "none"}
           at2 == {k \in m..(Len(bars) - 1) : OrderBlockSide(turned, k) # "none"}
           OneBlock(side, lo, hi) == [type |-> "order_block", side |-> side, lo |-> lo, hi |-> hi,
                                   status |-> "unset", n |-> 1]
           Latest(s) == {k \in s : Cardinality({i \in s : i > k}) < 6}
<1>1. m \in Int /\ 2 <= m
  <2> DEFINE k == Len(bars) - 119
  <2>1. k \in Int /\ 2 \in Int
    BY <1>0
  <2> HIDE DEF k
  <2>2. Max({2, k}) \in Int /\ 2 <= Max({2, k})
    BY <2>1, FloorOf
  <2> QED BY <2>2 DEF k
<1>2. /\ OrderBlockZones(bars) = {OneBlock(OrderBlockSide(bars, k), bars[k].l, bars[k].h) : k \in Latest(at)}
      /\ OrderBlockZones(turned) = {OneBlock(OrderBlockSide(turned, k), turned[k].l, turned[k].h) : k \in Latest(at2)}
  BY <1>0 DEF OrderBlockZones
<1> HIDE DEF m
<1>3. ASSUME NEW k \in m..(Len(bars) - 1)
      PROVE  /\ k \in 1..Len(bars) /\ OrderBlockSide(bars, k) \in {"none", "bull", "bear"}
             /\ OrderBlockSide(turned, k) = SideTurned[OrderBlockSide(bars, k)]
  <2>1. k \in 1..Len(bars) /\ k + 1 \in 1..Len(bars)
    BY <1>0, <1>1
  <2> QED BY <2>1, BlockSideTurns
<1>4. at2 = at
  <2>1. \A s \in {"none", "bull", "bear"} : SideTurned[s] # "none" <=> s # "none"
    BY DEF SideTurned
  <2> QED BY <1>3, <2>1
<1>5. PICK k \in Latest(at) : z = OneBlock(OrderBlockSide(bars, k), bars[k].l, bars[k].h)
  BY <1>2
<1>6. k \in m..(Len(bars) - 1) /\ k \in Latest(at2)
  BY <1>4, <1>5
<1> HIDE DEF at, at2, Latest
<1> DEFINE side == OrderBlockSide(bars, k)
<1>7. k \in 1..Len(bars) /\ side \in {"none", "bull", "bear"} /\ OrderBlockSide(turned, k) = SideTurned[side]
  BY <1>3, <1>6
<1> HIDE DEF side
<1>8. /\ bars[k].l \in Prices /\ bars[k].h \in Prices
      /\ turned[k].l = MaxPrice - bars[k].h /\ turned[k].h = MaxPrice - bars[k].l
  BY <1>7, MirrorBars DEF Prices
<1>9. z = OneBlock(side, bars[k].l, bars[k].h)
  BY <1>5 DEF side
<1>10. z \in RawZones
  BY <1>7, <1>8, <1>9 DEF RawZones, ZoneKinds, ZoneStatuses
<1>11. ZoneTurned(z) = OneBlock(SideTurned[side], MaxPrice - bars[k].h, MaxPrice - bars[k].l)
  BY <1>9 DEF ZoneTurned, KindTurned
<1>12. ZoneTurned(z) \in OrderBlockZones(turned)
  BY <1>2, <1>6, <1>7, <1>8, <1>11
<1> QED BY <1>10, <1>12

\* Bands of prices that are turned upside down.
LEMMA BandsTurn ==
  ASSUME NEW P \in SUBSET Prices, NEW Q \in SUBSET Prices,
         \A p \in P : MaxPrice - p \in Q, \A q \in Q : MaxPrice - q \in P, NEW band \in Clusters(P)
  PROVE  \E lo, hi \in Prices : /\ band = <<lo, hi>> /\ lo <= hi
                                /\ <<MaxPrice - hi, MaxPrice - lo>> \in Clusters(Q)
<1>0. MaxPrice \in Nat /\ Atr \in Nat \ {0} /\ Prices = 0..MaxPrice
  BY PerceptionAssumption, StructureAssumption DEF Prices
<1> DEFINE starts(S) == {p \in S : \A q \in S : q < p => ~Near05(p, q)}
           ends(S) == {p \in S : \A q \in S : q > p => ~Near05(p, q)}
           Top(S, lo) == Min({p \in ends(S) : p >= lo})
<1>1. ASSUME NEW S PROVE Clusters(S) = {<<lo, Top(S, lo)>> : lo \in starts(S)}
  BY DEF Clusters
<1>2. PICK lo \in starts(P) : band = <<lo, Top(P, lo)>>
  BY <1>1
<1> DEFINE after == {p \in ends(P) : p >= lo}
           hi == Top(P, lo)
<1>3. lo \in 0..MaxPrice /\ lo \in P
  BY <1>0, <1>2
<1>4. PICK top \in P : \A q \in P : q <= top
  BY <1>0, <1>3, Greatest
<1>5. top \in after
  <2>1. top \in 0..MaxPrice /\ top >= lo
    BY <1>0, <1>3, <1>4
  <2>2. \A q \in P : ~(q > top)
    BY <1>0, <1>4, <2>1
  <2> QED BY <2>1, <2>2
<1>6. after \in SUBSET Nat
  <2>1. after \subseteq P
    OBVIOUS
  <2> HIDE DEF after
  <2> QED BY <1>0, <2>1
<1>7. hi \in after /\ \A p \in after : hi <= p
  <2> HIDE DEF after
  <2>1. PICK least \in after : \A q \in after : least <= q
    BY <1>5, <1>6, Least
  <2>2. Min(after) \in after /\ \A q \in after : Min(after) <= q
    BY <2>1 DEF Min
  <2> QED BY <2>2 DEF after
<1>8. hi \in ends(P) /\ hi \in P /\ hi >= lo
  BY <1>7
<1>9. hi \in 0..MaxPrice /\ \A p \in ends(P) : p >= lo => hi <= p
  BY <1>0, <1>7, <1>8
<1> HIDE DEF hi, after
<1>10. ASSUME NEW a \in Prices, NEW b \in Prices
       PROVE  Near05(MaxPrice - a, MaxPrice - b) <=> Near05(a, b)
  <2>1. a \in 0..MaxPrice /\ b \in 0..MaxPrice
    BY <1>0
  <2>2. Gapped(MaxPrice - a, MaxPrice - b) = Gapped(a, b)
    BY <1>0, <2>1 DEF Gapped
  <2> QED BY <2>2 DEF Near05
<1>11. \A q \in Q : q \in Prices /\ MaxPrice - q \in P /\ MaxPrice - q \in Prices /\ MaxPrice - (MaxPrice - q) = q
  BY <1>0
<1>12. ASSUME NEW p \in ends(P) PROVE MaxPrice - p \in starts(Q)
  <2>1. p \in P /\ p \in Prices /\ MaxPrice - p \in Q
    OBVIOUS
  <2>2. ASSUME NEW q \in Q, q < MaxPrice - p PROVE ~ Near05(MaxPrice - p, q)
    <3>1. MaxPrice - q \in P /\ MaxPrice - q > p /\ MaxPrice - q \in Prices
      BY <1>0, <1>11, <2>1, <2>2
    <3>2. ~ Near05(p, MaxPrice - q)
      BY <3>1
    <3> QED BY <1>10, <1>11, <2>1, <3>1, <3>2
  <2> QED BY <2>1, <2>2
<1>13. ASSUME NEW p \in starts(P) PROVE MaxPrice - p \in ends(Q)
  <2>1. p \in P /\ p \in Prices /\ MaxPrice - p \in Q
    OBVIOUS
  <2>2. ASSUME NEW q \in Q, q > MaxPrice - p PROVE ~ Near05(MaxPrice - p, q)
    <3>1. MaxPrice - q \in P /\ MaxPrice - q < p /\ MaxPrice - q \in Prices
      BY <1>0, <1>11, <2>1, <2>2
    <3>2. ~ Near05(p, MaxPrice - q)
      BY <3>1
    <3> QED BY <1>10, <1>11, <2>1, <3>1, <3>2
  <2> QED BY <2>1, <2>2
<1>14. ASSUME NEW q \in ends(Q) PROVE MaxPrice - q \in starts(P)
  <2>1. q \in Q /\ q \in Prices /\ MaxPrice - q \in P
    BY <1>11
  <2>2. ASSUME NEW p \in P, p < MaxPrice - q PROVE ~ Near05(MaxPrice - q, p)
    <3>1. MaxPrice - p \in Q /\ MaxPrice - p > q /\ p \in Prices /\ MaxPrice - p \in Prices
          /\ MaxPrice - (MaxPrice - p) = p
      BY <1>0, <2>1, <2>2
    <3>2. ~ Near05(q, MaxPrice - p)
      BY <3>1
    <3> QED BY <1>10, <2>1, <3>1, <3>2
  <2> QED BY <2>1, <2>2
\* No other band starts between the two ends of this one.
<1>15. ASSUME NEW s \in starts(P), s <= hi PROVE s <= lo
  <2>1. s \in P /\ s \in 0..MaxPrice
    BY <1>0
  <2> SUFFICES ASSUME lo < s PROVE FALSE
    BY <1>3, <2>1
  <2> DEFINE below == {q \in P : q < s}
  <2>2. below \in SUBSET (0..MaxPrice) /\ lo \in below
    BY <1>0, <1>3
  <2>3. \A q \in below : q \in P /\ q < s
    OBVIOUS
  <2>4. \A q \in P : q < s => q \in below
    OBVIOUS
  <2> HIDE DEF below
  <2>5. PICK q \in below : \A r \in below : r <= q
    BY <1>0, <2>2, Greatest
  <2>6. q \in P /\ q \in 0..MaxPrice /\ q < s /\ lo <= q /\ ~ Near05(s, q)
    BY <2>2, <2>3, <2>5
  <2>7. ASSUME NEW r \in P, r > q PROVE ~ Near05(q, r)
    <3>1. r \in 0..MaxPrice
      BY <1>0
    <3>2. r >= s
      BY <2>1, <2>4, <2>5, <2>6, <2>7, <3>1
    <3>3. Gapped(q, r) >= Gapped(s, q)
      BY <2>1, <2>6, <3>1, <3>2 DEF Gapped
    <3>4. Gapped(q, r) \in Nat /\ Gapped(s, q) \in Nat
      BY <2>1, <2>6, <3>1 DEF Gapped
    <3>5. ~ (2 * Gapped(s, q) <= Atr)
      BY <2>6 DEF Near05
    <3>6. ~ (2 * Gapped(q, r) <= Atr)
      BY <1>0, <3>3, <3>4, <3>5
    <3> QED BY <3>6 DEF Near05
  <2>8. q \in ends(P)
    BY <2>6, <2>7
  <2>9. hi <= q
    BY <1>3, <1>9, <2>6, <2>8
  <2> QED BY <1>9, <1>15, <2>1, <2>6, <2>9
<1> DEFINE lo2 == MaxPrice - hi
           hi2 == MaxPrice - lo
<1>16. lo2 \in starts(Q) /\ hi2 \in ends(Q) /\ lo2 \in Prices /\ hi2 \in Prices /\ hi2 >= lo2
  <2>1. lo2 \in starts(Q)
    BY <1>8, <1>12
  <2>2. hi2 \in ends(Q)
    BY <1>2, <1>13
  <2> QED BY <1>0, <1>3, <1>8, <1>9, <2>1, <2>2
<1>17. ASSUME NEW q \in ends(Q), q >= lo2 PROVE hi2 <= q
  <2>1. MaxPrice - q \in starts(P) /\ q \in 0..MaxPrice
    BY <1>0, <1>11, <1>14
  <2>2. MaxPrice - q <= hi
    BY <1>0, <1>9, <1>17, <2>1
  <2>3. MaxPrice - q <= lo
    BY <1>15, <2>1, <2>2
  <2> QED BY <1>0, <1>3, <2>1, <2>3
<1> DEFINE after2 == {p \in ends(Q) : p >= lo2}
<1>18. Top(Q, lo2) = hi2
  <2>1. hi2 \in after2 /\ \A q \in after2 : hi2 <= q
    BY <1>16, <1>17
  <2>2. after2 \subseteq Prices
    OBVIOUS
  <2> HIDE DEF after2
  <2>3. Min(after2) \in after2 /\ \A q \in after2 : Min(after2) <= q
    BY <2>1 DEF Min
  <2>4. Min(after2) <= hi2 /\ hi2 <= Min(after2) /\ Min(after2) \in Prices /\ hi2 \in Prices
    BY <1>16, <2>1, <2>2, <2>3
  <2>5. Min(after2) = hi2
    <3> DEFINE x == Min(after2)
               y == hi2
    <3> HIDE DEF x, y
    <3>1. x <= y /\ y <= x /\ x \in 0..MaxPrice /\ y \in 0..MaxPrice
      BY <1>0, <2>4 DEF x, y
    <3> QED BY <1>0, <3>1 DEF x, y
  <2> QED BY <2>5 DEF after2
<1>19. <<lo2, hi2>> \in Clusters(Q)
  BY <1>1, <1>16, <1>18
<1>20. band = <<lo, hi>> /\ lo \in Prices /\ hi \in Prices /\ lo <= hi
  BY <1>0, <1>2, <1>3, <1>8, <1>9 DEF hi
<1> QED BY <1>19, <1>20

\* A support is a resistance.
LEMMA LevelsTurn ==
  ASSUME NEW bars, NEW turned, Mirrors(bars, turned), NEW z \in SrZones(bars)
  PROVE  z \in RawZones /\ ZoneTurned(z) \in SrZones(turned)
<1> DEFINE FlipZone(band, n) ==
             [type |-> "flip", side |-> "none", lo |-> band[1], hi |-> band[2], status |-> "unset", n |-> n]
           above(band) == Cardinality({j \in Highs(bars) : band[1] <= bars[j].h /\ bars[j].h <= band[2]})
           below(band) == Cardinality({j \in Lows(bars) : band[1] <= bars[j].l /\ bars[j].l <= band[2]})
           above2(band) == Cardinality({j \in Highs(turned) : band[1] <= turned[j].h /\ turned[j].h <= band[2]})
           below2(band) == Cardinality({j \in Lows(turned) : band[1] <= turned[j].l /\ turned[j].l <= band[2]})
           highs == {bars[j].h : j \in Highs(bars)}
           lows == {bars[j].l : j \in Lows(bars)}
           highs2 == {turned[j].h : j \in Highs(turned)}
           lows2 == {turned[j].l : j \in Lows(turned)}
<1>1. /\ SrZones(bars) = {FlipZone(band, above(band)) : band \in Clusters(highs)}
                           \cup {FlipZone(band, below(band)) : band \in Clusters(lows)}
      /\ SrZones(turned) = {FlipZone(band, above2(band)) : band \in Clusters(highs2)}
                             \cup {FlipZone(band, below2(band)) : band \in Clusters(lows2)}
  BY Zenon DEF SrZones
<1>2. /\ Highs(turned) = Lows(bars) /\ Lows(turned) = Highs(bars)
      /\ Highs(bars) \subseteq 1..Len(bars) /\ Lows(bars) \subseteq 1..Len(bars)
      /\ IsFiniteSet(Highs(bars)) /\ IsFiniteSet(Lows(bars)) /\ MaxPrice \in Nat
  BY SwingsTurn, PerceptionAssumption
<1>3. \A j \in 1..Len(bars) : /\ bars[j].h \in Prices /\ bars[j].l \in Prices
                              /\ turned[j].h = MaxPrice - bars[j].l /\ turned[j].l = MaxPrice - bars[j].h
                              /\ turned[j].h \in Prices /\ turned[j].l \in Prices
  BY <1>2, MirrorBars DEF Prices
<1>4. \A p \in Prices : MaxPrice - p \in Prices /\ MaxPrice - (MaxPrice - p) = p
  BY <1>2 DEF Prices
<1>5. /\ highs \in SUBSET Prices /\ lows2 \in SUBSET Prices
      /\ \A p \in highs : MaxPrice - p \in lows2
      /\ \A p \in lows2 : MaxPrice - p \in highs
  BY <1>2, <1>3, <1>4
<1>6. /\ lows \in SUBSET Prices /\ highs2 \in SUBSET Prices
      /\ \A p \in lows : MaxPrice - p \in highs2
      /\ \A p \in highs2 : MaxPrice - p \in lows
  BY <1>2, <1>3, <1>4
<1>7. ASSUME NEW lo \in Prices, NEW hi \in Prices
      PROVE  /\ above(<<lo, hi>>) = below2(<<MaxPrice - hi, MaxPrice - lo>>)
             /\ below(<<lo, hi>>) = above2(<<MaxPrice - hi, MaxPrice - lo>>)
             /\ above(<<lo, hi>>) \in Nat /\ below(<<lo, hi>>) \in Nat
  <2> DEFINE A == {j \in Highs(bars) : lo <= bars[j].h /\ bars[j].h <= hi}
             B == {j \in Lows(bars) : lo <= bars[j].l /\ bars[j].l <= hi}
             A2 == {j \in Lows(turned) : MaxPrice - hi <= turned[j].l /\ turned[j].l <= MaxPrice - lo}
             B2 == {j \in Highs(turned) : MaxPrice - hi <= turned[j].h /\ turned[j].h <= MaxPrice - lo}
  <2>1. \A p \in Prices : lo <= p /\ p <= hi <=> MaxPrice - hi <= MaxPrice - p /\ MaxPrice - p <= MaxPrice - lo
    BY <1>2 DEF Prices
  <2>2. A2 = A
    <3>1. \A j \in Highs(bars) : j \in A <=> j \in A2
      BY <1>2, <1>3, <2>1
    <3> QED BY <1>2, <3>1
  <2>3. B2 = B
    <3>1. \A j \in Lows(bars) : j \in B <=> j \in B2
      BY <1>2, <1>3, <2>1
    <3> QED BY <1>2, <3>1
  <2>4. IsFiniteSet(A) /\ IsFiniteSet(B)
    BY <1>2, FS_Subset
  <2>5. Cardinality(A) \in Nat /\ Cardinality(B) \in Nat
    BY <2>4, FS_CardinalityType
  <2>6. above(<<lo, hi>>) = Cardinality(A) /\ below(<<lo, hi>>) = Cardinality(B)
    OBVIOUS
  <2>7. /\ below2(<<MaxPrice - hi, MaxPrice - lo>>) = Cardinality(A2)
        /\ above2(<<MaxPrice - hi, MaxPrice - lo>>) = Cardinality(B2)
    OBVIOUS
  <2> HIDE DEF A, B, A2, B2
  <2> QED BY <2>2, <2>3, <2>5, <2>6, <2>7
<1> HIDE DEF above, below, above2, below2, highs, lows, highs2, lows2
<1>8. ASSUME NEW lo \in Prices, NEW hi \in Prices, NEW n \in Nat
      PROVE  /\ FlipZone(<<lo, hi>>, n) \in RawZones
             /\ ZoneTurned(FlipZone(<<lo, hi>>, n)) = FlipZone(<<MaxPrice - hi, MaxPrice - lo>>, n)
  BY DEF RawZones, ZoneKinds, ZoneStatuses, ZoneTurned, KindTurned, SideTurned
<1> HIDE DEF FlipZone
<1>9. CASE \E band \in Clusters(highs) : z = FlipZone(band, above(band))
  <2>1. PICK band \in Clusters(highs) : z = FlipZone(band, above(band))
    BY <1>9
  <2>2. PICK lo, hi \in Prices : band = <<lo, hi>> /\ <<MaxPrice - hi, MaxPrice - lo>> \in Clusters(lows2)
    BY <1>5, BandsTurn
  <2> DEFINE band2 == <<MaxPrice - hi, MaxPrice - lo>>
  <2>3. above(band) = below2(band2) /\ above(band) \in Nat
    BY <1>7, <2>2
  <2>4. z \in RawZones /\ ZoneTurned(z) = FlipZone(band2, below2(band2))
    BY <1>8, <2>1, <2>2, <2>3
  <2>5. FlipZone(band2, below2(band2)) \in SrZones(turned)
    BY <1>1, <2>2
  <2> QED BY <2>4, <2>5
<1>10. CASE \E band \in Clusters(lows) : z = FlipZone(band, below(band))
  <2>1. PICK band \in Clusters(lows) : z = FlipZone(band, below(band))
    BY <1>10
  <2>2. PICK lo, hi \in Prices : band = <<lo, hi>> /\ <<MaxPrice - hi, MaxPrice - lo>> \in Clusters(highs2)
    BY <1>6, BandsTurn
  <2> DEFINE band2 == <<MaxPrice - hi, MaxPrice - lo>>
  <2>3. below(band) = above2(band2) /\ below(band) \in Nat
    BY <1>7, <2>2
  <2>4. z \in RawZones /\ ZoneTurned(z) = FlipZone(band2, above2(band2))
    BY <1>8, <2>1, <2>2, <2>3
  <2>5. FlipZone(band2, above2(band2)) \in SrZones(turned)
    BY <1>1, <2>2
  <2> QED BY <2>4, <2>5
<1> QED BY <1>1, <1>9, <1>10

\* The band of two prices, upside down.
LEMMA EndsTurn ==
  ASSUME NEW p \in Prices, NEW q \in Prices
  PROVE  /\ Min({p, q}) \in Prices /\ Max({p, q}) \in Prices
         /\ Min({MaxPrice - p, MaxPrice - q}) = MaxPrice - Max({p, q})
         /\ Max({MaxPrice - p, MaxPrice - q}) = MaxPrice - Min({p, q})
         /\ Gapped(MaxPrice - p, MaxPrice - q) = Gapped(p, q)
<1>0. MaxPrice \in Nat /\ p \in 0..MaxPrice /\ q \in 0..MaxPrice
  BY PerceptionAssumption DEF Prices
<1>1. p \in Int /\ q \in Int /\ MaxPrice - p \in Int /\ MaxPrice - q \in Int
  BY <1>0
<1> DEFINE a == MaxPrice - p
           b == MaxPrice - q
<1>2. a \in Int /\ b \in Int
  BY <1>1
<1> HIDE DEF a, b
<1>3. /\ Min({p, q}) \in {p, q} /\ p >= Min({p, q}) /\ q >= Min({p, q})
      /\ Max({p, q}) \in {p, q} /\ p <= Max({p, q}) /\ q <= Max({p, q})
  BY <1>1, ZenonT(20), MinOfTwo, MaxOfTwo
<1>4. /\ Min({a, b}) \in {a, b} /\ a >= Min({a, b}) /\ b >= Min({a, b})
      /\ Max({a, b}) \in {a, b} /\ a <= Max({a, b}) /\ b <= Max({a, b})
  BY <1>2, ZenonT(20), MinOfTwo, MaxOfTwo
<1> DEFINE lo == Min({p, q})
           hi == Max({p, q})
           lo2 == Min({a, b})
           hi2 == Max({a, b})
<1> HIDE DEF lo, hi, lo2, hi2
<1>5. /\ lo \in {p, q} /\ p >= lo /\ q >= lo /\ hi \in {p, q} /\ p <= hi /\ q <= hi
      /\ lo2 \in {a, b} /\ a >= lo2 /\ b >= lo2 /\ hi2 \in {a, b} /\ a <= hi2 /\ b <= hi2
  BY <1>3, <1>4 DEF lo, hi, lo2, hi2
<1>6. lo \in 0..MaxPrice /\ hi \in 0..MaxPrice /\ lo2 = MaxPrice - hi /\ hi2 = MaxPrice - lo
  BY <1>0, <1>5 DEF a, b
<1>7. Gapped(MaxPrice - p, MaxPrice - q) = Gapped(p, q)
  BY <1>0 DEF Gapped
<1> QED BY <1>6, <1>7 DEF lo, hi, lo2, hi2, a, b, Prices

\* Equal highs are equal lows.
LEMMA EqualsTurn ==
  ASSUME NEW bars, NEW turned, Mirrors(bars, turned), NEW z \in EqualLevels(bars)
  PROVE  z \in RawZones /\ ZoneTurned(z) \in EqualLevels(turned)
<1> DEFINE level(type, a, b) == [type |-> type, side |-> "none", lo |-> Min({a, b}), hi |-> Max({a, b}),
                                 status |-> "unset", n |-> 1]
           first == {d \in Highs(bars) \X Highs(bars) :
                       /\ d[1] < d[2] /\ 4 * Gapped(bars[d[1]].h, bars[d[2]].h) <= Atr
                       /\ \A m \in Highs(bars) : d[1] < m /\ m < d[2]
                            => 4 * Gapped(bars[d[1]].h, bars[m].h) > Atr}
           second == {d \in Lows(bars) \X Lows(bars) :
                        /\ d[1] < d[2] /\ 4 * Gapped(bars[d[1]].l, bars[d[2]].l) <= Atr
                        /\ \A m \in Lows(bars) : d[1] < m /\ m < d[2]
                             => 4 * Gapped(bars[d[1]].l, bars[m].l) > Atr}
           first2 == {d \in Highs(turned) \X Highs(turned) :
                        /\ d[1] < d[2] /\ 4 * Gapped(turned[d[1]].h, turned[d[2]].h) <= Atr
                        /\ \A m \in Highs(turned) : d[1] < m /\ m < d[2]
                             => 4 * Gapped(turned[d[1]].h, turned[m].h) > Atr}
           second2 == {d \in Lows(turned) \X Lows(turned) :
                         /\ d[1] < d[2] /\ 4 * Gapped(turned[d[1]].l, turned[d[2]].l) <= Atr
                         /\ \A m \in Lows(turned) : d[1] < m /\ m < d[2]
                              => 4 * Gapped(turned[d[1]].l, turned[m].l) > Atr}
<1>1. /\ EqualLevels(bars) = {level("eqh", bars[e[1]].h, bars[e[2]].h) : e \in first}
                               \cup {level("eql", bars[e[1]].l, bars[e[2]].l) : e \in second}
      /\ EqualLevels(turned) = {level("eqh", turned[e[1]].h, turned[e[2]].h) : e \in first2}
                                 \cup {level("eql", turned[e[1]].l, turned[e[2]].l) : e \in second2}
  BY Zenon DEF EqualLevels
<1>2. /\ Highs(turned) = Lows(bars) /\ Lows(turned) = Highs(bars)
      /\ Highs(bars) \subseteq 1..Len(bars) /\ Lows(bars) \subseteq 1..Len(bars) /\ MaxPrice \in Nat
  BY SwingsTurn, PerceptionAssumption
<1>3. \A j \in 1..Len(bars) : /\ bars[j].h \in Prices /\ bars[j].l \in Prices
                              /\ turned[j].h = MaxPrice - bars[j].l /\ turned[j].l = MaxPrice - bars[j].h
  BY <1>2, MirrorBars DEF Prices
<1>4. \A i, j \in 1..Len(bars) : /\ Gapped(turned[i].l, turned[j].l) = Gapped(bars[i].h, bars[j].h)
                                 /\ Gapped(turned[i].h, turned[j].h) = Gapped(bars[i].l, bars[j].l)
  <2>1. \A p, q \in Prices : Gapped(MaxPrice - p, MaxPrice - q) = Gapped(p, q)
    BY EndsTurn
  <2> QED BY <1>3, <2>1
<1>5. second2 = first /\ first2 = second
  <2>1. ASSUME NEW i \in Highs(bars), NEW j \in Highs(bars)
        PROVE  <<i, j>> \in second2 <=> <<i, j>> \in first
    BY <1>2, <1>4
  <2>2. ASSUME NEW i \in Lows(bars), NEW j \in Lows(bars)
        PROVE  <<i, j>> \in first2 <=> <<i, j>> \in second
    BY <1>2, <1>4
  <2>3. /\ first \subseteq Highs(bars) \X Highs(bars) /\ second2 \subseteq Highs(bars) \X Highs(bars)
        /\ second \subseteq Lows(bars) \X Lows(bars) /\ first2 \subseteq Lows(bars) \X Lows(bars)
    BY <1>2
  <2> HIDE DEF first, second, first2, second2
  <2> QED BY <2>1, <2>2, <2>3
<1>6. /\ \A e \in first : e[1] \in 1..Len(bars) /\ e[2] \in 1..Len(bars)
      /\ \A e \in second : e[1] \in 1..Len(bars) /\ e[2] \in 1..Len(bars)
  BY <1>2
<1> HIDE DEF first, second, first2, second2
<1>7. ASSUME NEW p \in Prices, NEW q \in Prices
      PROVE  /\ level("eqh", p, q) \in RawZones /\ level("eql", p, q) \in RawZones
             /\ ZoneTurned(level("eqh", p, q)) = level("eql", MaxPrice - p, MaxPrice - q)
             /\ ZoneTurned(level("eql", p, q)) = level("eqh", MaxPrice - p, MaxPrice - q)
  <2> DEFINE lo == Min({p, q})
             hi == Max({p, q})
  <2>1. /\ lo \in Prices /\ hi \in Prices
        /\ Min({MaxPrice - p, MaxPrice - q}) = MaxPrice - hi /\ Max({MaxPrice - p, MaxPrice - q}) = MaxPrice - lo
    BY EndsTurn
  <2>2. \A type : /\ level(type, p, q) = [type |-> type, side |-> "none", lo |-> lo, hi |-> hi,
                                          status |-> "unset", n |-> 1]
                  /\ level(type, MaxPrice - p, MaxPrice - q)
                       = [type |-> type, side |-> "none", lo |-> MaxPrice - hi, hi |-> MaxPrice - lo,
                          status |-> "unset", n |-> 1]
    BY <2>1
  <2> HIDE DEF lo, hi, level
  <2> QED BY <2>1, <2>2 DEF RawZones, ZoneKinds, ZoneStatuses, ZoneTurned, KindTurned, SideTurned
<1> HIDE DEF level
<1>8. CASE \E e \in first : z = level("eqh", bars[e[1]].h, bars[e[2]].h)
  <2>1. PICK e \in first : z = level("eqh", bars[e[1]].h, bars[e[2]].h)
    BY <1>8
  <2>2. /\ bars[e[1]].h \in Prices /\ bars[e[2]].h \in Prices
        /\ turned[e[1]].l = MaxPrice - bars[e[1]].h /\ turned[e[2]].l = MaxPrice - bars[e[2]].h
    BY <1>3, <1>6
  <2>3. z \in RawZones /\ ZoneTurned(z) = level("eql", turned[e[1]].l, turned[e[2]].l)
    BY <1>7, <2>1, <2>2
  <2> QED BY <1>1, <1>5, <2>3
<1>9. CASE \E e \in second : z = level("eql", bars[e[1]].l, bars[e[2]].l)
  <2>1. PICK e \in second : z = level("eql", bars[e[1]].l, bars[e[2]].l)
    BY <1>9
  <2>2. /\ bars[e[1]].l \in Prices /\ bars[e[2]].l \in Prices
        /\ turned[e[1]].h = MaxPrice - bars[e[1]].l /\ turned[e[2]].h = MaxPrice - bars[e[2]].l
    BY <1>3, <1>6
  <2>3. z \in RawZones /\ ZoneTurned(z) = level("eqh", turned[e[1]].h, turned[e[2]].h)
    BY <1>7, <2>1, <2>2
  <2> QED BY <1>1, <1>5, <2>3
<1> QED BY <1>1, <1>8, <1>9

\* The day before and the volume, upside down.
Days == [h : Prices, l : Prices]
Profile == [vwap : Prices, hvn : Prices, lvn : Prices]

LEMMA LevelTurns ==
  ASSUME NEW p \in Prices, NEW type \in ZoneKinds
  PROVE  Level(type, p) \in RawZones /\ ZoneTurned(Level(type, p)) = Level(KindTurned[type], MaxPrice - p)
BY DEF Level, RawZones, ZoneStatuses, ZoneTurned, SideTurned

LEMMA DayTurns ==
  ASSUME NEW day \in Days
  PROVE  /\ DayTurned(day) \in Days /\ DayTurned(DayTurned(day)) = day
         /\ \A z \in PrevDayZones(day) : z \in RawZones /\ ZoneTurned(z) \in PrevDayZones(DayTurned(day))
<1>0. MaxPrice \in Nat /\ \A p \in Prices : MaxPrice - p \in Prices /\ MaxPrice - (MaxPrice - p) = p
  BY PerceptionAssumption DEF Prices
<1>1. day.h \in Prices /\ day.l \in Prices /\ day = [h |-> day.h, l |-> day.l]
  BY DEF Days
<1>2. /\ PrevDayZones(day) = {Level("pdh", day.h), Level("pdl", day.l)}
      /\ PrevDayZones(DayTurned(day)) = {Level("pdh", MaxPrice - day.l), Level("pdl", MaxPrice - day.h)}
  BY DEF PrevDayZones, DayTurned
<1>3. /\ "pdh" \in ZoneKinds /\ "pdl" \in ZoneKinds
      /\ KindTurned["pdh"] = "pdl" /\ KindTurned["pdl"] = "pdh"
  BY DEF ZoneKinds, KindTurned
<1>4. \A z \in PrevDayZones(day) : z \in RawZones /\ ZoneTurned(z) \in PrevDayZones(DayTurned(day))
  BY <1>1, <1>2, <1>3, LevelTurns
<1>5. DayTurned(day) \in Days /\ DayTurned(DayTurned(day)) = day
  BY <1>0, <1>1 DEF DayTurned, Days
<1> QED BY <1>4, <1>5

LEMMA VolumeTurns ==
  ASSUME NEW v \in Profile
  PROVE  /\ VolumeTurned(v) \in Profile /\ VolumeTurned(VolumeTurned(v)) = v
         /\ \A z \in VolumeZones(v) : z \in RawZones /\ ZoneTurned(z) \in VolumeZones(VolumeTurned(v))
<1>0. MaxPrice \in Nat /\ \A p \in Prices : MaxPrice - p \in Prices /\ MaxPrice - (MaxPrice - p) = p
  BY PerceptionAssumption DEF Prices
<1>1. /\ v.vwap \in Prices /\ v.hvn \in Prices /\ v.lvn \in Prices
      /\ v = [vwap |-> v.vwap, hvn |-> v.hvn, lvn |-> v.lvn]
  BY DEF Profile
<1>2. /\ VolumeZones(v) = {Level("vwap", v.vwap), Level("hvn", v.hvn), Level("lvn", v.lvn)}
      /\ VolumeZones(VolumeTurned(v)) =
           {Level("vwap", MaxPrice - v.vwap), Level("hvn", MaxPrice - v.hvn), Level("lvn", MaxPrice - v.lvn)}
  BY DEF VolumeZones, VolumeTurned
<1>3. \A type \in {"vwap", "hvn", "lvn"} : type \in ZoneKinds /\ KindTurned[type] = type
  BY DEF ZoneKinds, KindTurned
<1>4. \A z \in VolumeZones(v) : z \in RawZones /\ ZoneTurned(z) \in VolumeZones(VolumeTurned(v))
  BY <1>1, <1>2, <1>3, LevelTurns
<1>5. VolumeTurned(v) \in Profile /\ VolumeTurned(VolumeTurned(v)) = v
  BY <1>0, <1>1 DEF VolumeTurned, Profile
<1> QED BY <1>4, <1>5

\* All the zones of a chart as they are found.
LEMMA FoundTurns ==
  ASSUME NEW bars, NEW turned, Mirrors(bars, turned), NEW day \in Days, NEW v \in Profile
  PROVE  /\ \A z \in Raw(bars, day, v) :
              z \in RawZones /\ ZoneTurned(z) \in Raw(turned, DayTurned(day), VolumeTurned(v))
         /\ \A z \in Raw(turned, DayTurned(day), VolumeTurned(v)) :
              z \in RawZones /\ ZoneTurned(z) \in Raw(bars, day, v)
<1>1. ASSUME NEW a, NEW b, Mirrors(a, b), NEW d \in Days, NEW w \in Profile, NEW z \in Raw(a, d, w)
      PROVE  z \in RawZones /\ ZoneTurned(z) \in Raw(b, DayTurned(d), VolumeTurned(w))
  <2>1. CASE z \in SrZones(a)
    BY <1>1, <2>1, LevelsTurn DEF Raw
  <2>2. CASE z \in FvgZones(a)
    BY <1>1, <2>2, GapsTurn DEF Raw
  <2>3. CASE z \in OrderBlockZones(a)
    BY <1>1, <2>3, BlocksTurn DEF Raw
  <2>4. CASE z \in EqualLevels(a)
    BY <1>1, <2>4, EqualsTurn DEF Raw
  <2>5. CASE z \in VolumeZones(w)
    BY <2>5, VolumeTurns DEF Raw
  <2>6. CASE z \in PrevDayZones(d)
    BY <2>6, DayTurns DEF Raw
  <2> QED BY <2>1, <2>2, <2>3, <2>4, <2>5, <2>6 DEF Raw
<1>2. /\ Mirrors(turned, bars) /\ DayTurned(day) \in Days /\ DayTurned(DayTurned(day)) = day
      /\ VolumeTurned(v) \in Profile /\ VolumeTurned(VolumeTurned(v)) = v
  BY MirrorsBack, DayTurns, VolumeTurns
<1> QED BY <1>1, <1>2

\* A zone with what is said of it.
ReadyZone(z) ==
  /\ z.type \in ZoneKinds /\ z.side \in {"none", "bull", "bear"} /\ z.lo \in Prices /\ z.hi \in Prices
  /\ z.status \in {"fresh", "mitigated", "invalidated"} /\ z.strength \in 0..10 /\ z.dist \in Nat
  /\ z.confluence \subseteq ZoneKinds

ReadyTurned(z) ==
  [type |-> KindTurned[z.type], side |-> SideTurned[z.side], lo |-> MaxPrice - z.hi, hi |-> MaxPrice - z.lo,
   status |-> z.status, strength |-> z.strength, dist |-> z.dist,
   confluence |-> {KindTurned[k] : k \in z.confluence}]

LEMMA TouchesTurn ==
  ASSUME NEW bars, NEW turned, Mirrors(bars, turned), NEW lo \in Prices, NEW hi \in Prices
  PROVE  Touches(turned, MaxPrice - hi, MaxPrice - lo) = Touches(bars, lo, hi)
<1>0. MaxPrice \in Nat /\ lo \in 0..MaxPrice /\ hi \in 0..MaxPrice
  BY PerceptionAssumption DEF Prices
<1> DEFINE A == {j \in DOMAIN bars : bars[j].l <= hi /\ bars[j].h >= lo}
           B == {j \in DOMAIN turned : turned[j].l <= MaxPrice - lo /\ turned[j].h >= MaxPrice - hi}
<1>1. DOMAIN bars = 1..Len(bars) /\ DOMAIN turned = 1..Len(bars)
  BY DEF Mirrors
<1>2. ASSUME NEW j \in 1..Len(bars) PROVE j \in A <=> j \in B
  <2> DEFINE h == bars[j].h
             l == bars[j].l
  <2>1. /\ h \in Nat /\ l \in Nat /\ turned[j].h = MaxPrice - l /\ turned[j].l = MaxPrice - h
    BY MirrorBars
  <2>2. (j \in A <=> l <= hi /\ h >= lo) /\ (j \in B <=> turned[j].l <= MaxPrice - lo /\ turned[j].h >= MaxPrice - hi)
    BY <1>1
  <2> HIDE DEF h, l, A, B
  <2> QED BY <1>0, <2>1, <2>2
<1>3. A = B
  <2>1. A \subseteq 1..Len(bars) /\ B \subseteq 1..Len(bars)
    BY <1>1
  <2> HIDE DEF A, B
  <2> QED BY <1>2, <2>1
<1> QED BY <1>3, Zenon DEF Touches

\* What is said of a zone holds of it upside down.
LEMMA FinishedTurns ==
  ASSUME NEW bars, NEW turned, Mirrors(bars, turned), Len(bars) > 0,
         NEW all \in SUBSET RawZones, NEW all2 \in SUBSET RawZones,
         \A y \in all : ZoneTurned(y) \in all2, \A y \in all2 : ZoneTurned(y) \in all,
         NEW z \in all
  PROVE  /\ ReadyZone(Finished(bars, z, all))
         /\ Finished(turned, ZoneTurned(z), all2) = ReadyTurned(Finished(bars, z, all))
<1> DEFINE t == ZoneTurned(z)
           f == Finished(bars, z, all)
           g == Finished(turned, t, all2)
           touches == Touches(bars, z.lo, z.hi)
           touches2 == Touches(turned, t.lo, t.hi)
           Said(status, m) == IF status # "unset" THEN status ELSE IF m <= 1 THEN "fresh" ELSE "mitigated"
           Strength(n, m) == Min({10, 3 * n + Min({m, 5})})
           Near(px, lo, hi) == (50 * Gapped(2 * px, lo + hi)) \div Atr
           Others(k, lo, hi, from) == {o.type : o \in {y \in from : y.lo <= hi /\ y.hi >= lo}} \ {k}
<1>0. MaxPrice \in Nat /\ Len(turned) = Len(bars) /\ Len(bars) \in 1..Len(bars)
  BY PerceptionAssumption DEF Mirrors
<1>1. /\ z.type \in ZoneKinds /\ z.side \in {"none", "bull", "bear"} /\ z.lo \in Prices /\ z.hi \in Prices
  BY DEF RawZones
<1>2. /\ t.type = KindTurned[z.type] /\ t.side = SideTurned[z.side] /\ t.lo = MaxPrice - z.hi
      /\ t.hi = MaxPrice - z.lo /\ t.status = z.status /\ t.n = z.n
  BY DEF ZoneTurned
<1>3. f = [type |-> z.type, side |-> z.side, lo |-> z.lo, hi |-> z.hi, status |-> Said(z.status, touches),
           strength |-> Strength(z.n, touches), dist |-> Near(bars[Len(bars)].c, z.lo, z.hi),
           confluence |-> Others(z.type, z.lo, z.hi, all)]
  BY DEF Finished
<1>4. g = [type |-> t.type, side |-> t.side, lo |-> t.lo, hi |-> t.hi, status |-> Said(t.status, touches2),
           strength |-> Strength(t.n, touches2), dist |-> Near(turned[Len(turned)].c, t.lo, t.hi),
           confluence |-> Others(t.type, t.lo, t.hi, all2)]
  BY DEF Finished
<1>5. touches2 = touches
  BY <1>1, <1>2, TouchesTurn
<1>6. Near(turned[Len(turned)].c, t.lo, t.hi) = Near(bars[Len(bars)].c, z.lo, z.hi)
  <2> DEFINE px == bars[Len(bars)].c
             lo == z.lo
             hi == z.hi
  <2>1. px \in Nat /\ turned[Len(turned)].c = MaxPrice - px /\ lo \in 0..MaxPrice /\ hi \in 0..MaxPrice
    BY <1>0, <1>1, MirrorBars DEF Prices
  <2>2. t.lo = MaxPrice - hi /\ t.hi = MaxPrice - lo
    BY <1>2
  <2> HIDE DEF px, lo, hi, t
  <2>3. Gapped(2 * (MaxPrice - px), (MaxPrice - hi) + (MaxPrice - lo)) = Gapped(2 * px, lo + hi)
    BY <1>0, <2>1 DEF Gapped
  <2>4. Near(turned[Len(turned)].c, t.lo, t.hi) = Near(px, lo, hi)
    BY <2>1, <2>2, <2>3
  <2> QED BY <2>4 DEF px, lo, hi
<1>7. Others(t.type, t.lo, t.hi, all2) = {KindTurned[k] : k \in Others(z.type, z.lo, z.hi, all)}
  <2>1. \A j, k \in ZoneKinds : KindTurned[j] = KindTurned[k] => j = k
    BY DEF ZoneKinds, KindTurned
  <2>2. ASSUME NEW y \in RawZones
        PROVE  /\ ZoneTurned(y).type = KindTurned[y.type] /\ ZoneTurned(ZoneTurned(y)) = y
               /\ y.type \in ZoneKinds /\ ZoneTurned(y) \in RawZones
               /\ ZoneTurned(y).lo <= t.hi /\ ZoneTurned(y).hi >= t.lo <=> y.lo <= z.hi /\ y.hi >= z.lo
    <3>1. y.lo \in 0..MaxPrice /\ y.hi \in 0..MaxPrice /\ z.lo \in 0..MaxPrice /\ z.hi \in 0..MaxPrice
      BY <1>1 DEF RawZones, Prices
    <3>2. ZoneTurned(y).lo = MaxPrice - y.hi /\ ZoneTurned(y).hi = MaxPrice - y.lo
      BY DEF ZoneTurned
    <3>3. ZoneTurned(y).type = KindTurned[y.type] /\ y.type \in ZoneKinds
      BY DEF ZoneTurned, RawZones
    <3>4. ZoneTurned(ZoneTurned(y)) = y /\ ZoneTurned(y) \in RawZones
      BY ZoneTurnsBack
    <3> HIDE DEF t
    <3>5. ZoneTurned(y).lo <= t.hi /\ ZoneTurned(y).hi >= t.lo <=> y.lo <= z.hi /\ y.hi >= z.lo
      BY <1>0, <1>2, <3>1, <3>2
    <3> QED BY <3>3, <3>4, <3>5
  <2> DEFINE A == {y \in all : y.lo <= z.hi /\ y.hi >= z.lo}
             B == {y \in all2 : y.lo <= t.hi /\ y.hi >= t.lo}
  <2>3. \A y \in A : y \in RawZones /\ ZoneTurned(y) \in B
    BY <2>2
  <2>4. \A y \in B : y \in RawZones /\ ZoneTurned(y) \in A /\ ZoneTurned(ZoneTurned(y)) = y
    <3>1. ASSUME NEW y \in B PROVE ZoneTurned(y) \in A /\ y \in RawZones /\ ZoneTurned(ZoneTurned(y)) = y
      <4>1. y \in RawZones /\ ZoneTurned(y) \in all /\ ZoneTurned(ZoneTurned(y)) = y /\ y.lo <= t.hi /\ y.hi >= t.lo
        BY <2>2
      <4>2. ZoneTurned(y) \in RawZones
        BY <4>1
      <4>3. ZoneTurned(y).lo <= z.hi /\ ZoneTurned(y).hi >= z.lo
        BY <2>2, <4>1, <4>2
      <4> QED BY <4>1, <4>3
    <3> QED BY <3>1
  <2> HIDE DEF A, B, t
  <2>5. {o.type : o \in B} = {KindTurned[k] : k \in {o.type : o \in A}}
    <3>1. ASSUME NEW o \in B PROVE o.type \in {KindTurned[k] : k \in {y.type : y \in A}}
      <4>1. ZoneTurned(o) \in A /\ ZoneTurned(o) \in RawZones /\ o = ZoneTurned(ZoneTurned(o))
        BY <2>2, <2>4
      <4>2. o.type = KindTurned[ZoneTurned(o).type]
        BY <2>2, <4>1
      <4> QED BY <4>1, <4>2
    <3>2. ASSUME NEW y \in A PROVE KindTurned[y.type] \in {o.type : o \in B}
      <4>1. ZoneTurned(y) \in B /\ ZoneTurned(y).type = KindTurned[y.type]
        BY <2>2, <2>3
      <4> QED BY <4>1
    <3> QED BY <3>1, <3>2
  <2>6. \A k \in {o.type : o \in A} : k \in ZoneKinds
    BY <2>2, <2>3
  <2> DEFINE S == {o.type : o \in A}
  <2> HIDE DEF S
  <2>7. {KindTurned[k] : k \in S} \ {KindTurned[z.type]} = {KindTurned[k] : k \in S \ {z.type}}
    BY <1>1, <2>1, <2>6 DEF S
  <2>8. Others(t.type, t.lo, t.hi, all2) = {o.type : o \in B} \ {KindTurned[z.type]}
    BY <1>2 DEF B
  <2>9. Others(z.type, z.lo, z.hi, all) = S \ {z.type}
    BY DEF S, A
  <2> QED BY <2>5, <2>7, <2>8, <2>9 DEF S
<1>8. Others(z.type, z.lo, z.hi, all) \subseteq ZoneKinds
  BY DEF RawZones
<1> HIDE DEF t, touches2
<1>a. touches \in Nat
  <2> DEFINE S == {j \in DOMAIN bars : bars[j].l <= z.hi /\ bars[j].h >= z.lo}
  <2>1. S \subseteq 1..Len(bars) /\ Len(bars) \in Nat
    BY DEF Mirrors
  <2> HIDE DEF S
  <2> DEFINE n == Len(bars)
  <2>i. n \in Int /\ 1 \in Int
    BY <2>1
  <2>f. IsFiniteSet(1..n)
    <3> HIDE DEF n
    <3> QED BY <2>i, FS_Interval
  <2>2. IsFiniteSet(S)
    BY <2>1, <2>f, FS_Subset
  <2>3. Cardinality(S) \in Nat
    BY <2>2, FS_CardinalityType
  <2> QED BY <2>3 DEF Touches, S
<1> HIDE DEF touches
<1>b. Said(z.status, touches) \in {"fresh", "mitigated", "invalidated"}
  <2>1. z.status \in ZoneStatuses
    BY DEF RawZones
  <2> QED BY <2>1 DEF ZoneStatuses
<1>c. Strength(z.n, touches) \in 0..10
  <2> DEFINE m == Min({touches, 5})
             k == 3 * z.n + m
  <2>1. touches \in Int /\ 5 \in Int /\ z.n \in Nat
    BY <1>a DEF RawZones
  <2>2. m \in {touches, 5}
    BY <2>1, ZenonT(20), MinOfTwo
  <2> HIDE DEF m
  <2>3. k \in Nat /\ k \in Int /\ 10 \in Int
    BY <1>a, <2>1, <2>2
  <2>4. Strength(z.n, touches) = Min({10, k})
    BY DEF m
  <2> HIDE DEF k
  <2>5. Min({10, k}) \in {10, k} /\ 10 >= Min({10, k})
    BY <2>3, ZenonT(20), MinOfTwo
  <2> HIDE DEF Strength
  <2> QED BY <2>3, <2>4, <2>5
<1>d. Near(bars[Len(bars)].c, z.lo, z.hi) \in Nat
  <2> DEFINE top == 50 * Gapped(2 * bars[Len(bars)].c, z.lo + z.hi)
  <2>1. bars[Len(bars)].c \in Nat /\ z.lo \in Nat /\ z.hi \in Nat /\ Atr \in Nat \ {0}
    BY <1>0, <1>1, MirrorBars, StructureAssumption DEF Prices
  <2>2. top \in Nat
    BY <2>1, SMTT(40) DEF Gapped
  <2> HIDE DEF top
  <2>3. top \div Atr \in Nat
    BY <2>1, <2>2, QuotientIsNat
  <2> QED BY <2>3 DEF top
<1> HIDE DEF f, g, Said, Strength, Near, Others
<1>9. ReadyZone(f)
  BY <1>1, <1>3, <1>8, <1>b, <1>c, <1>d DEF ReadyZone
<1>10. g = ReadyTurned(f)
  BY <1>2, <1>3, <1>4, <1>5, <1>6, <1>7 DEF ReadyTurned
<1> QED BY <1>9, <1>10 DEF f, g, t

\* The zones of the chart upside down are its zones upside down.
LEMMA ZonesTurn ==
  ASSUME NEW bars, NEW turned, Mirrors(bars, turned), NEW day \in Days, NEW v \in Profile
  PROVE  /\ AllZones(turned, DayTurned(day), VolumeTurned(v)) = {ReadyTurned(z) : z \in AllZones(bars, day, v)}
         /\ \A z \in AllZones(bars, day, v) : ReadyZone(z)
<1> DEFINE A == Raw(bars, day, v)
           B == Raw(turned, DayTurned(day), VolumeTurned(v))
<1>0. Len(turned) = Len(bars) /\ Len(bars) \in Nat
  BY DEF Mirrors
<1>1. /\ AllZones(bars, day, v) = IF Len(bars) < 6 THEN {} ELSE {Finished(bars, z, A) : z \in A}
      /\ AllZones(turned, DayTurned(day), VolumeTurned(v)) =
           IF Len(bars) < 6 THEN {} ELSE {Finished(turned, z, B) : z \in B}
  BY <1>0 DEF AllZones
<1>2. /\ \A z \in A : z \in RawZones /\ ZoneTurned(z) \in B
      /\ \A z \in B : z \in RawZones /\ ZoneTurned(z) \in A
  BY FoundTurns
<1>3. A \in SUBSET RawZones /\ B \in SUBSET RawZones /\ \A z \in B : ZoneTurned(ZoneTurned(z)) = z
  BY <1>2, ZoneTurnsBack
<1> HIDE DEF A, B
<1>4. CASE Len(bars) < 6
  BY <1>1, <1>4
<1>5. CASE ~ (Len(bars) < 6)
  <2>0. Len(bars) > 0
    BY <1>0, <1>5
  <2>1. ASSUME NEW z \in A
        PROVE  /\ ReadyZone(Finished(bars, z, A))
               /\ Finished(turned, ZoneTurned(z), B) = ReadyTurned(Finished(bars, z, A))
    BY <1>2, <1>3, <2>0, FinishedTurns
  <2>2. {Finished(turned, z, B) : z \in B} = {ReadyTurned(Finished(bars, z, A)) : z \in A}
    <3>1. \A z \in A : ReadyTurned(Finished(bars, z, A)) \in {Finished(turned, y, B) : y \in B}
      BY <1>2, <2>1
    <3>2. \A y \in B : Finished(turned, y, B) \in {ReadyTurned(Finished(bars, z, A)) : z \in A}
      <4>1. ASSUME NEW y \in B PROVE Finished(turned, y, B) = ReadyTurned(Finished(bars, ZoneTurned(y), A))
        BY <1>2, <1>3, <2>1
      <4> QED BY <1>2, <4>1
    <3> QED BY <3>1, <3>2
  <2> QED BY <1>1, <1>5, <2>1, <2>2
<1> QED BY <1>4, <1>5

\* As many kinds of zone lie at the level of a zone upside down.
LEMMA CrowdTurns ==
  ASSUME NEW S \in SUBSET ZoneKinds
  PROVE  /\ Cardinality({KindTurned[k] : k \in S}) = Cardinality(S) /\ Cardinality(S) \in Nat
<1>2. IsFiniteSet(S)
  BY KindsAreFinite, FS_Subset
<1> DEFINE T == {KindTurned[k] : k \in S}
           f == [k \in S |-> KindTurned[k]]
<1>3. \A j, k \in ZoneKinds : KindTurned[j] = KindTurned[k] => j = k
  BY DEF ZoneKinds, KindTurned
<1>4. f \in Bijection(S, T)
  BY <1>3 DEF Bijection, Injection, Surjection, IsInjective
<1>5. ExistsBijection(S, T)
  BY <1>4 DEF ExistsBijection
<1>6. Cardinality(T) = Cardinality(S)
  BY <1>2, <1>5, FS_Bijection
<1> QED BY <1>2, <1>6, FS_CardinalityType

\* The zones of a chart are finitely many: their bounds lie on the grid, and
\* their distance follows from their bounds.
LEMMA ZonesAreFinite ==
  ASSUME NEW bars, NEW turned, Mirrors(bars, turned), NEW day \in Days, NEW v \in Profile
  PROVE  /\ IsFiniteSet(AllZones(bars, day, v))
         /\ \A z \in AllZones(bars, day, v) :
              z = [type |-> z.type, side |-> z.side, lo |-> z.lo, hi |-> z.hi, status |-> z.status,
                   strength |-> z.strength, dist |-> z.dist, confluence |-> z.confluence]
<1> DEFINE all == AllZones(bars, day, v)
           raw == Raw(bars, day, v)
           Far(lo, hi) == (50 * Gapped(2 * bars[Len(bars)].c, lo + hi)) \div Atr
           Sides == {"none", "bull", "bear"}
           Said == {"fresh", "mitigated", "invalidated"}
           T == (ZoneKinds \X Sides) \X ((Prices \X Prices) \X ((Said \X (0..10)) \X SUBSET ZoneKinds))
           f == [z \in all |-> <<<<z.type, z.side>>, <<<<z.lo, z.hi>>, <<<<z.status, z.strength>>, z.confluence>>>>>>]
<1>1. ASSUME NEW z \in all
      PROVE  /\ z = [type |-> z.type, side |-> z.side, lo |-> z.lo, hi |-> z.hi, status |-> z.status,
                     strength |-> z.strength, dist |-> z.dist, confluence |-> z.confluence]
             /\ z.dist = Far(z.lo, z.hi)
  <2>1. PICK y \in raw : z = Finished(bars, y, raw)
    BY DEF AllZones
  <2> QED BY <2>1 DEF Finished
<1>2. \A z \in all : ReadyZone(z)
  BY ZonesTurn
<1> HIDE DEF all, Far
<1>3. f \in [all -> T]
  BY <1>2 DEF ReadyZone
<1>4. ASSUME NEW y \in all, NEW z \in all, f[y] = f[z] PROVE y = z
  <2>1. /\ y.type = z.type /\ y.side = z.side /\ y.lo = z.lo /\ y.hi = z.hi
        /\ y.status = z.status /\ y.strength = z.strength /\ y.confluence = z.confluence
    BY <1>4
  <2>2. y.dist = z.dist
    BY <1>1, <2>1
  <2> QED BY <1>1, <2>1, <2>2
<1>5. f \in Injection(all, T)
  BY <1>3, <1>4 DEF Injection, IsInjective
<1>6. IsFiniteSet(T)
  <2>1. IsFiniteSet(Prices) /\ IsFiniteSet(0..10)
    <3>1. 0 \in Int /\ 10 \in Int /\ MaxPrice \in Int
      BY PerceptionAssumption
    <3> QED BY <3>1, FS_Interval DEF Prices
  <2>2. IsFiniteSet(Sides) /\ IsFiniteSet(Said)
    <3>1. Sides = {"none"} \cup ({"bull"} \cup {"bear"})
      OBVIOUS
    <3>2. Said = {"fresh"} \cup ({"mitigated"} \cup {"invalidated"})
      OBVIOUS
    <3>3. \A x : IsFiniteSet({x})
      BY FS_Singleton
    <3>4. IsFiniteSet({"bull"} \cup {"bear"}) /\ IsFiniteSet({"mitigated"} \cup {"invalidated"})
      BY <3>3, FS_Union
    <3> HIDE DEF Sides, Said
    <3>5. IsFiniteSet({"none"} \cup ({"bull"} \cup {"bear"}))
      BY <3>3, <3>4, FS_Union
    <3>6. IsFiniteSet({"fresh"} \cup ({"mitigated"} \cup {"invalidated"}))
      BY <3>3, <3>4, FS_Union
    <3> QED BY <3>1, <3>2, <3>5, <3>6
  <2>3. IsFiniteSet(SUBSET ZoneKinds)
    BY KindsAreFinite, FS_SUBSET
  <2> HIDE DEF Sides, Said
  <2>4. IsFiniteSet(ZoneKinds \X Sides) /\ IsFiniteSet(Prices \X Prices) /\ IsFiniteSet(Said \X (0..10))
    BY <2>1, <2>2, KindsAreFinite, FS_Product
  <2>5. IsFiniteSet((Said \X (0..10)) \X SUBSET ZoneKinds)
    BY <2>3, <2>4, FS_Product
  <2>6. IsFiniteSet((Prices \X Prices) \X ((Said \X (0..10)) \X SUBSET ZoneKinds))
    BY <2>4, <2>5, FS_Product
  <2> QED BY <2>4, <2>6, FS_Product
<1> HIDE DEF T, f
<1>7. IsFiniteSet(all)
  BY <1>5, <1>6, FS_Injection
<1> QED BY <1>1, <1>7 DEF all

\* As many zones upside down, if they are different ones.
LEMMA AsMany ==
  ASSUME NEW S, IsFiniteSet(S), \A y, z \in S : ReadyTurned(y) = ReadyTurned(z) => y = z
  PROVE  Cardinality({ReadyTurned(z) : z \in S}) = Cardinality(S)
<1> DEFINE T == {ReadyTurned(z) : z \in S}
           f == [z \in S |-> ReadyTurned(z)]
<1>1. f \in Bijection(S, T)
  BY DEF Bijection, Injection, Surjection, IsInjective
<1>2. ExistsBijection(S, T)
  BY <1>1 DEF ExistsBijection
<1> QED BY <1>2, FS_Bijection

\* The list is cut at the same place upside down.
LEMMA CutTurns ==
  ASSUME NEW bars, NEW turned, Mirrors(bars, turned), NEW day \in Days, NEW v \in Profile
  PROVE  LET all == AllZones(bars, day, v)
             all2 == AllZones(turned, DayTurned(day), VolumeTurned(v))
         IN  /\ Inside(all2) = {ReadyTurned(z) : z \in Inside(all)}
             /\ AtCut(all) = {} => AtCut(all2) = {}
<1> DEFINE all == AllZones(bars, day, v)
           all2 == AllZones(turned, DayTurned(day), VolumeTurned(v))
           UpTo(z) == {y \in all : y.dist <= z.dist}
           UpTo2(z) == {y \in all2 : y.dist <= z.dist}
           Before(z) == {y \in all : y.dist < z.dist}
           Before2(z) == {y \in all2 : y.dist < z.dist}
<1>1. all2 = {ReadyTurned(z) : z \in all} /\ \A z \in all : ReadyZone(z)
  BY ZonesTurn
<1>2. /\ IsFiniteSet(all)
      /\ \A z \in all : z = [type |-> z.type, side |-> z.side, lo |-> z.lo, hi |-> z.hi, status |-> z.status,
                              strength |-> z.strength, dist |-> z.dist, confluence |-> z.confluence]
  BY ZonesAreFinite
<1> HIDE DEF all, all2
<1>3. ASSUME NEW y \in all, NEW z \in all, ReadyTurned(y) = ReadyTurned(z) PROVE y = z
  <2>1. /\ KindTurned[y.type] = KindTurned[z.type] /\ SideTurned[y.side] = SideTurned[z.side]
        /\ MaxPrice - y.hi = MaxPrice - z.hi /\ MaxPrice - y.lo = MaxPrice - z.lo /\ y.status = z.status
        /\ y.strength = z.strength /\ y.dist = z.dist
        /\ {KindTurned[k] : k \in y.confluence} = {KindTurned[k] : k \in z.confluence}
    BY <1>3 DEF ReadyTurned
  <2>2. /\ y.type \in ZoneKinds /\ z.type \in ZoneKinds /\ y.side \in {"none", "bull", "bear"}
        /\ z.side \in {"none", "bull", "bear"} /\ y.lo \in Prices /\ z.lo \in Prices /\ y.hi \in Prices
        /\ z.hi \in Prices /\ y.confluence \subseteq ZoneKinds /\ z.confluence \subseteq ZoneKinds
    BY <1>1 DEF ReadyZone
  <2>3. \A j, k \in ZoneKinds : KindTurned[j] = KindTurned[k] => j = k
    BY DEF ZoneKinds, KindTurned
  <2>4. y.type = z.type /\ y.confluence = z.confluence
    <3>1. y.type = z.type
      BY <2>1, <2>2, <2>3
    <3> DEFINE S == y.confluence
               R == z.confluence
    <3>2. {KindTurned[k] : k \in S} = {KindTurned[k] : k \in R} /\ S \subseteq ZoneKinds /\ R \subseteq ZoneKinds
      BY <2>1, <2>2
    <3> HIDE DEF S, R
    <3>3. ASSUME NEW k \in S PROVE k \in R
      <4>1. PICK j \in R : KindTurned[j] = KindTurned[k]
        BY <3>2
      <4> QED BY <2>3, <3>2, <4>1
    <3>4. ASSUME NEW k \in R PROVE k \in S
      <4>1. PICK j \in S : KindTurned[j] = KindTurned[k]
        BY <3>2
      <4> QED BY <2>3, <3>2, <4>1
    <3>5. S = R
      BY <3>3, <3>4
    <3> QED BY <3>1, <3>5 DEF S, R
  <2>5. y.side = z.side
    BY <2>1, <2>2 DEF SideTurned
  <2>6. y.lo = z.lo /\ y.hi = z.hi
    BY <2>1, <2>2, PerceptionAssumption DEF Prices
  <2> QED BY <1>2, <2>1, <2>4, <2>5, <2>6
<1>4. \A z \in all : ReadyTurned(z).dist = z.dist /\ ReadyTurned(z) \in all2
  BY <1>1 DEF ReadyTurned
<1>5. ASSUME NEW z \in all
      PROVE  /\ Cardinality(UpTo2(ReadyTurned(z))) = Cardinality(UpTo(z))
             /\ Cardinality(Before2(ReadyTurned(z))) = Cardinality(Before(z))
  <2>1. /\ UpTo2(ReadyTurned(z)) = {ReadyTurned(y) : y \in UpTo(z)}
        /\ Before2(ReadyTurned(z)) = {ReadyTurned(y) : y \in Before(z)}
    BY <1>1, <1>4
  <2>2. UpTo(z) \subseteq all /\ Before(z) \subseteq all
    OBVIOUS
  <2>3. IsFiniteSet(UpTo(z)) /\ IsFiniteSet(Before(z))
    BY <1>2, <2>2, FS_Subset
  <2> DEFINE up == UpTo(z)
             be == Before(z)
  <2>4. /\ \A x, y \in up : ReadyTurned(x) = ReadyTurned(y) => x = y
        /\ \A x, y \in be : ReadyTurned(x) = ReadyTurned(y) => x = y
    BY <1>3, <2>2
  <2>5. IsFiniteSet(up) /\ IsFiniteSet(be)
    BY <2>3
  <2> HIDE DEF up, be
  <2>6. /\ Cardinality({ReadyTurned(y) : y \in up}) = Cardinality(up)
        /\ Cardinality({ReadyTurned(y) : y \in be}) = Cardinality(be)
    BY <2>4, <2>5, AsMany
  <2> QED BY <2>1, <2>6 DEF up, be
<1>6. /\ Inside(all) = {z \in all : Cardinality(UpTo(z)) <= MaxZones}
      /\ Inside(all2) = {z \in all2 : Cardinality(UpTo2(z)) <= MaxZones}
      /\ AtCut(all) = {z \in all \ Inside(all) : Cardinality(Before(z)) < MaxZones}
      /\ AtCut(all2) = {z \in all2 \ Inside(all2) : Cardinality(Before2(z)) < MaxZones}
  BY DEF Inside, AtCut
<1> HIDE DEF UpTo, UpTo2, Before, Before2
<1>7. \A z \in all : ReadyTurned(z) \in Inside(all2) <=> z \in Inside(all)
  BY <1>4, <1>5, <1>6
<1>8. Inside(all2) = {ReadyTurned(z) : z \in Inside(all)}
  BY <1>1, <1>6, <1>7
<1>9. \A z \in all : ReadyTurned(z) \in AtCut(all2) => z \in AtCut(all)
  BY <1>5, <1>6, <1>7
<1>10. AtCut(all) = {} => AtCut(all2) = {}
  BY <1>1, <1>6, <1>9
<1> QED BY <1>8, <1>10 DEF all, all2

\* A list that is cut between two distances is the only one.
LEMMA CutCleanly ==
  ASSUME NEW bars, NEW day, NEW v, NEW zones \in BuildZones(bars, day, v), AtCut(AllZones(bars, day, v)) = {}
  PROVE  zones = Inside(AllZones(bars, day, v))
<1> DEFINE all == AllZones(bars, day, v)
<1>1. PICK kept \in SUBSET AtCut(all) : zones = Inside(all) \cup kept
  BY DEF BuildZones
<1> QED BY <1>1

\* What serves a long serves a short upside down.
LEMMA ServesTurns ==
  ASSUME NEW z, ReadyZone(z), NEW dir \in {"long", "short"}
  PROVE  /\ Serves(ReadyTurned(z), Opposite(dir)) <=> Serves(z, dir)
         /\ Cardinality(ReadyTurned(z).confluence) = Cardinality(z.confluence)
         /\ Cardinality(z.confluence) \in Nat
<1> DEFINE t == ReadyTurned(z)
<1>1. /\ t.type = KindTurned[z.type] /\ t.side = SideTurned[z.side]
      /\ t.confluence = {KindTurned[k] : k \in z.confluence}
  BY DEF ReadyTurned
<1>2. z.type \in ZoneKinds /\ z.side \in {"none", "bull", "bear"} /\ z.confluence \in SUBSET ZoneKinds
  BY DEF ReadyZone
<1> HIDE DEF t
<1>3. CASE dir = "long"
  <2>1. t.type \in ZoneTypes("short") <=> z.type \in ZoneTypes("long")
    BY <1>1, <1>2 DEF ZoneTypes, ZoneKinds, KindTurned
  <2>2. t.side \in {"none", "bear"} <=> z.side \in {"none", "bull"}
    BY <1>1, <1>2 DEF SideTurned
  <2>3. Serves(t, "short") <=> Serves(z, "long")
    BY <2>1, <2>2 DEF Serves
  <2> QED BY <1>1, <1>2, <1>3, <2>3, CrowdTurns DEF Opposite, t
<1>4. CASE dir = "short"
  <2>1. t.type \in ZoneTypes("long") <=> z.type \in ZoneTypes("short")
    BY <1>1, <1>2 DEF ZoneTypes, ZoneKinds, KindTurned
  <2>2. t.side \in {"none", "bull"} <=> z.side \in {"none", "bear"}
    BY <1>1, <1>2 DEF SideTurned
  <2>3. Serves(t, "long") <=> Serves(z, "short")
    BY <2>1, <2>2 DEF Serves
  <2> QED BY <1>1, <1>2, <1>4, <2>3, CrowdTurns DEF Opposite, t
<1> QED BY <1>3, <1>4

-----------------------------------------------------------------------------
(* Candles                                                                 *)

\* A bar upside down.
LEMMA BarTurns ==
  ASSUME NEW bars, NEW turned, Mirrors(bars, turned), NEW i \in 1..Len(bars)
  PROVE  /\ Body(turned[i]) = Body(bars[i]) /\ Span(turned[i]) = Span(bars[i])
         /\ Upper(turned[i]) = Lower(bars[i]) /\ Lower(turned[i]) = Upper(bars[i])
         /\ (Bull(turned[i]) <=> Bear(bars[i])) /\ (Bear(turned[i]) <=> Bull(bars[i]))
         /\ Body(bars[i]) \in Nat /\ Span(bars[i]) \in Nat \ {0}
         /\ Upper(bars[i]) \in Int /\ Lower(bars[i]) \in Int
<1> DEFINE o == bars[i].o
           h == bars[i].h
           l == bars[i].l
           c == bars[i].c
<1>1. /\ o \in Nat /\ h \in Nat /\ l \in Nat /\ c \in Nat /\ l <= h /\ MaxPrice \in Nat
      /\ o \in Prices /\ c \in Prices
      /\ turned[i].o = MaxPrice - o /\ turned[i].c = MaxPrice - c
      /\ turned[i].h = MaxPrice - l /\ turned[i].l = MaxPrice - h
  BY MirrorBars DEF Prices
<1>2. /\ Body(bars[i]) = Gapped(o, c) /\ Body(turned[i]) = Gapped(turned[i].o, turned[i].c)
      /\ Span(bars[i]) = Max({h - l, 1}) /\ Span(turned[i]) = Max({turned[i].h - turned[i].l, 1})
      /\ Upper(bars[i]) = h - Max({o, c}) /\ Lower(bars[i]) = Min({o, c}) - l
      /\ Upper(turned[i]) = turned[i].h - Max({turned[i].o, turned[i].c})
      /\ Lower(turned[i]) = Min({turned[i].o, turned[i].c}) - turned[i].l
      /\ (Bull(bars[i]) <=> c > o) /\ (Bear(bars[i]) <=> c < o)
      /\ (Bull(turned[i]) <=> turned[i].c > turned[i].o) /\ (Bear(turned[i]) <=> turned[i].c < turned[i].o)
  BY Zenon DEF Body, Span, Upper, Lower, Bull, Bear
<1> HIDE DEF o, h, l, c
<1>3. /\ Min({o, c}) \in Prices /\ Max({o, c}) \in Prices
      /\ Min({MaxPrice - o, MaxPrice - c}) = MaxPrice - Max({o, c})
      /\ Max({MaxPrice - o, MaxPrice - c}) = MaxPrice - Min({o, c})
      /\ Gapped(MaxPrice - o, MaxPrice - c) = Gapped(o, c)
  BY <1>1, EndsTurn
<1> DEFINE lo == Min({o, c})
           hi == Max({o, c})
           s == h - l
<1>4. lo \in 0..MaxPrice /\ hi \in 0..MaxPrice
  BY <1>3 DEF Prices
<1>5. s \in Int /\ 1 \in Int /\ turned[i].h - turned[i].l = s
  BY <1>1
<1> HIDE DEF lo, hi, s
<1>6. Max({s, 1}) \in {s, 1} /\ s <= Max({s, 1}) /\ 1 <= Max({s, 1})
  BY <1>5, ZenonT(20), MaxOfTwo
<1>7. Max({s, 1}) \in Nat \ {0}
  BY <1>5, <1>6
<1>8. Span(turned[i]) = Span(bars[i]) /\ Span(bars[i]) \in Nat \ {0}
  BY <1>2, <1>5, <1>7 DEF s
<1>9. Body(turned[i]) = Body(bars[i]) /\ Body(bars[i]) \in Nat
  <2>1. Gapped(o, c) \in Nat
    BY <1>1 DEF Gapped
  <2> QED BY <1>1, <1>2, <1>3, <2>1
<1>10. /\ Upper(turned[i]) = Lower(bars[i]) /\ Lower(turned[i]) = Upper(bars[i])
       /\ Upper(bars[i]) \in Int /\ Lower(bars[i]) \in Int
  <2>1. /\ Upper(bars[i]) = h - hi /\ Lower(bars[i]) = lo - l
        /\ Upper(turned[i]) = (MaxPrice - l) - (MaxPrice - lo)
        /\ Lower(turned[i]) = (MaxPrice - hi) - (MaxPrice - h)
    BY <1>1, <1>2, <1>3 DEF lo, hi
  <2> QED BY <1>1, <1>4, <2>1
<1>11. (Bull(turned[i]) <=> Bear(bars[i])) /\ (Bear(turned[i]) <=> Bull(bars[i]))
  BY <1>1, <1>2
<1> QED BY <1>8, <1>9, <1>10, <1>11

LEMMA EngulfsTurns ==
  ASSUME NEW bars, NEW turned, Mirrors(bars, turned), NEW i \in 1..Len(bars), NEW j \in 1..Len(bars)
  PROVE  Engulfs(turned[i], turned[j]) <=> Engulfs(bars[i], bars[j])
<1>1. ASSUME NEW k \in 1..Len(bars)
      PROVE  /\ bars[k].o \in Prices /\ bars[k].c \in Prices /\ MaxPrice \in Nat
             /\ turned[k].o = MaxPrice - bars[k].o /\ turned[k].c = MaxPrice - bars[k].c
  BY MirrorBars DEF Prices
<1> DEFINE a == Min({bars[i].o, bars[i].c})
           b == Max({bars[i].o, bars[i].c})
           c == Min({bars[j].o, bars[j].c})
           d == Max({bars[j].o, bars[j].c})
<1>2. /\ a \in Prices /\ b \in Prices
      /\ Min({turned[i].o, turned[i].c}) = MaxPrice - b /\ Max({turned[i].o, turned[i].c}) = MaxPrice - a
  <2>1. /\ bars[i].o \in Prices /\ bars[i].c \in Prices
        /\ turned[i].o = MaxPrice - bars[i].o /\ turned[i].c = MaxPrice - bars[i].c
    BY <1>1
  <2> QED BY <2>1, EndsTurn, ZenonT(60)
<1>3. /\ c \in Prices /\ d \in Prices
      /\ Min({turned[j].o, turned[j].c}) = MaxPrice - d /\ Max({turned[j].o, turned[j].c}) = MaxPrice - c
  <2>1. /\ bars[j].o \in Prices /\ bars[j].c \in Prices
        /\ turned[j].o = MaxPrice - bars[j].o /\ turned[j].c = MaxPrice - bars[j].c
    BY <1>1
  <2> QED BY <2>1, EndsTurn, ZenonT(60)
<1>4. Engulfs(bars[i], bars[j]) <=> Body(bars[i]) > Body(bars[j]) /\ b >= d /\ a <= c
  BY DEF Engulfs
<1> HIDE DEF a, b, c, d
<1>5. Engulfs(turned[i], turned[j]) <=>
        Body(turned[i]) > Body(turned[j]) /\ MaxPrice - a >= MaxPrice - c /\ MaxPrice - b <= MaxPrice - d
  BY <1>2, <1>3 DEF Engulfs
<1>6. Body(turned[i]) = Body(bars[i]) /\ Body(turned[j]) = Body(bars[j])
  BY BarTurns
<1>7. a \in 0..MaxPrice /\ b \in 0..MaxPrice /\ c \in 0..MaxPrice /\ d \in 0..MaxPrice /\ MaxPrice \in Nat
  BY <1>1, <1>2, <1>3 DEF Prices
<1>8. (MaxPrice - a >= MaxPrice - c <=> a <= c) /\ (MaxPrice - b <= MaxPrice - d <=> b >= d)
  BY <1>7
<1> QED BY <1>4, <1>5, <1>6, <1>8

\* The patterns by name.
LEMMA PatternsAre ==
  ASSUME NEW bars
  PROVE  LET n  == Len(bars)
             c0 == bars[n]
             smallMid == n >= 3 /\ 10 * Body(bars[n - 1]) < 4 * Span(bars[n - 1])
         IN  /\ Shows(bars, "doji") <=> 10 * Body(c0) < Span(c0)
             /\ Shows(bars, "hammer") <=> Lower(c0) >= 2 * Body(c0) /\ Upper(c0) <= Body(c0) /\ 2 * Body(c0) < Span(c0)
             /\ Shows(bars, "shooting_star") <=>
                  Upper(c0) >= 2 * Body(c0) /\ Lower(c0) <= Body(c0) /\ 2 * Body(c0) < Span(c0)
             /\ Shows(bars, "bullish_engulfing") <=> n >= 2 /\ Engulfs(c0, bars[n - 1]) /\ Bull(c0) /\ Bear(bars[n - 1])
             /\ Shows(bars, "bearish_engulfing") <=> n >= 2 /\ Engulfs(c0, bars[n - 1]) /\ Bear(c0) /\ Bull(bars[n - 1])
             /\ Shows(bars, "morning_star") <=>
                  smallMid /\ Bear(bars[n - 2]) /\ Bull(c0) /\ 2 * c0.c > bars[n - 2].o + bars[n - 2].c
             /\ Shows(bars, "evening_star") <=>
                  smallMid /\ Bull(bars[n - 2]) /\ Bear(c0) /\ 2 * c0.c < bars[n - 2].o + bars[n - 2].c
             /\ Shows(bars, "strong_bull") <=> 10 * Body(c0) >= 8 * Span(c0) /\ Bull(c0)
             /\ Shows(bars, "strong_bear") <=> 10 * Body(c0) >= 8 * Span(c0) /\ Bear(c0)
             /\ Shows(bars, "lower_wick_rejection") <=> 2 * Lower(c0) >= 3 * Body(c0)
             /\ Shows(bars, "upper_wick_rejection") <=> 2 * Upper(c0) >= 3 * Body(c0)
BY DEF Shows

PatternTurned ==
  [doji |-> "doji", hammer |-> "shooting_star", shooting_star |-> "hammer",
   bullish_engulfing |-> "bearish_engulfing", bearish_engulfing |-> "bullish_engulfing",
   morning_star |-> "evening_star", evening_star |-> "morning_star",
   strong_bull |-> "strong_bear", strong_bear |-> "strong_bull",
   lower_wick_rejection |-> "upper_wick_rejection", upper_wick_rejection |-> "lower_wick_rejection"]

\* A pattern upside down is the pattern of the other side.
LEMMA ShowsTurn ==
  ASSUME NEW bars, NEW turned, Mirrors(bars, turned), Len(bars) >= 3, NEW name \in DOMAIN PatternTurned
  PROVE  Shows(turned, PatternTurned[name]) <=> Shows(bars, name)
<1> DEFINE n == Len(bars)
           b == Body(bars[n])
           s == Span(bars[n])
           u == Upper(bars[n])
           w == Lower(bars[n])
           up == Bull(bars[n])
           down == Bear(bars[n])
           small == 10 * Body(bars[n - 1]) < 4 * Span(bars[n - 1])
           over == Engulfs(bars[n], bars[n - 1])
           c == bars[n].c
           o2 == bars[n - 2].o
           c2 == bars[n - 2].c
<1>1. n \in Nat /\ n >= 3 /\ n \in 1..n /\ n - 1 \in 1..n /\ n - 2 \in 1..n /\ Len(turned) = n
  BY DEF Mirrors
<1>2. /\ Body(turned[n]) = b /\ Span(turned[n]) = s /\ Upper(turned[n]) = w /\ Lower(turned[n]) = u
      /\ (Bull(turned[n]) <=> down) /\ (Bear(turned[n]) <=> up)
  BY <1>1, BarTurns
<1>3. /\ (10 * Body(turned[n - 1]) < 4 * Span(turned[n - 1]) <=> small)
      /\ (Bull(turned[n - 1]) <=> Bear(bars[n - 1])) /\ (Bear(turned[n - 1]) <=> Bull(bars[n - 1]))
      /\ (Bull(turned[n - 2]) <=> Bear(bars[n - 2])) /\ (Bear(turned[n - 2]) <=> Bull(bars[n - 2]))
  BY <1>1, BarTurns
<1>4. Engulfs(turned[n], turned[n - 1]) <=> over
  BY <1>1, EngulfsTurns
<1>5. /\ c \in Nat /\ o2 \in Nat /\ c2 \in Nat /\ MaxPrice \in Nat /\ turned[n].c = MaxPrice - c
      /\ turned[n - 2].o = MaxPrice - o2 /\ turned[n - 2].c = MaxPrice - c2
  BY <1>1, MirrorBars
<1>6. /\ (2 * turned[n].c > turned[n - 2].o + turned[n - 2].c <=> 2 * c < o2 + c2)
      /\ (2 * turned[n].c < turned[n - 2].o + turned[n - 2].c <=> 2 * c > o2 + c2)
  <2> HIDE DEF c, o2, c2
  <2> QED BY <1>5
<1>7. /\ Shows(bars, "doji") <=> 10 * b < s
      /\ Shows(bars, "hammer") <=> w >= 2 * b /\ u <= b /\ 2 * b < s
      /\ Shows(bars, "shooting_star") <=> u >= 2 * b /\ w <= b /\ 2 * b < s
      /\ Shows(bars, "bullish_engulfing") <=> n >= 2 /\ over /\ up /\ Bear(bars[n - 1])
      /\ Shows(bars, "bearish_engulfing") <=> n >= 2 /\ over /\ down /\ Bull(bars[n - 1])
      /\ Shows(bars, "morning_star") <=> (n >= 3 /\ small) /\ Bear(bars[n - 2]) /\ up /\ 2 * c > o2 + c2
      /\ Shows(bars, "evening_star") <=> (n >= 3 /\ small) /\ Bull(bars[n - 2]) /\ down /\ 2 * c < o2 + c2
      /\ Shows(bars, "strong_bull") <=> 10 * b >= 8 * s /\ up
      /\ Shows(bars, "strong_bear") <=> 10 * b >= 8 * s /\ down
      /\ Shows(bars, "lower_wick_rejection") <=> 2 * w >= 3 * b
      /\ Shows(bars, "upper_wick_rejection") <=> 2 * u >= 3 * b
  BY PatternsAre, Zenon
<1> HIDE DEF c, o2, c2, b, s, u, w, up, down, small, over
<1>8. /\ Shows(turned, "doji") <=> 10 * b < s
      /\ Shows(turned, "hammer") <=> u >= 2 * b /\ w <= b /\ 2 * b < s
      /\ Shows(turned, "shooting_star") <=> w >= 2 * b /\ u <= b /\ 2 * b < s
      /\ Shows(turned, "bullish_engulfing") <=> n >= 2 /\ over /\ down /\ Bull(bars[n - 1])
      /\ Shows(turned, "bearish_engulfing") <=> n >= 2 /\ over /\ up /\ Bear(bars[n - 1])
      /\ Shows(turned, "morning_star") <=> (n >= 3 /\ small) /\ Bull(bars[n - 2]) /\ down /\ 2 * c < o2 + c2
      /\ Shows(turned, "evening_star") <=> (n >= 3 /\ small) /\ Bear(bars[n - 2]) /\ up /\ 2 * c > o2 + c2
      /\ Shows(turned, "strong_bull") <=> 10 * b >= 8 * s /\ down
      /\ Shows(turned, "strong_bear") <=> 10 * b >= 8 * s /\ up
      /\ Shows(turned, "lower_wick_rejection") <=> 2 * u >= 3 * b
      /\ Shows(turned, "upper_wick_rejection") <=> 2 * w >= 3 * b
  <2> DEFINE small2 == n >= 3 /\ 10 * Body(turned[n - 1]) < 4 * Span(turned[n - 1])
             c0 == turned[n]
  <2>1. /\ Shows(turned, "doji") <=> 10 * Body(c0) < Span(c0)
        /\ Shows(turned, "hammer") <=> Lower(c0) >= 2 * Body(c0) /\ Upper(c0) <= Body(c0) /\ 2 * Body(c0) < Span(c0)
        /\ Shows(turned, "shooting_star") <=>
             Upper(c0) >= 2 * Body(c0) /\ Lower(c0) <= Body(c0) /\ 2 * Body(c0) < Span(c0)
        /\ Shows(turned, "bullish_engulfing") <=> n >= 2 /\ Engulfs(c0, turned[n - 1]) /\ Bull(c0) /\ Bear(turned[n - 1])
        /\ Shows(turned, "bearish_engulfing") <=> n >= 2 /\ Engulfs(c0, turned[n - 1]) /\ Bear(c0) /\ Bull(turned[n - 1])
        /\ Shows(turned, "morning_star") <=>
             small2 /\ Bear(turned[n - 2]) /\ Bull(c0) /\ 2 * c0.c > turned[n - 2].o + turned[n - 2].c
        /\ Shows(turned, "evening_star") <=>
             small2 /\ Bull(turned[n - 2]) /\ Bear(c0) /\ 2 * c0.c < turned[n - 2].o + turned[n - 2].c
        /\ Shows(turned, "strong_bull") <=> 10 * Body(c0) >= 8 * Span(c0) /\ Bull(c0)
        /\ Shows(turned, "strong_bear") <=> 10 * Body(c0) >= 8 * Span(c0) /\ Bear(c0)
        /\ Shows(turned, "lower_wick_rejection") <=> 2 * Lower(c0) >= 3 * Body(c0)
        /\ Shows(turned, "upper_wick_rejection") <=> 2 * Upper(c0) >= 3 * Body(c0)
    <3> DEFINE n2 == Len(turned)
    <3>1. n2 = n
      BY <1>1
    <3> HIDE DEF n
    <3> QED BY <3>1, PatternsAre
  <2> QED BY <1>2, <1>3, <1>4, <1>6, <2>1
<1> QED BY <1>7, <1>8 DEF PatternTurned

\* Two patterns of both sides that are the same upside down are not both
\* shown, unless the last bar is a doji or has two dominant wicks.
LEMMA OneOfTwo ==
  ASSUME NEW bars, NEW turned, Mirrors(bars, turned), Len(bars) >= 3,
         ~ (/\ 2 * Lower(bars[Len(bars)]) >= 3 * Body(bars[Len(bars)])
            /\ 2 * Upper(bars[Len(bars)]) >= 3 * Body(bars[Len(bars)]))
  PROVE  /\ Shows(bars, "hammer") /\ Shows(bars, "shooting_star") => Shows(bars, "doji")
         /\ ~ (Shows(bars, "bullish_engulfing") /\ Shows(bars, "bearish_engulfing"))
         /\ ~ (Shows(bars, "morning_star") /\ Shows(bars, "evening_star"))
         /\ ~ (Shows(bars, "strong_bull") /\ Shows(bars, "strong_bear"))
         /\ ~ (Shows(bars, "lower_wick_rejection") /\ Shows(bars, "upper_wick_rejection"))
<1> DEFINE n == Len(bars)
           b == Body(bars[n])
           s == Span(bars[n])
           u == Upper(bars[n])
           w == Lower(bars[n])
<1>1. n \in Nat /\ n \in 1..n
  BY DEF Mirrors
<1>2. b \in Nat /\ s \in Nat \ {0} /\ u \in Int /\ w \in Int
  BY <1>1, BarTurns
<1>3. bars[n].o \in Nat /\ bars[n].c \in Nat
  BY <1>1, MirrorBars
<1>4. ~ (Bull(bars[n]) /\ Bear(bars[n]))
  BY <1>3 DEF Bull, Bear
<1>5. /\ Shows(bars, "doji") <=> 10 * b < s
      /\ Shows(bars, "hammer") <=> w >= 2 * b /\ u <= b /\ 2 * b < s
      /\ Shows(bars, "shooting_star") <=> u >= 2 * b /\ w <= b /\ 2 * b < s
      /\ Shows(bars, "bullish_engulfing") => Bull(bars[n])
      /\ Shows(bars, "bearish_engulfing") => Bear(bars[n])
      /\ Shows(bars, "morning_star") => Bull(bars[n])
      /\ Shows(bars, "evening_star") => Bear(bars[n])
      /\ Shows(bars, "strong_bull") => Bull(bars[n])
      /\ Shows(bars, "strong_bear") => Bear(bars[n])
      /\ Shows(bars, "lower_wick_rejection") <=> 2 * w >= 3 * b
      /\ Shows(bars, "upper_wick_rejection") <=> 2 * u >= 3 * b
  BY PatternsAre, Zenon
<1>6. ~ (2 * w >= 3 * b /\ 2 * u >= 3 * b)
  OBVIOUS
<1> HIDE DEF b, s, u, w
<1>7. (w >= 2 * b /\ u <= b) /\ (u >= 2 * b /\ w <= b) => 10 * b < s
  BY <1>2
<1> QED BY <1>4, <1>5, <1>6, <1>7

LEMMA LeastIs ==
  ASSUME NEW S \in SUBSET Int, NEW m \in S, \A k \in S : m <= k
  PROVE  Min(S) = m
<1>1. Min(S) \in S /\ \A k \in S : Min(S) <= k
  BY DEF Min
<1> DEFINE x == Min(S)
<1> HIDE DEF x
<1>2. x \in S /\ x <= m /\ m <= x
  BY <1>1 DEF x
<1>3. x = m
  BY <1>2
<1> QED BY <1>3 DEF x

Ways3 == {"long", "short", "neutral"}

LEMMA DetectTurns ==
  ASSUME NEW bars, NEW turned, Mirrors(bars, turned), Len(bars) >= 3,
         ~ (/\ 2 * Lower(bars[Len(bars)]) >= 3 * Body(bars[Len(bars)])
            /\ 2 * Upper(bars[Len(bars)]) >= 3 * Body(bars[Len(bars)]))
  PROVE  /\ DetectPattern(bars).dir \in Ways3 /\ DetectPattern(bars).strength \in 0..75
         /\ DetectPattern(turned).dir = Turned[DetectPattern(bars).dir]
         /\ DetectPattern(turned).strength = DetectPattern(bars).strength
         /\ DetectPattern(turned).pattern = "none" <=> DetectPattern(bars).pattern = "none"
<1> DEFINE partner == <<1, 3, 2, 5, 4, 7, 6, 9, 8, 11, 10>>
           Named(i) == Patterns[i].pattern
           shown == {i \in 1..11 : Shows(bars, Named(i))}
           shown2 == {i \in 1..11 : Shows(turned, Named(i))}
           p == DetectPattern(bars)
           q == DetectPattern(turned)
<1>0. bars # <<>> /\ turned # <<>> /\ DOMAIN Patterns = 1..11
  <2>1. Len(bars) \in Nat /\ Len(turned) = Len(bars)
    BY DEF Mirrors
  <2>2. bars # <<>> /\ turned # <<>>
    BY <2>1
  <2>3. DOMAIN Patterns = 1..11
    BY DEF Patterns
  <2> QED BY <2>2, <2>3
<1>1. /\ p = IF shown = {} THEN NoPattern ELSE Patterns[Min(shown)]
      /\ q = IF shown2 = {} THEN NoPattern ELSE Patterns[Min(shown2)]
  BY <1>0 DEF DetectPattern
<1>2. /\ Named(1) = "doji" /\ Named(2) = "hammer" /\ Named(3) = "shooting_star"
      /\ Named(4) = "bullish_engulfing" /\ Named(5) = "bearish_engulfing"
      /\ Named(6) = "morning_star" /\ Named(7) = "evening_star"
      /\ Named(8) = "strong_bull" /\ Named(9) = "strong_bear"
      /\ Named(10) = "lower_wick_rejection" /\ Named(11) = "upper_wick_rejection"
  BY DEF Patterns, Pattern
<1>3. /\ Patterns[1].dir = "neutral"
      /\ \A i \in {2, 4, 6, 8, 10} : Patterns[i].dir = "long"
      /\ \A i \in {3, 5, 7, 9, 11} : Patterns[i].dir = "short"
  BY DEF Patterns, Pattern
<1>14. /\ Patterns[1].strength = 20
       /\ Patterns[2].strength = 60 /\ Patterns[3].strength = 60
       /\ Patterns[4].strength = 70 /\ Patterns[5].strength = 70
       /\ Patterns[6].strength = 75 /\ Patterns[7].strength = 75
       /\ Patterns[8].strength = 55 /\ Patterns[9].strength = 55
       /\ Patterns[10].strength = 45 /\ Patterns[11].strength = 45
  BY DEF Patterns, Pattern
<1>4. /\ partner[1] = 1 /\ partner[2] = 3 /\ partner[3] = 2 /\ partner[4] = 5 /\ partner[5] = 4
      /\ partner[6] = 7 /\ partner[7] = 6 /\ partner[8] = 9 /\ partner[9] = 8 /\ partner[10] = 11 /\ partner[11] = 10
  OBVIOUS
<1> HIDE DEF partner, Named
<1>5. ASSUME NEW i \in 1..11
      PROVE  /\ partner[i] \in 1..11 /\ partner[partner[i]] = i
             /\ Named(i) \in DOMAIN PatternTurned /\ Named(partner[i]) = PatternTurned[Named(i)]
  <2>1. i \in {1, 2, 3, 4, 5, 6, 7, 8, 9, 10, 11}
    OBVIOUS
  <2> QED BY <1>2, <1>4, <2>1 DEF PatternTurned
<1>6. ASSUME NEW i \in 1..11
      PROVE  /\ Patterns[i].dir \in Ways3 /\ Patterns[i].strength \in 0..75 /\ Named(i) # "none"
             /\ Patterns[partner[i]].dir = Turned[Patterns[i].dir]
             /\ Patterns[partner[i]].strength = Patterns[i].strength
  <2> HIDE DEF p, q, shown, shown2
  <2>1. i \in {1, 2, 3, 4, 5, 6, 7, 8, 9, 10, 11}
    OBVIOUS
  <2>2. Patterns[i].dir \in Ways3 /\ Patterns[i].strength \in 0..75 /\ Named(i) # "none"
    <3>1. Named(i) # "none"
      BY <1>2, <2>1
    <3>2. i = 1 \/ i \in {2, 4, 6, 8, 10} \/ i \in {3, 5, 7, 9, 11}
      BY <2>1
    <3>3. Patterns[i].dir \in Ways3
      BY <1>3, <3>2 DEF Ways3
    <3>4. Patterns[i].strength \in {20, 60, 70, 75, 55, 45}
      BY <1>14, <2>1
    <3> QED BY <3>1, <3>3, <3>4
  <2>3. Patterns[partner[i]].dir = Turned[Patterns[i].dir]
    <3>1. CASE i = 1
      BY <1>3, <1>4, <3>1 DEF Turned
    <3>2. CASE i \in {2, 4, 6, 8, 10}
      <4>1. partner[i] \in {3, 5, 7, 9, 11}
        BY <1>4, <3>2
      <4> QED BY <1>3, <3>2, <4>1 DEF Turned
    <3>3. CASE i \in {3, 5, 7, 9, 11}
      <4>1. partner[i] \in {2, 4, 6, 8, 10}
        BY <1>4, <3>3
      <4> QED BY <1>3, <3>3, <4>1 DEF Turned
    <3> QED BY <2>1, <3>1, <3>2, <3>3
  <2>4. Patterns[partner[i]].strength = Patterns[i].strength
    BY <1>4, <1>14, <2>1, SMTT(40)
  <2> QED BY <2>2, <2>3, <2>4
<1>7. ASSUME NEW i \in 1..11 PROVE (i \in shown <=> partner[i] \in shown2) /\ (i \in shown2 <=> partner[i] \in shown)
  <2>1. \A j \in 1..11 : Shows(turned, Named(partner[j])) <=> Shows(bars, Named(j))
    BY <1>5, ShowsTurn
  <2> QED BY <1>5, <2>1
<1>8. CASE shown = {}
  <2>1. shown2 = {}
    BY <1>5, <1>7, <1>8
  <2>2. /\ NoPattern.dir = "neutral" /\ NoPattern.strength = 0 /\ NoPattern.pattern = "none"
        /\ Turned["neutral"] = "neutral"
    BY DEF NoPattern, Pattern, Turned
  <2>3. p = NoPattern /\ q = NoPattern
    BY <1>1, <1>8, <2>1
  <2> HIDE DEF p, q
  <2> QED BY <2>2, <2>3 DEF p, q, Ways3
<1>9. CASE shown # {}
  <2>0. shown \in SUBSET Nat /\ shown \subseteq 1..11 /\ shown2 \subseteq 1..11
    OBVIOUS
  <2>1. PICK m \in shown : \A k \in shown : m <= k
    <3> HIDE DEF shown
    <3> QED BY <1>9, <2>0, Least
  <2> DEFINE m2 == partner[m]
  <2>2. m \in 1..11 /\ m2 \in 1..11 /\ m2 \in shown2
    BY <1>5, <1>7
  <2>3. ASSUME NEW i \in {2, 4, 6, 8, 10}, i \in shown, i + 1 \in shown PROVE i = 2 /\ 1 \in shown
    BY <1>2, <2>3, OneOfTwo
  <2> HIDE DEF shown, shown2
  <2>4. ASSUME NEW k \in shown2 PROVE m2 <= k
    <3>1. k \in 1..11 /\ partner[k] \in shown
      BY <1>5, <1>7, <2>0
    <3>2. m <= partner[k]
      BY <2>1, <3>1
    <3> SUFFICES ASSUME k < partner[m] PROVE FALSE
      BY <2>2, <3>1
    <3>3. k = m /\ m \in {2, 4, 6, 8, 10} /\ partner[m] = m + 1
      <4>1. k \in {1, 2, 3, 4, 5, 6, 7, 8, 9, 10, 11} /\ m \in {1, 2, 3, 4, 5, 6, 7, 8, 9, 10, 11}
        BY <2>2, <3>1
      <4> QED BY <1>4, <3>2, <4>1
    <3>4. m \in shown /\ m + 1 \in shown
      BY <2>1, <3>1, <3>3
    <3>5. m = 2 /\ 1 \in shown
      BY <2>3, <3>3, <3>4
    <3> QED BY <2>1, <3>5
  <2>5. Min(shown) = m
    BY <2>0, <2>1, LeastIs
  <2>6. Min(shown2) = m2
    <3>1. shown2 \in SUBSET Int
      BY <2>0
    <3> HIDE DEF m2
    <3> QED BY <2>2, <2>4, <3>1, LeastIs
  <2>7. p = Patterns[m] /\ q = Patterns[m2]
    BY <1>1, <1>9, <2>2, <2>5, <2>6
  <2>8. p.pattern # "none" /\ q.pattern # "none"
    BY <1>6, <2>2, <2>7 DEF Named
  <2> HIDE DEF p, q
  <2> QED BY <1>6, <2>2, <2>7, <2>8 DEF p, q
<1> QED BY <1>8, <1>9

\* The zones of a chart and those of its mirror image.
ZonesMirror(zones, zones2) ==
  /\ \A z \in zones : ReadyZone(z)
  /\ zones2 = {ReadyTurned(z) : z \in zones}

LEMMA QualityTurns ==
  ASSUME NEW probe \in Prices, NEW z, ReadyZone(z)
  PROVE  QualityAt(MaxPrice - probe, ReadyTurned(z)) = QualityAt(probe, z)
<1> DEFINE t == ReadyTurned(z)
           p == MaxPrice - probe
           away == Min({Gapped(probe, z.lo), Gapped(probe, z.hi)})
           away2 == Min({Gapped(p, t.lo), Gapped(p, t.hi)})
           Near(a) == IF 2 * a <= Atr THEN (200 * (Atr - 2 * a) + Atr) \div (2 * Atr) ELSE 0
<1>0. /\ MaxPrice \in Nat /\ z.lo \in Prices /\ z.hi \in Prices
      /\ z.lo \in 0..MaxPrice /\ z.hi \in 0..MaxPrice /\ probe \in 0..MaxPrice
  BY PerceptionAssumption DEF ReadyZone, Prices
<1>1. t.lo = MaxPrice - z.hi /\ t.hi = MaxPrice - z.lo
  BY DEF ReadyTurned
<1>2. Gapped(p, t.lo) = Gapped(probe, z.hi) /\ Gapped(p, t.hi) = Gapped(probe, z.lo)
  <2>1. /\ Gapped(MaxPrice - probe, MaxPrice - z.hi) = Gapped(probe, z.hi)
        /\ Gapped(MaxPrice - probe, MaxPrice - z.lo) = Gapped(probe, z.lo)
    BY <1>0, EndsTurn
  <2> HIDE DEF t
  <2> QED BY <1>1, <2>1
<1>3. away2 = away
  <2>1. {Gapped(p, t.lo), Gapped(p, t.hi)} = {Gapped(probe, z.lo), Gapped(probe, z.hi)}
    BY <1>2
  <2> QED BY <2>1
<1>4. t.lo <= p /\ p <= t.hi <=> z.lo <= probe /\ probe <= z.hi
  <2> HIDE DEF t
  <2> QED BY <1>0, <1>1
<1>5. Cardinality(t.confluence) = Cardinality(z.confluence)
  BY ServesTurns
<1>6. QualityAt(probe, z) = Min({100, (IF z.lo <= probe /\ probe <= z.hi THEN 100 ELSE Near(away))
                                         + 10 * Cardinality(z.confluence)})
  BY Zenon DEF QualityAt
<1>7. QualityAt(p, t) = Min({100, (IF t.lo <= p /\ p <= t.hi THEN 100 ELSE Near(away2))
                                 + 10 * Cardinality(t.confluence)})
  <2> HIDE DEF t, p
  <2> QED BY Zenon DEF QualityAt
<1> HIDE DEF t, p, away, away2, Near
<1> QED BY <1>3, <1>4, <1>5, <1>6, <1>7 DEF t, p

LEMMA LocationTurns ==
  ASSUME NEW b, NEW c, OnGrid(b), Flipped(b, c), NEW zones, NEW zones2, ZonesMirror(zones, zones2),
         NEW dir \in Ways3
  PROVE  LocationQuality(c, zones2, Turned[dir]) = LocationQuality(b, zones, dir)
<1>1. CASE dir = "neutral"
  BY <1>1 DEF LocationQuality, Turned
<1>2. CASE dir \in {"long", "short"}
  <2> DEFINE probe == Probe(b, dir)
             probe2 == Probe(c, Opposite(dir))
             all == {QualityAt(probe, z) : z \in {y \in zones : Serves(y, dir)}}
             all2 == {QualityAt(probe2, z) : z \in {y \in zones2 : Serves(y, Opposite(dir))}}
  <2>1. Turned[dir] = Opposite(dir) /\ Opposite(dir) # "neutral"
    BY <1>2 DEF Turned, Opposite
  <2>2. probe \in Prices /\ probe2 = MaxPrice - probe
    BY <1>2 DEF Probe, Opposite, OnGrid, Flipped
  <2> HIDE DEF probe, probe2
  <2>3. ASSUME NEW z \in zones
        PROVE  /\ Serves(ReadyTurned(z), Opposite(dir)) <=> Serves(z, dir)
               /\ QualityAt(probe2, ReadyTurned(z)) = QualityAt(probe, z)
    BY <1>2, <2>2, ServesTurns, QualityTurns DEF ZonesMirror
  <2>4. all2 = all
    <3>1. \A z \in zones : Serves(z, dir) => QualityAt(probe, z) \in all2
      BY <2>3 DEF ZonesMirror
    <3>2. \A y \in zones2 : Serves(y, Opposite(dir)) => QualityAt(probe2, y) \in all
      BY <2>3 DEF ZonesMirror
    <3> QED BY <3>1, <3>2 DEF ZonesMirror
  <2>5. LocationQuality(b, zones, dir) = Max({0} \cup all)
    BY <1>2 DEF LocationQuality, probe
  <2>6. LocationQuality(c, zones2, Opposite(dir)) = Max({0} \cup all2)
    BY <2>1 DEF LocationQuality, probe2
  <2> HIDE DEF all, all2
  <2> QED BY <2>1, <2>4, <2>5, <2>6
<1> QED BY <1>1, <1>2 DEF Ways3

LEMMA ConfirmationTurns ==
  ASSUME NEW bars, NEW turned, Mirrors(bars, turned), Len(bars) >= 3,
         ~ (/\ 2 * Lower(bars[Len(bars)]) >= 3 * Body(bars[Len(bars)])
            /\ 2 * Upper(bars[Len(bars)]) >= 3 * Body(bars[Len(bars)])),
         NEW zones, NEW zones2, ZonesMirror(zones, zones2),
         NEW trend \in {"up", "down", "range"}
  PROVE  LET p == Confirmation(bars, zones, HtfFromTrend(trend))
             q == Confirmation(turned, zones2, HtfFromTrend(Turned[trend]))
         IN  /\ p.side \in {"long", "short", "none"} /\ p.confirmation_valid \in BOOLEAN
             /\ p.confirmation_valid => p.side # "none"
             /\ q.side = Turned[p.side] /\ q.confirmation_valid = p.confirmation_valid
             /\ q.strength = p.strength /\ q.location_quality = p.location_quality
<1> DEFINE det == DetectPattern(bars)
           det2 == DetectPattern(turned)
           n == Len(bars)
           lq == LocationQuality(bars[n], zones, det.dir)
           lq2 == LocationQuality(turned[n], zones2, det2.dir)
           bias == HtfFromTrend(trend)
           bias2 == HtfFromTrend(Turned[trend])
           p == Confirmation(bars, zones, bias)
           q == Confirmation(turned, zones2, bias2)
<1>0. n \in 1..n /\ Len(turned) = n
  BY DEF Mirrors
<1>1. /\ det.dir \in Ways3 /\ det2.dir = Turned[det.dir] /\ det2.strength = det.strength
      /\ det2.pattern = "none" <=> det.pattern = "none"
  BY DetectTurns
<1>2. lq2 = lq
  <2>1. OnGrid(bars[n]) /\ Flipped(bars[n], turned[n])
    BY <1>0 DEF Mirrors
  <2> DEFINE d == det.dir
  <2>2. d \in Ways3 /\ lq = LocationQuality(bars[n], zones, d) /\ lq2 = LocationQuality(turned[n], zones2, Turned[d])
    BY <1>1
  <2>3. ASSUME NEW b, NEW c, OnGrid(b), Flipped(b, c), NEW k \in Ways3
        PROVE  LocationQuality(c, zones2, Turned[k]) = LocationQuality(b, zones, k)
    BY <2>3, LocationTurns
  <2> HIDE DEF d, lq, lq2
  <2>4. LocationQuality(turned[n], zones2, Turned[d]) = LocationQuality(bars[n], zones, d)
    BY <2>1, <2>2, <2>3
  <2> QED BY <2>2, <2>4
<1>3. p = [pattern |-> det.pattern, strength |-> det.strength, location_quality |-> lq,
           confirmation_valid |-> /\ det.pattern # "none" /\ det.dir # "neutral"
                                  /\ lq >= Threshold /\ AlignedHtf(det.dir, bias),
           side |-> IF det.dir = "neutral" THEN "none" ELSE det.dir]
  BY DEF Confirmation
<1>4. q = [pattern |-> det2.pattern, strength |-> det2.strength, location_quality |-> lq2,
           confirmation_valid |-> /\ det2.pattern # "none" /\ det2.dir # "neutral"
                                  /\ lq2 >= Threshold /\ AlignedHtf(det2.dir, bias2),
           side |-> IF det2.dir = "neutral" THEN "none" ELSE det2.dir]
  BY <1>0 DEF Confirmation
<1>5. AlignedHtf(Turned[det.dir], bias2) <=> AlignedHtf(det.dir, bias)
  <2>1. \/ bias = "bullish" /\ bias2 = "bearish"
        \/ bias = "bearish" /\ bias2 = "bullish"
        \/ bias = "neutral" /\ bias2 = "neutral"
    BY DEF HtfFromTrend, Turned
  <2>2. \/ det.dir = "long" /\ Turned[det.dir] = "short"
        \/ det.dir = "short" /\ Turned[det.dir] = "long"
        \/ det.dir = "neutral" /\ Turned[det.dir] = "neutral"
    BY <1>1 DEF Ways3, Turned
  <2> HIDE DEF bias, bias2, det
  <2> QED BY <2>1, <2>2 DEF AlignedHtf
<1> HIDE DEF lq, lq2, bias, bias2, det, det2, p, q
<1>6. /\ (Turned[det.dir] = "neutral" <=> det.dir = "neutral")
      /\ (det.dir = "neutral" => Turned["none"] = "none")
      /\ det.dir # "neutral" => det.dir \in {"long", "short"}
  BY <1>1 DEF Ways3, Turned
<1>7. p.side = (IF det.dir = "neutral" THEN "none" ELSE det.dir) /\ q.side = Turned[p.side]
  BY <1>1, <1>3, <1>4, <1>6
<1>8. p.side \in {"long", "short", "none"}
  BY <1>6, <1>7
<1>9. q.strength = p.strength /\ q.location_quality = p.location_quality
  BY <1>1, <1>2, <1>3, <1>4
<1>10. /\ p.confirmation_valid = (det.pattern # "none" /\ det.dir # "neutral"
                                   /\ lq >= Threshold /\ AlignedHtf(det.dir, bias))
       /\ q.confirmation_valid = (det2.pattern # "none" /\ det2.dir # "neutral"
                                    /\ lq2 >= Threshold /\ AlignedHtf(det2.dir, bias2))
  BY <1>3, <1>4
<1>11. (det2.pattern # "none" /\ det2.dir # "neutral" /\ lq2 >= Threshold /\ AlignedHtf(det2.dir, bias2))
         = (det.pattern # "none" /\ det.dir # "neutral" /\ lq >= Threshold /\ AlignedHtf(det.dir, bias))
  BY <1>1, <1>2, <1>5, <1>6
<1>12. p.confirmation_valid \in BOOLEAN /\ (p.confirmation_valid => p.side # "none")
  BY <1>6, <1>7, <1>10
<1> QED BY <1>7, <1>8, <1>9, <1>10, <1>11, <1>12 DEF p, q, bias, bias2

-----------------------------------------------------------------------------
(* Scores                                                                  *)

\* The structure of a chart and of its mirror image.
StructuresMirror(s, t) ==
  /\ s.trend \in {"up", "down", "range"} /\ t.trend = Turned[s.trend]
  /\ s.choch.dir \in Ways /\ t.choch.dir = Turned[s.choch.dir]
  /\ s.mss.dir \in Ways /\ t.mss.dir = Turned[s.mss.dir]

\* Structure for a long is structure for a short upside down.
LEMMA StructurePointsTurn ==
  ASSUME NEW s, NEW t, StructuresMirror(s, t), NEW dir \in {"long", "short"}
  PROVE  /\ StructurePoints(Opposite(dir), t) = StructurePoints(dir, s)
         /\ StructurePoints(dir, s) \in 0..24000
<1> DEFINE Trend14(d, x) == IF x.trend = Want(d) THEN 14 ELSE IF x.trend = "range" THEN 6 ELSE 0
           Turned6(d, x) == IF x.mss.dir = Want(d) THEN 6 ELSE IF x.choch.dir = Want(d) THEN 3 ELSE 0
           k == Trend14(dir, s) + Turned6(dir, s)
<1>1. Trend14(Opposite(dir), t) = Trend14(dir, s)
  BY DEF Want, Opposite, Turned, StructuresMirror
<1>2. Turned6(Opposite(dir), t) = Turned6(dir, s)
  BY DEF Want, Opposite, Turned, Ways, StructuresMirror
<1>3. k \in 0..20
  BY DEF Want
<1>4. StructurePoints(dir, s) = 1200 * Min({20, k})
  BY DEF StructurePoints
<1>5. StructurePoints(Opposite(dir), t) = 1200 * Min({20, Trend14(Opposite(dir), t) + Turned6(Opposite(dir), t)})
  BY DEF StructurePoints
<1> HIDE DEF Trend14, Turned6
<1>6. StructurePoints(Opposite(dir), t) = 1200 * Min({20, k})
  BY <1>1, <1>2, <1>5
<1> HIDE DEF k
<1>7. Min({20, k}) \in {20, k}
  <2>1. 20 \in Int /\ k \in Int
    BY <1>3, SMTT(40)
  <2> QED BY <2>1, ZenonT(20), MinOfTwo
<1> QED BY <1>3, <1>4, <1>6, <1>7

\* What a zone in reach is worth.
LEMMA ZonePointsTurn ==
  ASSUME NEW z, ReadyZone(z)
  PROVE  /\ ZonePoints(ReadyTurned(z)) = ZonePoints(z) /\ ReadyTurned(z).dist = z.dist
         /\ Stacked(ReadyTurned(z)) = Stacked(z) /\ Stacked(z) \in 0..9
         /\ ZonePoints(z) \in Int
         /\ z.dist <= 150 => ZonePoints(z) \in 0..24000
<1>1. /\ ReadyTurned(z).dist = z.dist /\ ReadyTurned(z).status = z.status /\ ReadyTurned(z).strength = z.strength
  BY DEF ReadyTurned
<1>2. ZonePoints(ReadyTurned(z)) = ZonePoints(z)
  BY <1>1 DEF ZonePoints
<1>3. z.status \in {"fresh", "mitigated", "invalidated"} /\ z.strength \in 0..10 /\ z.dist \in Nat
  BY DEF ReadyZone
<1> DEFINE f == FreshPoints[z.status]
<1>4. f \in {7200, 4320, 1440} /\ ZonePoints(z) = 64 * (150 - z.dist) + f + 720 * z.strength
  BY <1>3 DEF FreshPoints, ZonePoints
<1> HIDE DEF f
<1>5. ZonePoints(z) \in Int /\ (z.dist <= 150 => ZonePoints(z) \in 0..24000)
  <2> DEFINE d == z.dist
             n == z.strength
             p == ZonePoints(z)
  <2>1. n \in 0..10 /\ d \in Nat /\ f \in 1440..7200 /\ p = 64 * (150 - d) + f + 720 * n
    BY <1>3, <1>4, SMTT(40)
  <2> HIDE DEF d, n, p
  <2>2. p \in Int /\ (d <= 150 => p \in 0..24000)
    BY <2>1
  <2> QED BY <2>2 DEF d, p
<1> DEFINE c == Cardinality(z.confluence)
           c2 == Cardinality(ReadyTurned(z).confluence)
           k == 3 * c
<1>6. c2 = c /\ c \in Nat
  <2>1. "long" \in {"long", "short"}
    OBVIOUS
  <2> QED BY <2>1, ServesTurns
<1>7. Stacked(z) = Min({9, k}) /\ Stacked(ReadyTurned(z)) = Min({9, 3 * c2})
  BY DEF Stacked
<1> HIDE DEF c, c2
<1>8. k \in Nat /\ k \in Int /\ 9 \in Int
  BY <1>6
<1>9. Stacked(ReadyTurned(z)) = Min({9, k})
  BY <1>6, <1>7
<1> HIDE DEF k
<1>10. Min({9, k}) \in {9, k} /\ 9 >= Min({9, k})
  BY <1>8, ZenonT(20), MinOfTwo
<1>11. Stacked(z) \in 0..9
  BY <1>7, <1>8, <1>10
<1> QED BY <1>1, <1>2, <1>5, <1>7, <1>9, <1>11

\* The zones in reach, and the best of them.
LEMMA ReachableTurn ==
  ASSUME NEW zones, NEW zones2, ZonesMirror(zones, zones2), NEW dir \in {"long", "short"}
  PROVE  /\ Reachable(Opposite(dir), zones2) = {ReadyTurned(z) : z \in Reachable(dir, zones)}
         /\ BestZones(Opposite(dir), zones2) = {ReadyTurned(z) : z \in BestZones(dir, zones)}
<1> DEFINE other == Opposite(dir)
           near == Reachable(dir, zones)
           near2 == Reachable(other, zones2)
           best == {z \in near : \A y \in near : ZonePoints(y) <= ZonePoints(z)}
           best2 == {z \in near2 : \A y \in near2 : ZonePoints(y) <= ZonePoints(z)}
<1>1. ASSUME NEW z \in zones
      PROVE  /\ Serves(ReadyTurned(z), other) <=> Serves(z, dir)
             /\ ReadyTurned(z).type # "lvn" <=> z.type # "lvn"
             /\ ZonePoints(ReadyTurned(z)) = ZonePoints(z) /\ ReadyTurned(z).dist = z.dist
  <2>1. ReadyZone(z)
    BY DEF ZonesMirror
  <2>2. z.type \in ZoneKinds
    BY <2>1 DEF ReadyZone
  <2>3. ReadyTurned(z).type # "lvn" <=> z.type # "lvn"
    BY <2>2 DEF ReadyTurned, ZoneKinds, KindTurned
  <2> QED BY <2>1, <2>3, ServesTurns, ZonePointsTurn
<1>2. near2 = {ReadyTurned(z) : z \in near}
  BY <1>1 DEF Reachable, ZonesMirror
<1>3. near \subseteq zones
  BY DEF Reachable
<1> HIDE DEF near, near2
<1>4. best2 = {ReadyTurned(z) : z \in best}
  <2>1. ASSUME NEW z \in near PROVE ReadyTurned(z) \in best2 <=> z \in best
    BY <1>1, <1>2, <1>3
  <2> QED BY <1>2, <2>1
<1>5. best \subseteq zones
  BY <1>3
<1>6. /\ BestZones(dir, zones) = {z \in best : \A y \in best : z.dist <= y.dist}
      /\ BestZones(other, zones2) = {z \in best2 : \A y \in best2 : z.dist <= y.dist}
  BY DEF BestZones, near, near2
<1> HIDE DEF best, best2
<1>7. ASSUME NEW z \in best PROVE ReadyTurned(z) \in BestZones(other, zones2) <=> z \in BestZones(dir, zones)
  BY <1>1, <1>4, <1>5, <1>6
<1>8. BestZones(other, zones2) = {ReadyTurned(z) : z \in BestZones(dir, zones)}
  BY <1>4, <1>6, <1>7
<1> QED BY <1>2, <1>8 DEF near, near2

\* One of the zones in reach is the best.
LEMMA BestIsThere ==
  ASSUME NEW zones, \A z \in zones : ReadyZone(z), NEW dir \in {"long", "short"}, Reachable(dir, zones) # {}
  PROVE  /\ BestZones(dir, zones) # {} /\ BestZones(dir, zones) \subseteq Reachable(dir, zones)
         /\ \A y, z \in BestZones(dir, zones) : ZonePoints(y) = ZonePoints(z)
<1> DEFINE near == Reachable(dir, zones)
           points == {ZonePoints(z) : z \in near}
           best == {z \in near : \A y \in near : ZonePoints(y) <= ZonePoints(z)}
           dists == {z.dist : z \in best}
<1>1. \A z \in near : ZonePoints(z) \in 0..24000 /\ z.dist \in Nat
  <2>1. \A z \in near : ReadyZone(z) /\ z.dist <= 150
    BY DEF Reachable
  <2>2. \A z \in near : ZonePoints(z) \in 0..24000
    BY <2>1, ZonePointsTurn
  <2> QED BY <2>1, <2>2 DEF ReadyZone
<1>2. points \in SUBSET (0..24000) /\ points # {}
  BY <1>1
<1> HIDE DEF near
<1>3. PICK m \in points : \A p \in points : p <= m
  <2> HIDE DEF points
  <2> DEFINE n == 24000
  <2>1. n \in Nat
    OBVIOUS
  <2>2. points \in SUBSET (0..n)
    BY <1>2
  <2>3. points # {}
    BY <1>2
  <2> HIDE DEF n, best, dists
  <2>4. \E m \in points : \A k \in points : k <= m
    BY <2>1, <2>2, <2>3, Greatest
  <2> QED BY <2>4
<1>4. PICK x \in near : m = ZonePoints(x)
  OBVIOUS
<1>5. x \in best
  BY <1>3, <1>4
<1>6. dists \in SUBSET Nat /\ dists # {}
  BY <1>1, <1>5, SMTT(40)
<1>7. PICK d \in dists : \A e \in dists : d <= e
  <2> HIDE DEF dists
  <2> QED BY <1>6, Least
<1>8. PICK z \in best : d = z.dist
  OBVIOUS
<1>9. BestZones(dir, zones) = {y \in best : \A w \in best : y.dist <= w.dist}
  BY DEF BestZones, near
<1>10. z \in BestZones(dir, zones)
  BY <1>7, <1>8, <1>9
<1>11. ASSUME NEW y \in BestZones(dir, zones), NEW w \in BestZones(dir, zones)
       PROVE  ZonePoints(y) = ZonePoints(w)
  <2>1. y \in near /\ w \in near /\ ZonePoints(y) <= ZonePoints(w) /\ ZonePoints(w) <= ZonePoints(y)
    BY <1>9
  <2> DEFINE a == ZonePoints(y)
             b == ZonePoints(w)
  <2>2. a \in 0..24000 /\ b \in 0..24000 /\ a <= b /\ b <= a
    BY <1>1, <2>1
  <2> HIDE DEF a, b
  <2>3. a = b
    BY <2>2
  <2> QED BY <2>3 DEF a, b
<1>12. BestZones(dir, zones) \subseteq near
  BY <1>9
<1> QED BY <1>10, <1>11, <1>12 DEF near

\* Two zones that add the same to a score.
WorthTheSame(y, w) ==
  /\ ZonePoints(w) = ZonePoints(y) /\ ZonePoints(y) \in 0..24000
  /\ Stacked(w) = Stacked(y) /\ Stacked(y) \in 0..9

\* The best zone upside down is worth the same, and as much lies at its
\* level, unless zones that are worth the same at the same distance differ.
LEMMA BestTurns ==
  ASSUME NEW zones, NEW zones2, ZonesMirror(zones, zones2), ~ Tied(zones), NEW dir \in {"long", "short"},
         Reachable(dir, zones) # {}
  PROVE  BestZone(dir, zones) \in zones /\ WorthTheSame(BestZone(dir, zones), BestZone(Opposite(dir), zones2))
<1> DEFINE other == Opposite(dir)
           y == BestZone(dir, zones)
           w == BestZone(other, zones2)
<1>1. \A z \in zones : ReadyZone(z)
  BY DEF ZonesMirror
<1>2. /\ BestZones(dir, zones) # {} /\ BestZones(dir, zones) \subseteq Reachable(dir, zones)
      /\ \A a, b \in BestZones(dir, zones) : ZonePoints(a) = ZonePoints(b)
  BY <1>1, BestIsThere
<1>3. BestZones(other, zones2) = {ReadyTurned(z) : z \in BestZones(dir, zones)}
  BY ReachableTurn
<1>4. y \in BestZones(dir, zones)
  BY <1>2 DEF BestZone
<1>5. w \in BestZones(other, zones2)
  BY <1>2, <1>3 DEF BestZone
<1>6. PICK x \in BestZones(dir, zones) : w = ReadyTurned(x)
  BY <1>3, <1>5
<1> HIDE DEF y, w
<1>7. x \in zones /\ y \in zones /\ y.dist <= 150
  BY <1>2, <1>4, <1>6 DEF Reachable
<1>8. ReadyZone(x) /\ ReadyZone(y)
  BY <1>1, <1>7
<1>9. ZonePoints(w) = ZonePoints(x) /\ Stacked(w) = Stacked(x)
  BY <1>6, <1>8, ZonePointsTurn, SMTT(40)
<1>10. ZonePoints(x) = ZonePoints(y)
  BY <1>2, <1>4, <1>6
<1>11. Stacked(x) = Stacked(y)
  BY <1>4, <1>6 DEF Tied
<1>12. ZonePoints(y) \in 0..24000 /\ Stacked(y) \in 0..9
  BY <1>7, <1>8, ZonePointsTurn, SMTT(40)
<1>13. WorthTheSame(y, w)
  BY <1>9, <1>10, <1>11, <1>12 DEF WorthTheSame
<1> QED BY <1>7, <1>13 DEF y, w

\* The candle of a chart and of its mirror image.
CandlesMirror(p, q) ==
  /\ p.strength \in 0..75 /\ p.location_quality \in 0..100
  /\ p.confirmation_valid \in BOOLEAN /\ p.side \in {"long", "short", "none"}
  /\ q.side = Turned[p.side] /\ q.confirmation_valid = p.confirmation_valid
  /\ q.strength = p.strength /\ q.location_quality = p.location_quality

\* A candle for a long is one for a short upside down.
LEMMA CandlePointsTurn ==
  ASSUME NEW p, NEW q, CandlesMirror(p, q), NEW dir \in {"long", "short"}
  PROVE  /\ CandlePoints(Opposite(dir), q) = CandlePoints(dir, p)
         /\ CandlePoints(dir, p) \in 0..22500
<1> DEFINE a == p.strength
           b == p.location_quality
           said == 3 * a * b
           sure == p.confirmation_valid
<1>1. q.side = Opposite(dir) <=> p.side = dir
  BY DEF Turned, Opposite, CandlesMirror
<1>m. sure \in BOOLEAN /\ q.strength = a /\ q.location_quality = b /\ q.confirmation_valid = sure
  BY DEF CandlesMirror
<1>2. CandlePoints(dir, p) = IF p.side # dir THEN 0 ELSE IF sure THEN said ELSE IF b >= 30 THEN 7200 ELSE 0
  BY <1>m DEF CandlePoints
<1>3. CandlePoints(Opposite(dir), q)
        = IF q.side # Opposite(dir) THEN 0 ELSE IF sure THEN said ELSE IF b >= 30 THEN 7200 ELSE 0
  BY <1>m DEF CandlePoints
<1>4. said \in 0..22500
  <2> HIDE DEF a, b
  <2>1. a \in 0..75 /\ b \in 0..100
    BY DEF a, b, CandlesMirror
  <2>2. (75 - a) * b >= 0 /\ a * b >= 0 /\ (75 - a) * b = 75 * b - a * b /\ a * b \in Int
    BY <2>1
  <2> DEFINE c == a * b
             d == (75 - a) * b
  <2>3. said = 3 * c
    BY <2>1
  <2>4. c \in Int /\ d >= 0 /\ c >= 0 /\ d = 75 * b - c
    BY <2>2
  <2> HIDE DEF c, d, said
  <2> QED BY <2>1, <2>3, <2>4
<1> HIDE DEF said, b, sure
<1> QED BY <1>1, <1>2, <1>3, <1>4

\* The targets above a chart lie below its mirror image.
LEMMA LiquidityTurns ==
  ASSUME NEW zones, NEW zones2, ZonesMirror(zones, zones2), ~ Tied(zones), NEW dir \in {"long", "short"}
  PROVE  /\ LiquidityPoints(Opposite(dir), zones2) = LiquidityPoints(dir, zones)
         /\ LiquidityPoints(dir, zones) \in 0..18000
<1> DEFINE other == Opposite(dir)
           Targets(d) == IF d = "long" THEN {"eqh", "pdh"} ELSE {"eql", "pdl"}
           S == {z.type : z \in zones} \cap Targets(dir)
           S2 == {z.type : z \in zones2} \cap Targets(other)
           near == IF Reachable(dir, zones) = {} THEN 0 ELSE Stacked(BestZone(dir, zones))
           near2 == IF Reachable(other, zones2) = {} THEN 0 ELSE Stacked(BestZone(other, zones2))
<1>1. ASSUME NEW z \in zones PROVE z.type \in ZoneKinds /\ ReadyTurned(z).type = KindTurned[z.type]
  BY DEF ZonesMirror, ReadyZone, ReadyTurned
<1>2. ASSUME NEW k \in ZoneKinds PROVE KindTurned[k] \in Targets(other) <=> k \in Targets(dir)
  BY DEF ZoneKinds, KindTurned, Opposite
<1> HIDE DEF Targets
<1>3. S2 = {KindTurned[k] : k \in S} /\ S \in SUBSET ZoneKinds
  <2>1. {z.type : z \in zones2} = {KindTurned[k] : k \in {z.type : z \in zones}}
    BY <1>1 DEF ZonesMirror
  <2>2. \A k \in {z.type : z \in zones} : k \in ZoneKinds
    BY <1>1
  <2> QED BY <1>2, <2>1, <2>2
<1>4. S \subseteq Targets(dir)
  OBVIOUS
<1> HIDE DEF S, S2
<1>5. Cardinality(S2) = Cardinality(S) /\ Cardinality(S) \in Nat
  BY <1>3, CrowdTurns
<1>6. Cardinality(S) \in 0..2
  <2>1. ASSUME NEW a, NEW b PROVE IsFiniteSet({a, b}) /\ Cardinality({a, b}) <= 2
    <3>1. IsFiniteSet({a}) /\ Cardinality({a}) = 1
      BY FS_Singleton
    <3>2. {a, b} = {a} \cup {b}
      OBVIOUS
    <3>3. IsFiniteSet({a} \cup {b}) /\ Cardinality({a} \cup {b}) \in {1, 2}
      BY <3>1, FS_AddElement
    <3> QED BY <3>2, <3>3
  <2>2. IsFiniteSet(Targets(dir)) /\ Cardinality(Targets(dir)) <= 2
    BY <2>1 DEF Targets
  <2>3. Cardinality(S) <= Cardinality(Targets(dir)) /\ Cardinality(Targets(dir)) \in Nat
    BY <1>4, <2>2, FS_Subset, FS_CardinalityType
  <2> QED BY <1>5, <2>2, <2>3
<1>7. near2 = near /\ near \in 0..9
  <2>1. Reachable(other, zones2) = {} <=> Reachable(dir, zones) = {}
    <3>1. Reachable(other, zones2) = {ReadyTurned(z) : z \in Reachable(dir, zones)}
      BY ReachableTurn
    <3> QED BY <3>1
  <2>2. CASE Reachable(dir, zones) = {}
    BY <2>1, <2>2
  <2>3. CASE Reachable(dir, zones) # {}
    <3>1. WorthTheSame(BestZone(dir, zones), BestZone(other, zones2))
      BY <2>3, BestTurns
    <3> QED BY <2>1, <2>3, <3>1 DEF WorthTheSame
  <2> QED BY <2>2, <2>3
<1>8. /\ LiquidityPoints(dir, zones) = 1200 * (near + 3 * Cardinality(S))
      /\ LiquidityPoints(other, zones2) = 1200 * (near2 + 3 * Cardinality(S2))
  BY DEF LiquidityPoints, S, S2, Targets
<1> DEFINE n == Cardinality(S)
<1> HIDE DEF near, near2
<1>9. /\ LiquidityPoints(dir, zones) = 1200 * (near + 3 * n)
      /\ LiquidityPoints(other, zones2) = 1200 * (near + 3 * n) /\ n \in 0..2
  BY <1>5, <1>6, <1>7, <1>8
<1> HIDE DEF n
<1> QED BY <1>7, <1>9

\* What is read of a candle has its type.
LEMMA PatternTypes ==
  ASSUME NEW bars
  PROVE  DetectPattern(bars).dir \in Ways3 /\ DetectPattern(bars).strength \in 0..75
<1> DEFINE shown == {i \in DOMAIN Patterns : bars # <<>> /\ Shows(bars, Patterns[i].pattern)}
<1>1. DOMAIN Patterns = 1..11
  BY DEF Patterns
<1>2. \A i \in 1..11 : Patterns[i].dir \in Ways3 /\ Patterns[i].strength \in 0..75
  <2>1. /\ Patterns[1].dir = "neutral" /\ Patterns[1].strength = 20
        /\ \A i \in {2, 4, 6, 8, 10} : Patterns[i].dir = "long"
        /\ \A i \in {3, 5, 7, 9, 11} : Patterns[i].dir = "short"
        /\ Patterns[2].strength = 60 /\ Patterns[3].strength = 60
        /\ Patterns[4].strength = 70 /\ Patterns[5].strength = 70
        /\ Patterns[6].strength = 75 /\ Patterns[7].strength = 75
        /\ Patterns[8].strength = 55 /\ Patterns[9].strength = 55
        /\ Patterns[10].strength = 45 /\ Patterns[11].strength = 45
    BY DEF Patterns, Pattern
  <2>2. ASSUME NEW i \in 1..11 PROVE Patterns[i].dir \in Ways3
    <3>1. i = 1 \/ i \in {2, 4, 6, 8, 10} \/ i \in {3, 5, 7, 9, 11}
      OBVIOUS
    <3> QED BY <2>1, <3>1 DEF Ways3
  <2>3. ASSUME NEW i \in 1..11 PROVE Patterns[i].strength \in {20, 60, 70, 75, 55, 45}
    <3>1. i \in {1, 2, 3, 4, 5, 6, 7, 8, 9, 10, 11}
      OBVIOUS
    <3> QED BY <2>1, <3>1
  <2> QED BY <2>2, <2>3
<1>3. CASE shown = {}
  <2>1. DetectPattern(bars) = NoPattern
    BY <1>3 DEF DetectPattern
  <2>2. NoPattern.dir = "neutral" /\ NoPattern.strength = 0
    BY DEF NoPattern, Pattern
  <2> QED BY <2>1, <2>2 DEF Ways3
<1>4. CASE shown # {}
  <2>1. shown \in SUBSET Nat /\ shown \subseteq 1..11
    BY <1>1
  <2>2. DetectPattern(bars) = Patterns[Min(shown)]
    BY <1>4 DEF DetectPattern
  <2> HIDE DEF shown
  <2>3. PICK m \in shown : \A k \in shown : m <= k
    BY <1>4, <2>1, Least
  <2>4. Min(shown) \in shown
    BY <2>3 DEF Min
  <2> QED BY <1>2, <2>1, <2>2, <2>4
<1> QED BY <1>3, <1>4

LEMMA LocationBound ==
  ASSUME NEW b \in Shapes, NEW zones, \A z \in zones : ZoneOK(z), NEW dir \in Ways3
  PROVE  LocationQuality(b, zones, dir) \in 0..100
<1>1. CASE dir = "neutral"
  BY <1>1 DEF LocationQuality
<1>2. CASE dir # "neutral"
  <2> DEFINE probe == Probe(b, dir)
             all == {0} \cup {QualityAt(probe, z) : z \in {y \in zones : Serves(y, dir)}}
  <2>1. probe \in Nat
    BY ShapeIsBar DEF Probe
  <2> HIDE DEF probe
  <2>2. \A z \in zones : QualityAt(probe, z) \in 0..100
    BY <2>1, QualityMeans
  <2>3. all \in SUBSET (0..100) /\ all # {}
    BY <2>2
  <2>4. LocationQuality(b, zones, dir) = Max(all)
    BY <1>2 DEF LocationQuality, probe
  <2> HIDE DEF all
  <2>5. PICK m \in all : \A q \in all : q <= m
    BY <2>3, Greatest
  <2>6. \A q \in all : m >= q
    BY <2>3, <2>5
  <2>7. Max(all) \in all
    BY <2>6 DEF Max
  <2> QED BY <2>3, <2>4, <2>7
<1> QED BY <1>1, <1>2

LEMMA CandleTypes ==
  ASSUME NEW bars \in Seq(Shapes), Len(bars) > 0, NEW zones, \A z \in zones : ZoneOK(z), NEW bias
  PROVE  LET p == Confirmation(bars, zones, bias)
         IN  /\ p.strength \in 0..75 /\ p.location_quality \in 0..100
             /\ p.confirmation_valid \in BOOLEAN /\ p.side \in {"long", "short", "none"}
             /\ p.confirmation_valid => p.side # "none"
<1> DEFINE det == DetectPattern(bars)
           lq == LocationQuality(bars[Len(bars)], zones, det.dir)
           p == Confirmation(bars, zones, bias)
<1>1. det.dir \in Ways3 /\ det.strength \in 0..75
  BY PatternTypes
<1>2. lq \in 0..100
  <2>1. bars[Len(bars)] \in Shapes
    OBVIOUS
  <2> HIDE DEF det
  <2> QED BY <1>1, <2>1, LocationBound
<1>3. p = [pattern |-> det.pattern, strength |-> det.strength, location_quality |-> lq,
           confirmation_valid |-> /\ det.pattern # "none" /\ det.dir # "neutral"
                                  /\ lq >= Threshold /\ AlignedHtf(det.dir, bias),
           side |-> IF det.dir = "neutral" THEN "none" ELSE det.dir]
  BY DEF Confirmation
<1> HIDE DEF det, lq, p
<1>4. p.side \in {"long", "short", "none"} /\ (det.dir # "neutral" => p.side # "none")
  BY <1>1, <1>3 DEF Ways3
<1>5. p.confirmation_valid \in BOOLEAN /\ (p.confirmation_valid => det.dir # "neutral")
  BY <1>3
<1> QED BY <1>1, <1>2, <1>3, <1>4, <1>5 DEF p

\* What the best zone in reach is worth.
ReachPoints(dir, zones) == IF Reachable(dir, zones) = {} THEN 0 ELSE ZonePoints(BestZone(dir, zones))

LEMMA ReachTurns ==
  ASSUME NEW zones, NEW zones2, ZonesMirror(zones, zones2), ~ Tied(zones), NEW dir \in {"long", "short"}
  PROVE  /\ ReachPoints(Opposite(dir), zones2) = ReachPoints(dir, zones)
         /\ ReachPoints(dir, zones) \in 0..24000
<1> DEFINE u == BestZone(dir, zones)
           v == BestZone(Opposite(dir), zones2)
<1>1. Reachable(Opposite(dir), zones2) = {} <=> Reachable(dir, zones) = {}
  <2>1. Reachable(Opposite(dir), zones2) = {ReadyTurned(z) : z \in Reachable(dir, zones)}
    BY ReachableTurn
  <2> QED BY <2>1
<1>2. ASSUME Reachable(dir, zones) # {} PROVE ZonePoints(v) = ZonePoints(u) /\ ZonePoints(u) \in 0..24000
  <2>1. WorthTheSame(u, v)
    BY <1>2, BestTurns
  <2> HIDE DEF u, v
  <2> QED BY <2>1 DEF WorthTheSame
<1> HIDE DEF u, v
<1>3. 0 \in 0..24000
  OBVIOUS
<1> QED BY <1>1, <1>2, <1>3 DEF u, v, ReachPoints

LEMMA RangeOfSum ==
  ASSUME NEW a \in Int, NEW b \in Int, NEW c \in Int, NEW d \in Int,
         0 <= a, a <= 24000, 0 <= b, b <= 24000, 0 <= c, c <= 22500, 0 <= d, d <= 18000
  PROVE  a + b + c + d + 60 \in Int /\ 0 <= a + b + c + d + 60 /\ a + b + c + d + 60 <= 88560
OBVIOUS

\* The points of the four parts as a score.
RoundedScore(a, b, c, d) == (a + b + c + d + 60) \div 120

Bounded(a, b, c, d) == a \in 0..24000 /\ b \in 0..24000 /\ c \in 0..22500 /\ d \in 0..18000

LEMMA ScoreRange ==
  ASSUME NEW a, NEW b, NEW c, NEW d, Bounded(a, b, c, d)
  PROVE  RoundedScore(a, b, c, d) \in 0..1000
<1> DEFINE n == a + b + c + d + 60
<1>a. a \in Int /\ 0 <= a /\ a <= 24000 /\ b \in Int /\ 0 <= b /\ b <= 24000
  BY DEF Bounded
<1>b. c \in Int /\ 0 <= c /\ c <= 22500 /\ d \in Int /\ 0 <= d /\ d <= 18000
  BY SMTT(40) DEF Bounded
<1>1. n \in Int /\ 0 <= n /\ n <= 88560
  BY <1>a, <1>b, RangeOfSum
<1> HIDE DEF n
<1>2. n \div 120 \in Int /\ n = 120 * (n \div 120) + (n % 120) /\ n % 120 \in Int /\ 0 <= n % 120 /\ n % 120 <= 119
  BY <1>1
<1> DEFINE k == n \div 120
           r == n % 120
<1>3. k \in Int /\ n = 120 * k + r /\ r \in Int /\ 0 <= r /\ r <= 119
  BY <1>2
<1> HIDE DEF k, r
<1>4. 0 <= k /\ k <= 1000
  BY <1>1, <1>3
<1>5. k \in 0..1000
  BY <1>3, <1>4
<1> QED BY <1>5 DEF n, k, RoundedScore

\* The score of a long is the score of a short upside down.
LEMMA ScoreTurns ==
  ASSUME NEW s, NEW t, StructuresMirror(s, t),
         NEW zones, NEW zones2, ZonesMirror(zones, zones2), ~ Tied(zones),
         NEW p, NEW q, CandlesMirror(p, q), NEW dir \in {"long", "short"}
  PROVE  /\ ScoreSide(Opposite(dir), t, zones2, q) = ScoreSide(dir, s, zones, p)
         /\ ScoreSide(dir, s, zones, p) \in 0..1000
<1>a. StructurePoints(Opposite(dir), t) = StructurePoints(dir, s) /\ StructurePoints(dir, s) \in 0..24000
  BY StructurePointsTurn, SMTT(40)
<1>b. CandlePoints(Opposite(dir), q) = CandlePoints(dir, p) /\ CandlePoints(dir, p) \in 0..22500
  BY CandlePointsTurn, SMTT(40)
<1>c. /\ LiquidityPoints(Opposite(dir), zones2) = LiquidityPoints(dir, zones)
      /\ LiquidityPoints(dir, zones) \in 0..18000
  BY LiquidityTurns, SMTT(40)
<1>d. ReachPoints(Opposite(dir), zones2) = ReachPoints(dir, zones) /\ ReachPoints(dir, zones) \in 0..24000
  BY ReachTurns, SMTT(40)
<1> DEFINE other == Opposite(dir)
           a == StructurePoints(dir, s)
           b == ReachPoints(dir, zones)
           c == CandlePoints(dir, p)
           d == LiquidityPoints(dir, zones)
           b2 == ReachPoints(other, zones2)
<1>1. StructurePoints(other, t) = a /\ a \in 0..24000
  BY <1>a, SMTT(40)
<1>2. CandlePoints(other, q) = c /\ c \in 0..22500
  BY <1>b
<1>3. LiquidityPoints(other, zones2) = d /\ d \in 0..18000
  BY <1>c, SMTT(40)
<1>4. b2 = b /\ b \in 0..24000
  BY <1>d, SMTT(40)
<1>5. ScoreSide(dir, s, zones, p) = RoundedScore(a, b, c, d)
  BY DEF ScoreSide, RoundedScore, ReachPoints
<1>6. ScoreSide(other, t, zones2, q) =
        RoundedScore(StructurePoints(other, t), b2, CandlePoints(other, q), LiquidityPoints(other, zones2))
  BY DEF ScoreSide, RoundedScore, ReachPoints
<1> HIDE DEF a, b, c, d, b2, other
<1>7. ScoreSide(other, t, zones2, q) = RoundedScore(a, b, c, d)
  BY <1>1, <1>2, <1>3, <1>4, <1>6
<1>8. RoundedScore(a, b, c, d) \in 0..1000
  <2>1. Bounded(a, b, c, d)
    BY <1>1, <1>2, <1>3, <1>4 DEF Bounded
  <2> QED BY <2>1, ScoreRange, SMTT(40)
<1> QED BY <1>5, <1>7, <1>8 DEF other

\* The better side is the other one upside down.
LEMMA DecisionTurns ==
  ASSUME NEW long \in Int, NEW short \in Int, NEW zones, NEW zones2, NEW p, NEW q
  PROVE  LET told  == Decide(long, short, zones, p)
             told2 == Decide(short, long, zones2, q)
         IN  /\ told.long = long /\ told.short = short /\ told2.long = short /\ told2.short = long
             /\ told2.score14 = told.score14 /\ told.side \in {"long", "short"}
             /\ long # short => told2.side = Opposite(told.side)
<1> DEFINE told == Decide(long, short, zones, p)
           told2 == Decide(short, long, zones2, q)
<1>1. /\ told.long = long /\ told.short = short /\ told.side = BestSide(long, short)
      /\ told.score14 = To14(Max({long, short}))
  BY DEF Decide
<1>2. /\ told2.long = short /\ told2.short = long /\ told2.side = BestSide(short, long)
      /\ told2.score14 = To14(Max({short, long}))
  BY DEF Decide
<1> HIDE DEF told, told2
<1>3. {short, long} = {long, short}
  OBVIOUS
<1>4. told2.score14 = told.score14
  BY <1>1, <1>2, <1>3
<1>5. told.side \in {"long", "short"} /\ (long # short => told2.side = Opposite(told.side))
  BY <1>1, <1>2 DEF BestSide, Opposite
<1> QED BY <1>1, <1>2, <1>4, <1>5 DEF told, told2

\* A candidate of one side is one of the other upside down.
LEMMA CandidateTurns ==
  ASSUME NEW pc, NEW qc, pc.trend \in {"up", "down", "range"}, qc.trend = Turned[pc.trend],
         pc.choch \in Ways, qc.choch = Turned[pc.choch], pc.mss \in Ways, qc.mss = Turned[pc.mss],
         qc.near = pc.near, pc.candle \in {"long", "short", "none"}, qc.candle = Turned[pc.candle],
         qc.confluence.score14 = pc.confluence.score14, pc.confluence.side \in {"long", "short"},
         qc.confluence.side = Opposite(pc.confluence.side)
  PROVE  PerceptionCandidate(qc, "none") = PerceptionCandidate(pc, "none")
<1> DEFINE side == pc.confluence.side
           other == qc.confluence.side
<1>1. side \in {"long", "short"} /\ other = Opposite(side) /\ side # "none" /\ other # "none"
  BY DEF Opposite
<1>2. (qc.mss = Want(other) <=> pc.mss = Want(side)) /\ (qc.choch = Want(other) <=> pc.choch = Want(side))
  BY <1>1 DEF Want, Opposite, Turned, Ways
<1>3. ~ TrendSeen(pc, side) /\ ~ TrendSeen(qc, other)
  BY DEF TrendSeen, Turned
<1>4. qc.candle = other <=> pc.candle = side
  BY <1>1 DEF Opposite, Turned
<1>5. /\ PerceptionCandidate(pc, "none") <=>
           /\ pc.confluence.score14 >= FloorB
           /\ pc.mss = Want(side) \/ pc.choch = Want(side) \/ TrendSeen(pc, side)
           /\ "none" # side
           /\ pc.candle = side \/ pc.near <= 100
      /\ PerceptionCandidate(qc, "none") <=>
           /\ qc.confluence.score14 >= FloorB
           /\ qc.mss = Want(other) \/ qc.choch = Want(other) \/ TrendSeen(qc, other)
           /\ "none" # other
           /\ qc.candle = other \/ qc.near <= 100
      /\ PerceptionCandidate(pc, "none") \in BOOLEAN /\ PerceptionCandidate(qc, "none") \in BOOLEAN
  BY DEF PerceptionCandidate
<1> HIDE DEF side, other
<1>6. (qc.confluence.score14 >= FloorB <=> pc.confluence.score14 >= FloorB) /\ (qc.near <= 100 <=> pc.near <= 100)
  OBVIOUS
<1>7. PerceptionCandidate(qc, "none") <=> PerceptionCandidate(pc, "none")
  BY <1>1, <1>2, <1>3, <1>4, <1>5, <1>6
<1> QED BY <1>5, <1>7

\* What is scored on the two charts, and the scores of the two sides.
ScoredAlike(s, t, zones, zones2, p, q) ==
    /\ StructuresMirror(s, t)
    /\ ZonesMirror(zones, zones2)
    /\ ~ Tied(zones)
    /\ CandlesMirror(p, q)

ScoresSwap(s, t, zones, zones2, p, q) ==
    \A dir \in {"long", "short"} :
        /\ ScoreSide(Opposite(dir), t, zones2, q) = ScoreSide(dir, s, zones, p)
        /\ ScoreSide(dir, s, zones, p) \in 0..1000

LEMMA ScoresTurn ==
  ASSUME NEW s, NEW t, NEW zones, NEW zones2, NEW p, NEW q, ScoredAlike(s, t, zones, zones2, p, q)
  PROVE  ScoresSwap(s, t, zones, zones2, p, q)
BY ScoreTurns DEF ScoredAlike, ScoresSwap

\* A chart upside down.
LEMMA ChartTurns ==
  ASSUME NEW bars \in Seq(Shapes), Len(bars) >= MinBars, ~ TwoWays(bars), NEW v \in Traded(bars),
         AtCut(AllZones(bars, PrevDay, v)) = {}, NEW zones \in BuildZones(bars, PrevDay, v), ~ Tied(zones),
         NEW zones2 \in BuildZones(UpsideDown(bars), DayTurned(PrevDay), VolumeTurned(v))
  PROVE  TurnedAround(Perceive(bars, zones), Perceive(UpsideDown(bars), zones2))
<1> DEFINE turned == UpsideDown(bars)
           s == MarketStructure(bars)
           t == MarketStructure(turned)
           p == Confirmation(bars, zones, HtfFromTrend(s.trend))
           q == Confirmation(turned, zones2, HtfFromTrend(t.trend))
           L == ScoreSide("long", s, zones, p)
           S == ScoreSide("short", s, zones, p)
           L2 == ScoreSide("long", t, zones2, q)
           S2 == ScoreSide("short", t, zones2, q)
           told == Decide(L, S, zones, p)
           told2 == Decide(L2, S2, zones2, q)
           P == Perceive(bars, zones)
           Q == Perceive(turned, zones2)
<1>1. /\ P.structure = s /\ P.zones = zones /\ P.candles = p /\ P.confluence = told
      /\ Q.structure = t /\ Q.zones = zones2 /\ Q.candles = q /\ Q.confluence = told2
  BY DEF Perceive, ReadCandles, Together, Confluence
<1>2. Mirrors(bars, turned) /\ PrevDay \in Days /\ v \in Profile /\ zones \in Shown(bars)
  BY ChartMirrors, PerceptionAssumption DEF Days, Profile, Prices, Traded, Shown
<1>3. /\ s.trend \in {"up", "down", "range"} /\ t.trend = Turned[s.trend]
      /\ s.choch.dir \in Ways /\ t.choch.dir = Turned[s.choch.dir]
      /\ s.mss.dir \in Ways /\ t.mss.dir = Turned[s.mss.dir]
  <2> HIDE DEF turned
  <2> QED BY <1>2, StructureTurns
<1>4. ZonesMirror(zones, zones2)
  <2> DEFINE all == AllZones(bars, PrevDay, v)
             all2 == AllZones(turned, DayTurned(PrevDay), VolumeTurned(v))
  <2>0. zones2 \in BuildZones(turned, DayTurned(PrevDay), VolumeTurned(v))
    OBVIOUS
  <2> HIDE DEF turned
  <2>1. zones = Inside(all) /\ AtCut(all) = {}
    BY CutCleanly
  <2>2. Inside(all2) = {ReadyTurned(z) : z \in Inside(all)} /\ AtCut(all2) = {}
    BY <1>2, <2>1, CutTurns
  <2>3. zones2 = Inside(all2)
    BY <2>0, <2>2, CutCleanly
  <2>4. \A z \in zones : ReadyZone(z)
    BY <1>2, ZonesTurn, BuiltOfAll
  <2> QED BY <2>1, <2>2, <2>3, <2>4 DEF ZonesMirror
<1>5. \A z \in zones : ZoneOK(z)
  BY <1>2, ZonesAreOK
<1>6. Len(bars) >= 3 /\ Len(bars) > 0 /\ Len(bars) \in Nat
  BY DEF MinBars
<1>7. ~ (/\ 2 * Lower(bars[Len(bars)]) >= 3 * Body(bars[Len(bars)])
         /\ 2 * Upper(bars[Len(bars)]) >= 3 * Body(bars[Len(bars)]))
  BY DEF TwoWays
<1>8. ~ Tied(zones)
  OBVIOUS
<1> HIDE DEF turned, s, t, told, told2, L, S, L2, S2, P, Q
<1>9. /\ p.strength \in 0..75 /\ p.location_quality \in 0..100
      /\ p.confirmation_valid \in BOOLEAN /\ p.side \in {"long", "short", "none"}
  BY <1>5, <1>6, CandleTypes
<1>10. /\ q.side = Turned[p.side] /\ q.confirmation_valid = p.confirmation_valid
       /\ q.strength = p.strength /\ q.location_quality = p.location_quality
  <2> DEFINE trend == s.trend
  <2>1. trend \in {"up", "down", "range"} /\ t.trend = Turned[trend] /\ trend = s.trend
    BY <1>3
  <2> HIDE DEF trend
  <2> QED BY <1>2, <1>4, <1>6, <1>7, <2>1, ConfirmationTurns
<1> HIDE DEF p, q
<1>11. ScoresSwap(s, t, zones, zones2, p, q)
  <2>1. StructuresMirror(s, t)
    BY <1>3 DEF StructuresMirror
  <2>2. CandlesMirror(p, q)
    BY <1>9, <1>10 DEF CandlesMirror
  <2>3. ScoredAlike(s, t, zones, zones2, p, q)
    BY <1>4, <1>8, <2>1, <2>2 DEF ScoredAlike
  <2> QED BY <2>3, ScoresTurn
<1>12. L2 = S /\ S2 = L /\ L \in 0..1000 /\ S \in 0..1000
  <2>1. Opposite("long") = "short" /\ Opposite("short") = "long"
    BY DEF Opposite
  <2> QED BY <1>11, <2>1 DEF ScoresSwap, L, S, L2, S2
<1>13. /\ told.long = L /\ told.short = S /\ told2.long = S /\ told2.short = L
       /\ told2.score14 = told.score14 /\ told.side \in {"long", "short"}
       /\ L # S => told2.side = Opposite(told.side)
  <2>1. L \in Int /\ S \in Int /\ told2 = Decide(S, L, zones2, q)
    BY <1>12 DEF told2
  <2> QED BY <2>1, DecisionTurns DEF told
<1>14. ASSUME L # S PROVE PerceptionCandidate(Compact(P), "none") = PerceptionCandidate(Compact(Q), "none")
  <2> DEFINE pc == Compact(P)
             qc == Compact(Q)
             near == IF zones = {} THEN 1000 ELSE Min({z.dist : z \in zones})
             near2 == IF zones2 = {} THEN 1000 ELSE Min({z.dist : z \in zones2})
  <2>1. /\ pc.trend = s.trend /\ pc.choch = s.choch.dir /\ pc.mss = s.mss.dir /\ pc.near = near
        /\ pc.candle = (IF p.confirmation_valid THEN p.side ELSE "none") /\ pc.confluence = told
    BY <1>1 DEF Compact
  <2>2. /\ qc.trend = t.trend /\ qc.choch = t.choch.dir /\ qc.mss = t.mss.dir /\ qc.near = near2
        /\ qc.candle = (IF q.confirmation_valid THEN q.side ELSE "none") /\ qc.confluence = told2
    BY <1>1 DEF Compact
  <2>3. near2 = near
    <3>1. zones2 = {ReadyTurned(z) : z \in zones} /\ \A z \in zones : ReadyTurned(z).dist = z.dist
      BY <1>4 DEF ZonesMirror, ReadyTurned
    <3>2. {z.dist : z \in zones2} = {z.dist : z \in zones} /\ (zones2 = {} <=> zones = {})
      BY <3>1
    <3> QED BY <3>2, ZenonT(60)
  <2> HIDE DEF pc, qc, near, near2
  <2>4. pc.candle \in {"long", "short", "none"} /\ qc.candle = Turned[pc.candle]
    <3>1. Turned["none"] = "none"
      BY DEF Turned
    <3> QED BY <1>9, <1>10, <2>1, <2>2, <3>1
  <2>5. /\ pc.trend \in {"up", "down", "range"} /\ qc.trend = Turned[pc.trend]
        /\ pc.choch \in Ways /\ qc.choch = Turned[pc.choch] /\ pc.mss \in Ways /\ qc.mss = Turned[pc.mss]
    BY <1>3, <2>1, <2>2
  <2>6. /\ qc.near = pc.near /\ qc.confluence.score14 = pc.confluence.score14
        /\ pc.confluence.side \in {"long", "short"} /\ qc.confluence.side = Opposite(pc.confluence.side)
    BY <1>13, <1>14, <2>1, <2>2, <2>3
  <2> QED BY <2>4, <2>5, <2>6, CandidateTurns DEF pc, qc
<1>15. TurnedAround(P, Q)
  BY <1>1, <1>3, <1>10, <1>13, <1>14 DEF TurnedAround
<1> QED BY <1>15 DEF P, Q, turned

\* A candle confirms a level for a long as it does for a short upside down.
LEMMA LevelsConfirm ==
  ASSUME NEW bars \in Seq(Shapes), bars # <<>>, NEW level \in 0..MaxPrice, NEW family \in {"zone", "trend"}
  PROVE  ConfirmCandle(family, "long", bars, level)
           <=> ConfirmCandle(family, "short", UpsideDown(bars), MaxPrice - level)
<1> DEFINE turned == UpsideDown(bars)
           n == Len(bars)
           start == Max({1, n - SweepWindow + 1})
<1>0. MaxPrice \in Nat /\ Atr \in Nat \ {0} /\ level \in 0..MaxPrice
  BY PerceptionAssumption, StructureAssumption
<1>1. Mirrors(bars, turned)
  BY ChartMirrors
<1>2. n \in Nat /\ n \in 1..n /\ Len(turned) = n /\ turned # <<>>
  <2>1. Len(turned) = n /\ turned \in Seq(Bar)
    BY <1>1 DEF Mirrors
  <2> HIDE DEF turned
  <2> QED BY <2>1
<1> HIDE DEF turned
<1>3. ASSUME NEW i \in 1..n
      PROVE  /\ (turned[i].c <= MaxPrice - level <=> bars[i].c >= level)
             /\ (turned[i].c < MaxPrice - level <=> bars[i].c > level)
             /\ (turned[i].h >= MaxPrice - level <=> bars[i].l <= level)
             /\ turned[i].h - (MaxPrice - level) = level - bars[i].l
  <2> DEFINE c == bars[i].c
             l == bars[i].l
  <2>1. c \in Nat /\ l \in Nat /\ turned[i].c = MaxPrice - c /\ turned[i].h = MaxPrice - l
    BY <1>1, MirrorBars
  <2> HIDE DEF c, l
  <2>2. /\ (turned[i].c <= MaxPrice - level <=> c >= level) /\ (turned[i].c < MaxPrice - level <=> c > level)
        /\ (turned[i].h >= MaxPrice - level <=> l <= level) /\ turned[i].h - (MaxPrice - level) = level - l
    BY <1>0, <2>1
  <2> QED BY <2>2 DEF c, l
<1>4. CASE family = "trend"
  <2>1. ConfirmCandle(family, "long", bars, level) <=> bars[n].l <= level /\ bars[n].c > level
    BY <1>4 DEF ConfirmCandle, ConfirmTrend
  <2>2. ConfirmCandle(family, "short", turned, MaxPrice - level)
          <=> turned[n].h >= MaxPrice - level /\ turned[n].c < MaxPrice - level
    BY <1>2, <1>4 DEF ConfirmCandle, ConfirmTrend
  <2> QED BY <1>2, <1>3, <2>1, <2>2 DEF turned
<1>5. CASE family = "zone"
  <2>0. start \in Int /\ 1 <= start
    <3> DEFINE k == n - SweepWindow + 1
    <3>1. k \in Int /\ 1 \in Int
      BY <1>2 DEF SweepWindow
    <3> HIDE DEF k
    <3>2. Max({1, k}) \in Int /\ 1 <= Max({1, k})
      BY <3>1, FloorOf
    <3> QED BY <3>2 DEF k
  <2>1. ConfirmCandle(family, "long", bars, level)
          <=> \E i \in start..n : /\ bars[i].c >= level
                                  /\ \E k \in {i, i - 1} \cap (start..i) : 100 * (level - bars[k].l) > SweepK * Atr
    BY <1>5 DEF ConfirmCandle, ConfirmZone
  <2>2. ConfirmCandle(family, "short", turned, MaxPrice - level)
          <=> \E i \in start..n : /\ turned[i].c <= MaxPrice - level
                                  /\ \E k \in {i, i - 1} \cap (start..i) :
                                       100 * (turned[k].h - (MaxPrice - level)) > SweepK * Atr
    <3> DEFINE m == MaxPrice - level
    <3> HIDE DEF m
    <3>1. ConfirmCandle(family, "short", turned, m) <=> ConfirmZone("short", turned, m)
      BY <1>2, <1>5 DEF ConfirmCandle
    <3>2. ConfirmZone("short", turned, m)
            <=> \E i \in start..n : /\ turned[i].c <= m
                                    /\ \E k \in {i, i - 1} \cap (start..i) :
                                         100 * (turned[k].h - m) > SweepK * Atr
      BY <1>2 DEF ConfirmZone
    <3> QED BY <3>1, <3>2 DEF m
  <2> HIDE DEF start
  <2>3. \A i \in start..n : i \in 1..n /\ \A k \in start..i : k \in 1..n
    BY <1>2, <2>0
  <2>4. \A i \in start..n : turned[i].c <= MaxPrice - level <=> bars[i].c >= level
    BY <1>3, <2>3
  <2>5. \A i \in start..n : \A k \in start..i :
          turned[k].h - (MaxPrice - level) = level - bars[k].l
    BY <1>3, <2>3
  <2>6. ASSUME NEW i \in start..n
        PROVE  (\E k \in {i, i - 1} \cap (start..i) : 100 * (turned[k].h - (MaxPrice - level)) > SweepK * Atr)
                 <=> \E k \in {i, i - 1} \cap (start..i) : 100 * (level - bars[k].l) > SweepK * Atr
    BY <2>5
  <2> QED BY <2>1, <2>2, <2>4, <2>6 DEF turned
<1> QED BY <1>4, <1>5

\* Perception.MirrorImage, for every chart of such bars: turned upside down
\* it is read the other way round, from the structure to the score and to the
\* candle that lets an order through, but for the ties the property
\* names.
THEOREM SidesAreAlike == ChartSpec => []MirrorImage
<1> DEFINE I == chart \in Seq(Shapes)
<1>1. ChartInit => I
  BY DEF ChartInit
<1>2. I /\ [ChartNext]_chart => I'
  BY DEF ChartNext, CloseBar, TradeOn
<1>3. I => SidesAlike
  BY ChartTurns DEF SidesAlike
<1>4. I => ConfirmedAlike
  BY LevelsConfirm DEF ConfirmedAlike
<1>5. I => MirrorImage
  BY <1>3, <1>4 DEF MirrorImage
<1> QED BY <1>1, <1>2, <1>5, PTL DEF ChartSpec


-----------------------------------------------------------------------------
(* Types                                                                    *)

\* What the structure adds to a score, whatever it is.
LEMMA StructureRange ==
  ASSUME NEW s, NEW dir
  PROVE  StructurePoints(dir, s) \in 0..24000
<1> DEFINE trend == IF s.trend = Want(dir) THEN 14 ELSE IF s.trend = "range" THEN 6 ELSE 0
           turn  == IF s.mss.dir = Want(dir) THEN 6 ELSE IF s.choch.dir = Want(dir) THEN 3 ELSE 0
           k == trend + turn
<1>1. trend \in {14, 6, 0} /\ turn \in {6, 3, 0}
  OBVIOUS
<1>2. StructurePoints(dir, s) = 1200 * Min({20, k})
  BY DEF StructurePoints
<1> HIDE DEF trend, turn
<1>3. k \in 0..20
  BY <1>1
<1> HIDE DEF k
<1>4. Min({20, k}) \in {20, k}
  <2>1. 20 \in Int /\ k \in Int
    BY <1>3
  <2> QED BY <2>1, ZenonT(20), MinOfTwo
<1> QED BY <1>2, <1>3, <1>4

CandleTyped(p) ==
  /\ p.strength \in 0..75 /\ p.location_quality \in 0..100
  /\ p.confirmation_valid \in BOOLEAN /\ p.side \in {"long", "short", "none"}

LEMMA CandleRange ==
  ASSUME NEW p, CandleTyped(p), NEW dir \in {"long", "short"}
  PROVE  CandlePoints(dir, p) \in 0..22500
<1> DEFINE q == [side |-> Turned[p.side], confirmation_valid |-> p.confirmation_valid,
                 strength |-> p.strength, location_quality |-> p.location_quality]
<1>1. CandlesMirror(p, q)
  BY DEF CandlesMirror, CandleTyped
<1> HIDE DEF q
<1> QED BY <1>1, CandlePointsTurn, SMTT(40)

\* The best zone in reach, whichever it is of several that are worth the same.
LEMMA BestRange ==
  ASSUME NEW zones, \A z \in zones : ReadyZone(z), NEW dir \in {"long", "short"}, Reachable(dir, zones) # {}
  PROVE  ZonePoints(BestZone(dir, zones)) \in 0..24000 /\ Stacked(BestZone(dir, zones)) \in 0..9
<1> DEFINE y == BestZone(dir, zones)
<1>1. BestZones(dir, zones) # {} /\ BestZones(dir, zones) \subseteq Reachable(dir, zones)
  BY BestIsThere
<1>2. y \in BestZones(dir, zones)
  BY <1>1 DEF BestZone
<1> HIDE DEF y
<1>3. y \in zones /\ y.dist <= 150
  BY <1>1, <1>2 DEF Reachable
<1>4. ReadyZone(y)
  BY <1>3, SMTT(40)
<1>5. ZonePoints(y) \in 0..24000 /\ Stacked(y) \in 0..9
  BY <1>3, <1>4, ZonePointsTurn
<1> QED BY <1>5 DEF y

LEMMA ReachRange ==
  ASSUME NEW zones, \A z \in zones : ReadyZone(z), NEW dir \in {"long", "short"}
  PROVE  ReachPoints(dir, zones) \in 0..24000
<1> DEFINE y == ZonePoints(BestZone(dir, zones))
<1>1. Reachable(dir, zones) # {} => y \in 0..24000
  BY BestRange, SMTT(40)
<1>2. ReachPoints(dir, zones) = IF Reachable(dir, zones) = {} THEN 0 ELSE y
  BY DEF ReachPoints
<1> HIDE DEF y
<1> QED BY <1>1, <1>2, SMTT(40)

LEMMA PairIsTwo ==
  ASSUME NEW a, NEW b, NEW S \in SUBSET {a, b}
  PROVE  Cardinality(S) \in 0..2
<1>1. IsFiniteSet({a}) /\ Cardinality({a}) = 1
  BY FS_Singleton
<1>2. {a, b} = {a} \cup {b}
  OBVIOUS
<1>3. IsFiniteSet({a} \cup {b}) /\ Cardinality({a} \cup {b}) \in {1, 2}
  BY <1>1, FS_AddElement
<1>4. IsFiniteSet(S) /\ Cardinality(S) <= Cardinality({a, b})
  BY <1>2, <1>3, FS_Subset
<1>5. Cardinality(S) \in Nat
  BY <1>4, FS_CardinalityType
<1> QED BY <1>2, <1>3, <1>4, <1>5

LEMMA LiquidityRange ==
  ASSUME NEW zones, \A z \in zones : ReadyZone(z), NEW dir \in {"long", "short"}
  PROVE  LiquidityPoints(dir, zones) \in 0..18000
<1> DEFINE targets == IF dir = "long" THEN {"eqh", "pdh"} ELSE {"eql", "pdl"}
           n == Cardinality({z.type : z \in zones} \cap targets)
           stack == Stacked(BestZone(dir, zones))
           near == IF Reachable(dir, zones) = {} THEN 0 ELSE stack
<1>1. LiquidityPoints(dir, zones) = 1200 * (near + 3 * n)
  BY DEF LiquidityPoints
<1>2. n \in 0..2
  <2> DEFINE a == IF dir = "long" THEN "eqh" ELSE "eql"
             b == IF dir = "long" THEN "pdh" ELSE "pdl"
             S == {z.type : z \in zones} \cap targets
  <2>1. S \in SUBSET {a, b}
    OBVIOUS
  <2> HIDE DEF a, b, S
  <2>2. Cardinality(S) \in 0..2
    BY <2>1, PairIsTwo, SMTT(40)
  <2> QED BY <2>2 DEF S
<1>3. Reachable(dir, zones) # {} => stack \in 0..9
  BY BestRange, SMTT(40)
<1> HIDE DEF n, stack
<1>4. near \in 0..9
  BY <1>3
<1> HIDE DEF near
<1> QED BY <1>1, <1>2, <1>4

LEMMA SideRange ==
  ASSUME NEW s, NEW zones, \A z \in zones : ReadyZone(z), NEW p, CandleTyped(p), NEW dir \in {"long", "short"}
  PROVE  ScoreSide(dir, s, zones, p) \in 0..1000
<1> DEFINE a == StructurePoints(dir, s)
           b == ReachPoints(dir, zones)
           c == CandlePoints(dir, p)
           d == LiquidityPoints(dir, zones)
<1>1. a \in 0..24000
  BY StructureRange, SMTT(40)
<1>2. b \in 0..24000
  BY ReachRange, SMTT(40)
<1>3. c \in 0..22500
  BY CandleRange, SMTT(40)
<1>4. d \in 0..18000
  BY LiquidityRange, SMTT(40)
<1>5. ScoreSide(dir, s, zones, p) = RoundedScore(a, b, c, d)
  BY DEF ScoreSide, RoundedScore, ReachPoints
<1> HIDE DEF a, b, c, d
<1>6. Bounded(a, b, c, d)
  BY <1>1, <1>2, <1>3, <1>4 DEF Bounded
<1> QED BY <1>5, <1>6, ScoreRange

\* The better score stays the better one of fourteen.
LEMMA BetterOf14 ==
  ASSUME NEW a \in 0..1000, NEW b \in 0..1000
  PROVE  To14(Min({a, b})) <= To14(Max({a, b}))
<1> DEFINE m == Min({a, b})
           k == Max({a, b})
<1>1. m \in {a, b} /\ k \in {a, b} /\ m <= k
  <2>1. a \in Int /\ b \in Int
    OBVIOUS
  <2>2. m \in {a, b} /\ a >= m /\ b >= m
    BY <2>1, ZenonT(20), MinOfTwo
  <2>3. k \in {a, b} /\ a <= k /\ b <= k
    BY <2>1, ZenonT(20), MaxOfTwo
  <2> HIDE DEF m, k
  <2> QED BY <2>1, <2>2, <2>3
<1> HIDE DEF m, k
<1>2. (14 * m + 50) \div 100 <= (14 * k + 50) \div 100
  BY <1>1
<1> QED BY <1>2 DEF m, k, To14

LEMMA TrendIs ==
  ASSUME NEW bars
  PROVE  MarketStructure(bars).trend \in {"up", "down", "range"}
<1>1. Trend(bars) \in {"up", "down", "range"}
  BY DEF Trend
<1> QED BY <1>1 DEF MarketStructure, Block

LEMMA ReadingTyped ==
  ASSUME NEW bars \in Seq(Shapes), Len(bars) >= MinBars, NEW zones \in Shown(bars)
  PROVE  Typed(Perceive(bars, zones))
<1> DEFINE s == MarketStructure(bars)
           p == Confirmation(bars, zones, HtfFromTrend(s.trend))
           long == ScoreSide("long", s, zones, p)
           short == ScoreSide("short", s, zones, p)
           told == Decide(long, short, zones, p)
           P == Perceive(bars, zones)
<1>1. P.structure = s /\ P.zones = zones /\ P.candles = p /\ P.confluence = told
  BY DEF Perceive, ReadCandles, Together, Confluence
<1>2. s.trend \in {"up", "down", "range"}
  BY TrendIs
<1>3. \A z \in zones : ReadyZone(z)
  <2>1. PICK v \in Volumes : zones \in BuildZones(bars, PrevDay, v)
    BY DEF Shown, Traded
  <2>2. Mirrors(bars, UpsideDown(bars)) /\ PrevDay \in Days /\ v \in Profile
    BY ChartMirrors, PerceptionAssumption DEF Days, Profile, Prices
  <2> QED BY <2>1, <2>2, ZonesTurn, BuiltOfAll
<1>4. \A z \in zones : ZoneOK(z)
  BY ZonesAreOK
<1>5. told.long = long /\ told.short = short
      /\ told.score14 = To14(Max({long, short})) /\ told.opp14 = To14(Min({long, short}))
  BY DEF Decide
<1>6. Len(bars) > 0
  BY DEF MinBars
<1> HIDE DEF s, P, told
<1>7. CandleTyped(p)
  BY <1>4, <1>6, CandleTypes DEF CandleTyped
<1> HIDE DEF p
<1> HIDE DEF long, short
<1>8. long \in 0..1000
  <2>1. "long" \in {"long", "short"}
    OBVIOUS
  <2>2. ScoreSide("long", s, zones, p) \in 0..1000
    BY <1>3, <1>7, <2>1, SideRange, ZenonT(60)
  <2> QED BY <2>2 DEF long
<1>9. short \in 0..1000
  <2>1. "short" \in {"long", "short"}
    OBVIOUS
  <2>2. ScoreSide("short", s, zones, p) \in 0..1000
    BY <1>3, <1>7, <2>1, SideRange, ZenonT(60)
  <2> QED BY <2>2 DEF short
<1>10. told.opp14 <= told.score14
  BY <1>5, <1>8, <1>9, BetterOf14, ZenonT(60)
<1>11. \A z \in zones : z.lo <= z.hi /\ z.strength \in 0..10 /\ z.dist \in Nat
  BY <1>3, <1>4 DEF ReadyZone, ZoneOK
<1>12. Typed(P)
  BY <1>1, <1>2, <1>5, <1>7, <1>8, <1>9, <1>10, <1>11 DEF Typed, CandleTyped
<1> QED BY <1>12 DEF P

\* Perception.ChartTypeOK, for every chart: whatever the bars, the zones have
\* their bounds in order, their strength and their distance, and the scores of
\* the two sides lie in their scale, the better one shown first.
THEOREM ChartTypes == ChartSpec => []ChartTypeOK
<1> DEFINE I == chart \in Seq(Shapes) /\ Len(chart) <= MaxBars
<1>1. ChartInit => I
  BY PerceptionAssumption DEF ChartInit
<1>2. I /\ [ChartNext]_chart => I'
  <2> SUFFICES ASSUME I, [ChartNext]_chart PROVE I'
    OBVIOUS
  <2>0. MaxBars \in Nat
    BY PerceptionAssumption
  <2>1. CASE CloseBar
    BY <2>0, <2>1 DEF CloseBar
  <2>2. CASE TradeOn
    BY <2>0, <2>2 DEF TradeOn
  <2> QED BY <2>1, <2>2 DEF ChartNext
<1>3. I => ChartTypeOK
  BY ReadingTyped DEF ChartTypeOK
<1> QED BY <1>1, <1>2, <1>3, PTL DEF ChartSpec
=============================================================================
