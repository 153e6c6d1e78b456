------------------------------ MODULE Structure ------------------------------
(***************************************************************************)
(* structure.js: swings, trend and breaks of structure of a chart, and the *)
(* verdict that monitor-exec.js draws from the breaks for a position.      *)
(*                                                                         *)
(* A chart is a sequence of bars, the last one possibly still forming, as  *)
(* fetchOHLCV returns it.  Prices are steps of a grid, and the average     *)
(* true range is a parameter.  The labels HH/HL/LH/LL are only reported    *)
(* and left out.                                                           *)
(***************************************************************************)
EXTENDS Integers, Sequences, FiniteSets, FiniteSetsExt

CONSTANTS
  PivotK,    \* the bars on each side that confirm a swing (2)
  Lookback,  \* the last bars that are searched for swings (120)
  Atr        \* the average true range

ASSUME StructureAssumption ==
  /\ PivotK \in Nat \ {0} /\ Lookback \in Nat \ {0} /\ Atr \in Nat \ {0}

Bar == [o : Nat, h : Nat, l : Nat, c : Nat]

Gapped(a, b) == IF a < b THEN b - a ELSE a - b
Body(b) == Gapped(b.o, b.c)

-----------------------------------------------------------------------------
(* Swings: strict pivots, known once PivotK bars have followed them         *)

Searched(bars) == (Max({PivotK, Len(bars) - Lookback}) + 1)..(Len(bars) - PivotK)
Around(j) == ((j - PivotK)..(j + PivotK)) \ {j}
AroundBefore(j) == ((j - PivotK)..(j - 1))

Highs(bars) == {j \in Searched(bars) : \A m \in Around(j) : bars[j].h > bars[m].h}
Lows(bars)  == {j \in Searched(bars) : \A m \in Around(j) : bars[j].l < bars[m].l}

\* trendFromSwings: the last two highs and the last two lows agree.
Trend(bars) ==
  LET moved(S, px(_)) == px(Max(S)) - px(Max(S \ {Max(S)}))
      high(j) == bars[j].h
      low(j)  == bars[j].l
      hs == Highs(bars)
      ls == Lows(bars)
  IN  IF Cardinality(hs) < 2 \/ Cardinality(ls) < 2 THEN "range"
      ELSE CASE moved(hs, high) > 0 /\ moved(ls, low) > 0 -> "up"
             [] moved(hs, high) < 0 /\ moved(ls, low) < 0 -> "down"
             [] OTHER -> "range"

-----------------------------------------------------------------------------
(* Breaks: a close beyond the last swing that lies before the bar           *)

NoBreak == [dir |-> "none", level |-> 0, j |-> 0]

\* The break that the close of bar j makes; above is looked at first.
BreakBeyond(hs, ls, bars, j) ==
  CASE hs # {} /\ bars[j].c > bars[Max(hs)].h -> [dir |-> "up", level |-> bars[Max(hs)].h, j |-> j]
    [] (hs = {} \/ bars[j].c <= bars[Max(hs)].h) /\ ls # {} /\ bars[j].c < bars[Max(ls)].l ->
         [dir |-> "down", level |-> bars[Max(ls)].l, j |-> j]
    [] OTHER -> NoBreak

BreakAt(bars, j) ==
  BreakBeyond({i \in Highs(bars) : i < j}, {i \in Lows(bars) : i < j}, bars, j)

\* Bar by bar: a break with the way of the last one is a BOS, against it a
\* CHoCH, and with momentum a MSS as well.
After(s, b, bar) ==
  LET against == s.way \notin {"none", b.dir}
  IN  IF b = NoBreak THEN s
      ELSE [way   |-> b.dir,
            bos   |-> IF against THEN s.bos ELSE b,
            choch |-> IF against THEN b ELSE s.choch,
            mss   |-> IF against /\ Body(bar) >= Atr THEN b ELSE s.mss]

Breaks(bars) ==
  LET scan[j \in PivotK..Len(bars)] ==
        IF j = PivotK THEN [way |-> "none", bos |-> NoBreak, choch |-> NoBreak, mss |-> NoBreak]
                      ELSE After(scan[j - 1], BreakAt(bars, j), bars[j])
  IN  scan[Len(bars)]

\* The block keeps the direction and the level of a break, not its bar.
Undefined == -1
Reported(b) == [dir |-> b.dir, level |-> b.level, j |-> Undefined]

Phase(bars) ==
  LET last == bars[Len(bars)]
      aligned == (Trend(bars) = "up") = (last.c > last.o)
  IN  IF Trend(bars) = "range" THEN "range"
      ELSE IF aligned /\ 10 * Body(last) >= 12 * Atr THEN "impulse" ELSE "correction"

Block(trend, phase, b) ==
  [trend |-> trend, phase |-> phase,
   bos |-> Reported(b.bos), choch |-> Reported(b.choch), mss |-> Reported(b.mss)]

MarketStructure(bars) ==
  IF Len(bars) < 2 * PivotK + 3
    THEN Block("range", "range", [bos |-> NoBreak, choch |-> NoBreak, mss |-> NoBreak])
    ELSE Block(Trend(bars), Phase(bars), Breaks(bars))

-----------------------------------------------------------------------------
(* monitor-exec.js and journal.js: what a break means for a position        *)

Recency == 3

\* A break against the side, on one of the last bars.
RecentAgainst(side, b, n) ==
  /\ b.dir = (IF side = "short" THEN "up" ELSE "down")
  /\ b.j # Undefined /\ n - b.j <= Recency

FreshStructureVerdict(side, structure, n) ==
  CASE RecentAgainst(side, structure.mss, n) -> "flipped"
    [] ~RecentAgainst(side, structure.mss, n) /\ RecentAgainst(side, structure.choch, n) -> "weakening"
    [] OTHER -> "none"

VerdictRank == [none |-> -1, no_scan |-> 0, hold |-> 1, running |-> 2, weakening |-> 3,
                mature |-> 4, flipped |-> 5]

\* moreProtectiveVerdict: the fresh verdict only ever raises the scan's.
MoreProtective(scan, fresh) == IF VerdictRank[scan] >= VerdictRank[fresh] THEN scan ELSE fresh
=============================================================================
