------------------------------- MODULE Thesis -------------------------------
(***************************************************************************)
(* thesis.js and manage.js: what the scan says against an open position,   *)
(* and the verdict that the routine and the monitor act on.                *)
(*                                                                         *)
(* A row is the scan's view of the pair, with the market's state and the   *)
(* trajectory of the trade.  Prices are steps of a grid, results are in    *)
(* hundredths of the initial risk.  The target zone and the distance to    *)
(* the stop are only reported and left out.                                *)
(***************************************************************************)
EXTENDS Integers, FiniteSets, FiniteSetsExt

CONSTANTS
  Positions,  \* the positions held: [side, trending, entry, stop, px]
  MaxTurned   \* how many indicators have left the neutral row (bound)

ASSUME ThesisAssumption == MaxTurned \in Nat

VARIABLES
  position,
  row

thesisVars == <<position, row>>

\* The values of an indicator: neutral, of a bull, of a bear.
Signed == [trend |-> {"mixed", "bull", "bear"}, setup |-> {"none", "long", "short"},
           mss |-> {"none", "up", "down"}, choch |-> {"none", "up", "down"},
           sweep |-> {"none", "long", "short"}, macd |-> {"flat", "bull", "bear"},
           divergence |-> {"none", "bull", "bear"}, obv |-> {"flat", "up", "down"},
           h1dir |-> {"flat", "rising", "falling"}, h1macd |-> {"flat", "bull", "bear"},
           adx |-> {"flat", "rising", "falling"}]
Flags == {"seen", "reclaimD50", "atCycleLow", "altCapitulation", "relief", "givesBack", "trendRegime"}
Indicators == DOMAIN Signed \cup Flags
Values(f) == IF f \in Flags THEN BOOLEAN ELSE Signed[f]

NeutralRow ==
  [f \in Indicators |->
     IF f \in Flags THEN f = "seen"
     ELSE CASE f = "trend" -> "mixed"
            [] f \in {"macd", "obv", "h1dir", "h1macd", "adx"} -> "flat"
            [] OTHER -> "none"]

ThesisInit == position \in Positions /\ row = NeutralRow

\* One indicator turns.
Turn(f) ==
  /\ \E v \in Values(f) : v # row[f] /\ row' = [row EXCEPT ![f] = v]
  /\ Cardinality({g \in Indicators : row'[g] # NeutralRow[g]}) <= MaxTurned
  /\ UNCHANGED position

ThesisNext == \E f \in Indicators : Turn(f)
ThesisSpec == ThesisInit /\ [][ThesisNext]_thesisVars

-----------------------------------------------------------------------------
(* flipSignals                                                              *)

Bullish == {"bull", "long", "up", "rising"}
Bearish == {"bear", "short", "down", "falling"}
Against(p, v) == v \in (IF p.side = "short" THEN Bullish ELSE Bearish)
With(p, v) == v \in (IF p.side = "short" THEN Bearish ELSE Bullish)

\* A break of structure counts once, MSS before CHoCH.
StructureAgainst(p, r) == Against(p, r.mss) \/ Against(p, r.choch)

\* Bottoms are watched for shorts only.
Strong(p, r) ==
  {f \in {"trend", "setup", "sweep"} : Against(p, r[f])}
  \cup {f \in {"structure"} : StructureAgainst(p, r)}
  \cup {f \in {"reclaimD50", "atCycleLow"} : p.side = "short" /\ r[f]}

Weak(p, r) ==
  {f \in {"macd", "divergence", "obv"} : Against(p, r[f])}
  \cup {f \in {"h1"} : Against(p, r.h1dir) \/ Against(p, r.h1macd)}

\* slTightenAlerts: a short in a squeeze.
TightenAlert(p, r) ==
  p.side = "short" /\ ((r.divergence = "bull" /\ r.altCapitulation) \/ r.atCycleLow)

-----------------------------------------------------------------------------
(* unrealR, trailGuidance                                                   *)

Risk(p) == IF p.entry < p.stop THEN p.stop - p.entry ELSE p.entry - p.stop
Profit(p) == IF p.side = "short" THEN p.entry - p.px ELSE p.px - p.entry

\* A stop at the entry leaves no risk to count in: then no winner is seen.
WinMin == 30
Winning(p) == Risk(p) # 0 /\ 100 * Profit(p) >= WinMin * Risk(p)

\* S1, S2, S3 and S12 follow a trend, S5 in a trending regime as well.
Trending(p, r) == p.trending = "yes" \/ (p.trending = "s5" /\ r.trendRegime)

TrailGuidance(p, r) ==
  LET momWith == With(p, r.macd) \/ With(p, r.h1macd)
      momAgainst == \E f \in {"macd", "divergence", "obv", "h1macd"} : Against(p, r[f])
  IN  CASE ~Trending(p, r) -> "fixed_tp"
        [] Trending(p, r) /\ r.adx = "rising" /\ momWith /\ ~momAgainst -> "loose"
        [] Trending(p, r) /\ (r.adx = "falling" \/ momAgainst) -> "tighten_to_mature"
        [] OTHER -> "normal"

-----------------------------------------------------------------------------
(* thesisHealth                                                             *)

\* Whether the thesis of a position that does not win is broken.
BrokenByTwo(n) == n = 2
Broken(n) == n >= 2

Verdict(p, r) ==
  LET strong == Cardinality(Strong(p, r))
      weak == Cardinality(Weak(p, r))
  IN  CASE ~r.seen -> "hold"
        [] r.seen /\ Winning(p) -> IF strong >= 1 \/ weak >= 2 \/ r.givesBack THEN "mature" ELSE "running"
        [] r.seen /\ ~Winning(p) /\ Broken(strong) -> "flipped"
        [] r.seen /\ ~Winning(p) /\ ~Broken(strong) /\ (strong >= 1 \/ weak >= 2 \/ TightenAlert(p, r)) ->
             "weakening"
        [] OTHER -> "hold"

Suggested(p, r) ==
  CASE Verdict(p, r) = "mature" -> "take_partial_lock"
    [] Verdict(p, r) = "running" -> "hold_let_run"
    [] Verdict(p, r) = "flipped" -> "take_partial_tighten_be"
    [] Verdict(p, r) = "weakening" /\ r.relief /\ p.side = "short" -> "hold_to_sl_or_reduce"
    [] Verdict(p, r) = "weakening" /\ ~(r.relief /\ p.side = "short") -> "tighten_sl"
    [] OTHER -> "hold"

-----------------------------------------------------------------------------
(* Properties *)

\* How far an indicator stands against the position.
Adverse(p, f, v) ==
  IF f \in Flags THEN IF f \in {"reclaimD50", "atCycleLow", "altCapitulation", "givesBack"} /\ v THEN 1 ELSE 0
  ELSE CASE f = "adx" -> (IF v = "rising" THEN 0 ELSE IF v = "flat" THEN 1 ELSE 2)
         [] f # "adx" /\ With(p, v) -> 0
         [] f # "adx" /\ Against(p, v) -> 2
         [] OTHER -> 1

Severity == [hold |-> 0, running |-> 0, weakening |-> 1, mature |-> 1, flipped |-> 2]
TrailRank == [fixed_tp |-> 0, loose |-> 0, normal |-> 1, tighten_to_mature |-> 2]

\* Whatever else the scan shows, an indicator that turns against the position
\* never makes the verdict milder nor the trail of a winner looser: signals
\* pile up, none hides another, and a break counts whatever broke before.
OnlyEscalates ==
  [][\A f \in Indicators :
       row'[f] # row[f] /\ f \notin {"seen", "trendRegime"}
         /\ Adverse(position, f, row'[f]) >= Adverse(position, f, row[f]) =>
         /\ Severity[Verdict(position, row')] >= Severity[Verdict(position, row)]
         /\ TrailRank[TrailGuidance(position, row')] >= TrailRank[TrailGuidance(position, row)]]_thesisVars
=============================================================================
