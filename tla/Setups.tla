------------------------------- MODULE Setups -------------------------------
(***************************************************************************)
(* The entry conditions of the setups, written twice in the code: in       *)
(* scan.js for the live scan and in optimize.js for the back-test whose    *)
(* results weigh the live setups (EDGE); and the ranking of what is live.  *)
(*                                                                         *)
(* A reading holds what both compute from the same bars.  Prices are in    *)
(* thousandths of the last close, averages are of the four hour chart (h)  *)
(* or of the daily one (d), StochRSI and funding are in hundredths, edges  *)
(* and scores in tenths.                                                   *)
(***************************************************************************)
EXTENDS Integers, FiniteSets, FiniteSetsExt

CONSTANTS
  Readings,  \* for each indicator the values it takes
  Quiet,     \* a rising and a falling market without any setup
  MaxMoved   \* how many indicators differ from one of them (bound)

\* The indicators that are numbers; the others are flags and places.
Numbers == {"dEma50", "dEma200", "hEma20", "hEma50", "hEma200", "dRsi", "hRsi", "hRsiPrev", "hStoch",
            "hSrsi", "volume", "funding"}

ASSUME SetupsAssumption ==
  /\ MaxMoved \in Nat
  /\ Numbers \cup {"db"} \subseteq DOMAIN Readings
  /\ \A f \in Numbers : Readings[f] \subseteq Int
  /\ Readings["db"] \subseteq {"bull", "bear"}
  /\ \A q \in Quiet : DOMAIN q = DOMAIN Readings /\ \A f \in DOMAIN q : q[f] \in Readings[f]

VARIABLE reading

SetupsInit == reading \in Quiet

\* One indicator moves.
Move(f) ==
  /\ \E v \in Readings[f] : v # reading[f] /\ reading' = [reading EXCEPT ![f] = v]
  /\ \E q \in Quiet : Cardinality({g \in DOMAIN q : reading'[g] # q[g]}) <= MaxMoved

SetupsNext == \E f \in DOMAIN Readings : Move(f)
SetupsSpec == SetupsInit /\ [][SetupsNext]_reading

-----------------------------------------------------------------------------
(* scan.js                                                                  *)

Px == 1000
Off(a, b) == IF a < b THEN b - a ELSE a - b
Bonus(on, n) == IF on THEN 10 * n ELSE 0
When(condition, type, side, score) ==
  IF condition THEN {[type |-> type, side |-> side, score |-> score]} ELSE {}

HtfBear(r) == Px < r.dEma200 /\ r.dEma50 < r.dEma200
HtfBull(r) == Px > r.dEma200 /\ r.dEma50 > r.dEma200
Sideways(r) == Off(r.hEma20, r.hEma50) < 4
NearEma20(r) == Off(Px, r.hEma20) < 25

LiveS3(r) == When(r.dRsi < 25 /\ r.hRsi < 42 /\ r.hRsi > r.hRsiPrev /\ r.cross = "bull",
                  "S3", "long", 10 * (40 - r.dRsi) + Bonus(r.hStoch < 25, 5))
LiveS1(r) == When(/\ HtfBear(r) /\ Px < r.hEma20 /\ r.hEma20 - Px < 35 /\ r.hRsi > 35
                  /\ r.cross = "bear" \/ r.hStoch > 65,
                  "S1", "short", 120 + Bonus(r.hStoch > 70, 5) + Bonus(r.cross = "bear", 3))
LiveS2(r) == When(HtfBear(r) /\ r.hRsi \in 40..58 /\ Px < r.hEma50 /\ NearEma20(r) /\ r.cross = "bear",
                  "S2", "short", 10 * (73 - r.hRsi))
LiveS4(r) == When(HtfBull(r) /\ r.hRsi \in 31..49 /\ r.cross = "bull", "S4", "long", 160)
LiveS7(r) == When(HtfBull(r) /\ r.hRsi \in 38..52 /\ r.rising /\ NearEma20(r),
                  "S7", "long", 130 + Bonus(r.cross = "bull", 3))

\* Funding squeezes: the score of the short one is capped, the long one's not.
LiveS6(r) == When(r.funding < -3 /\ r.dRsi < 32 /\ r.rising, "S6", "long", 100 - 10 * r.funding)
LiveS9(r) == When(r.funding > 5 /\ r.dRsi > 68 /\ r.hStoch > 80,
                  "S9", "short", 100 + 10 * Min({r.funding, 6}))

LiveS5(r) ==
  When(Sideways(r) /\ r.band = "above" /\ r.hRsi > 60 /\ r.hStoch > 75 /\ Px < r.dEma200,
       "S5", "short", 100 + Bonus(r.hStoch > 85, 4))
  \cup When(Sideways(r) /\ r.band = "below" /\ r.hRsi < 40 /\ r.hStoch < 25 /\ Px > r.dEma200,
            "S5", "long", 100 + Bonus(r.hStoch < 15, 4))
LiveS8(r) ==
  When(r.donchian = "above" /\ r.volume > 130, "S8", "long", 120 + Bonus(r.volume > 180, 4))
  \cup When(r.donchian = "below" /\ r.volume > 130, "S8", "short", 120 + Bonus(r.volume > 180, 4))
LiveMR4(r) ==
  When(r.band = "below" /\ Px > r.hEma200, "MR4", "long", 120 + Bonus(r.hRsi < 40, 3))
  \cup When(r.band = "above" /\ Px < r.hEma200, "MR4", "short", 120 + Bonus(r.hRsi > 60, 3))
LiveMR8Fast(r) ==
  When(r.hSrsi < 15 /\ Px > r.dEma50, "MR8", "long", 100 + 4 * (15 - r.hSrsi))
  \cup When(r.hSrsi > 85 /\ Px < r.dEma50, "MR8", "short", 100 + 4 * (r.hSrsi - 85))
LiveMR8(r) ==
  When(r.hSrsi < 15 /\ Px > r.dEma200, "MR8", "long", 100 + 4 * (15 - r.hSrsi))
  \cup When(r.hSrsi > 85 /\ Px < r.dEma200, "MR8", "short", 100 + 4 * (r.hSrsi - 85))
LiveS12(r) ==
  When(r.squeezed /\ r.range10 = "below" /\ Px < r.dEma200, "S12", "short", 140 + Bonus(r.volume > 130, 3))
  \cup When(r.squeezed /\ r.range10 = "above" /\ Px > r.dEma200, "S12", "long", 140 + Bonus(r.volume > 130, 3))

Live(r) == LiveS3(r) \cup LiveS1(r) \cup LiveS2(r) \cup LiveS4(r) \cup LiveS6(r) \cup LiveS7(r)
             \cup LiveS5(r) \cup LiveS8(r) \cup LiveS9(r) \cup LiveMR4(r) \cup LiveMR8(r) \cup LiveS12(r)

Edge == [S5 |-> 14, MR8 |-> 12, S1 |-> 10, MR4 |-> 6, S3 |-> 6, S6 |-> 4, S9 |-> 4,
         S2 |-> 8, S12 |-> 8, S7 |-> 5, S8 |-> 3, S4 |-> 3]
Weighed(s) == s.score * Edge[s.type]

\* One setup per pair: the best by score and edge.
Best(r) == {s \in Live(r) : \A t \in Live(r) : Weighed(t) <= Weighed(s)}

-----------------------------------------------------------------------------
(* optimize.js: all on the four hour chart but for the daily bias db, taken *)
(* from the daily close                                                     *)

Bear4(r) == r.hEma50 < r.hEma200 /\ Px < r.hEma20 /\ r.hEma20 < r.hEma50
Bull4(r) == Px > r.hEma200 /\ r.hEma50 > r.hEma200

Tested(r) ==
  [S1  |-> {s \in {"short"} : Bear4(r) /\ r.hEma20 - Px < 35 /\ r.hRsi > 35 /\ r.db = "bear"},
   S2  |-> {s \in {"short"} : Bear4(r) /\ r.hRsi \in 40..58},
   S4  |-> {s \in {"long"} : Bull4(r) /\ r.hRsi \in 30..50},
   S7  |-> {s \in {"long"} : Bull4(r) /\ r.hRsi \in 38..52 /\ r.rising /\ NearEma20(r)},
   S5  |-> {s \in {"long", "short"} :
              /\ Sideways(r)
              /\ IF s = "short" THEN r.band = "above" /\ r.hRsi > 60 /\ r.hStoch > 75 /\ r.db = "bear"
                                ELSE r.band = "below" /\ r.hRsi < 40 /\ r.hStoch < 25 /\ r.db = "bull"},
   S8  |-> {s \in {"long", "short"} :
              r.volume > 130 /\ r.donchian = (IF s = "long" THEN "above" ELSE "below")},
   MR4 |-> {s \in {"long", "short"} : IF s = "long" THEN r.band = "below" /\ Px > r.hEma200
                                                    ELSE r.band = "above" /\ Px < r.hEma200},
   MR8 |-> {s \in {"long", "short"} : IF s = "long" THEN r.hSrsi < 15 /\ r.db = "bull"
                                                    ELSE r.hSrsi > 85 /\ r.db = "bear"},
   S12 |-> {s \in {"long", "short"} :
              r.squeezed /\ IF s = "long" THEN r.db = "bull" /\ r.range10 = "above"
                                          ELSE r.db = "bear" /\ r.range10 = "below"}]

-----------------------------------------------------------------------------
(* Properties *)

\* The charts agree: the four hour averages are ordered as the daily ones,
\* and the daily close is on the side of the daily average where the price is.
ChartsAgree(r) ==
  /\ HtfBear(r) => Bear4(r)
  /\ HtfBull(r) => Bull4(r)
  /\ (r.db = "bull") = (Px > r.dEma200)

\* Where the charts agree, what the scan proposes is what the back-test
\* tested: every live signal is one that optimize.js would have counted for
\* that setup, whose result is its EDGE.  The oversold S3 (another RSI) and
\* the funding setups (never back-tested) are not compared, and where the
\* charts disagree S1, S2, S4 and S7 are other setups than the tested ones.
LiveIsTested ==
  ChartsAgree(reading) =>
    \A s \in Live(reading) : s.type \notin {"S3", "S6", "S9"} => s.side \in Tested(reading)[s.type]

\* A setup that lost or was never validated takes the place of a validated
\* one only where scan.js lets its score grow: an oversold S3, a funding
\* below -0.08% (S6 has no cap), or S7 before MR4.  The cap of S9 and the
\* edges of S4 and S8 keep these behind.
Validated == {"S1", "S2", "S5", "S12", "MR4", "MR8"}
ValidatedFirst ==
  \A s \in Best(reading) :
    s.type \notin Validated /\ (\E t \in Live(reading) : t.type \in Validated) =>
      \/ s.type = "S3"
      \/ s.type = "S6" /\ reading.funding <= -8
      \/ s.type = "S7" /\ \A t \in Live(reading) : t.type \in Validated => t.type = "MR4"

\* What the scan proposes was tested, and what was validated comes first.
ScanSound == LiveIsTested /\ ValidatedFirst
=============================================================================
