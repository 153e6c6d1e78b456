---------------------------- MODULE ToolsProofs -----------------------------
(***************************************************************************)
(* The tools that compute and keep nothing, for every value of their       *)
(* inputs: what the scan proposes was tested and what was validated comes  *)
(* first; the verdict on a position only escalates; a ladder is laid out   *)
(* as the checks demand, and the alarm over its stops is true; a trade     *)
(* that the back-test simulates is one that could have been taken, with    *)
(* its plan.  The reading of a chart is in PerceptionProofs.               *)
(*                                                                         *)
(* At the end the tools come together: a behaviour of the desk as MCDesk   *)
(* runs it is one of each of its tools, so that what this module,          *)
(* StoresProofs and PerceptionProofs show of them alone holds there.       *)
(*                                                                         *)
(* The walk of the back-test keeps an invariant, BackTestInv: what every   *)
(* pending is, by its kind (PendingOK), and what was pushed (SignalsOK).   *)
(* The pendings of a bar are processed by a fold, the pushes of a bar by   *)
(* another, the stop of a simulated trade is a recursive function: the     *)
(* lemmas of Induction say that each exists and what carries over its      *)
(* steps.                                                                  *)
(***************************************************************************)
EXTENDS MCDesk, StoresProofs, PerceptionProofs

-----------------------------------------------------------------------------
(* Setups: what the scan lists                                             *)

\* Every indicator takes one of its values.
ReadingInRange == DOMAIN reading = DOMAIN Readings /\ \A f \in DOMAIN Readings : reading[f] \in Readings[f]

LEMMA ReadsInit == SetupsInit => ReadingInRange
BY SetupsAssumption DEF SetupsInit, ReadingInRange

LEMMA ReadsStep == ReadingInRange /\ [SetupsNext]_reading => ReadingInRange'
BY DEF ReadingInRange, SetupsNext, Move

LEMMA NumbersRead ==
  ASSUME ReadingInRange
  PROVE  /\ reading.dEma50 \in Int /\ reading.dEma200 \in Int /\ reading.hEma20 \in Int
         /\ reading.hEma50 \in Int /\ reading.hEma200 \in Int /\ reading.dRsi \in Int
         /\ reading.hRsi \in Int /\ reading.hRsiPrev \in Int /\ reading.hStoch \in Int
         /\ reading.hSrsi \in Int /\ reading.volume \in Int /\ reading.funding \in Int
         /\ reading.db \in {"bull", "bear"}
<1>1. \A f \in Numbers : reading[f] \in Int
  BY SetupsAssumption DEF ReadingInRange
<1>2. reading["db"] \in {"bull", "bear"}
  BY SetupsAssumption DEF ReadingInRange
<1>q. QED  BY <1>1, <1>2 DEF Numbers

\* What follows for the scores, setup by setup.
Scores(r, s) ==
  \/ s.type = "S3"
  \/ s.type = "S1" /\ s.side = "short" /\ s.score >= 120 /\ HtfBear(r) /\ r.hEma20 - Px < 35 /\ r.hRsi > 35
  \/ s.type = "S2" /\ s.side = "short" /\ s.score >= 150 /\ HtfBear(r) /\ r.hRsi \in 40..58
  \/ s.type = "S4" /\ s.side = "long" /\ s.score = 160 /\ HtfBull(r) /\ r.hRsi \in 31..49
  \/ s.type = "S6" /\ s.score = 100 - 10 * r.funding
  \/ s.type = "S7" /\ s.side = "long" /\ s.score <= 160 /\ HtfBull(r) /\ r.hRsi \in 38..52 /\ r.rising /\ NearEma20(r)
  \/ s.type = "S5" /\ s.score >= 100 /\ Sideways(r)
       /\ \/ s.side = "short" /\ r.band = "above" /\ r.hRsi > 60 /\ r.hStoch > 75 /\ Px < r.dEma200
          \/ s.side = "long" /\ r.band = "below" /\ r.hRsi < 40 /\ r.hStoch < 25 /\ Px > r.dEma200
  \/ s.type = "S8" /\ s.score <= 160 /\ r.volume > 130
       /\ \/ s.side = "long" /\ r.donchian = "above"
          \/ s.side = "short" /\ r.donchian = "below"
  \/ s.type = "S9" /\ s.score <= 160
  \/ s.type = "MR4" /\ s.score >= 120
       /\ \/ s.side = "long" /\ r.band = "below" /\ Px > r.hEma200
          \/ s.side = "short" /\ r.band = "above" /\ Px < r.hEma200
  \/ s.type = "MR8" /\ s.score >= 104
       /\ \/ s.side = "long" /\ r.hSrsi < 15 /\ Px > r.dEma200
          \/ s.side = "short" /\ r.hSrsi > 85 /\ Px < r.dEma200
  \/ s.type = "S12" /\ s.score >= 140 /\ r.squeezed
       /\ \/ s.side = "short" /\ r.range10 = "below" /\ Px < r.dEma200
          \/ s.side = "long" /\ r.range10 = "above" /\ Px > r.dEma200

LEMMA LeastOfTwo ==
  ASSUME NEW a \in Int, NEW b \in Int
  PROVE  Min({a, b}) = IF a <= b THEN a ELSE b
<1> DEFINE S == {a, b}
           x == IF a <= b THEN a ELSE b
<1>1. x \in S /\ \A y \in S : x <= y
  OBVIOUS
<1>2. \A z \in S : (\A y \in S : z <= y) => z = x
  OBVIOUS
<1>q. QED  BY <1>1, <1>2 DEF Min

LEMMA ListedScores ==
  ASSUME ReadingInRange, NEW s \in Live(reading)
  PROVE  Scores(reading, s) /\ (s.type # "S3" => s.score \in Int)
<1> DEFINE r == reading
<1>0. /\ r.dEma200 \in Int /\ r.hRsi \in Int /\ r.hStoch \in Int /\ r.hSrsi \in Int
      /\ r.volume \in Int /\ r.funding \in Int
  BY NumbersRead
<1> HIDE DEF r
<1> SUFFICES Scores(r, s) /\ (s.type # "S3" => s.score \in Int)
  BY DEF r
<1>1. CASE s \in LiveS3(r)
  BY <1>1 DEF LiveS3, When, Scores
<1>2. CASE s \in LiveS1(r)
  BY <1>0, <1>2 DEF LiveS1, When, Bonus, Scores
<1>3. CASE s \in LiveS2(r)
  BY <1>0, <1>3 DEF LiveS2, When, Scores
<1>4. CASE s \in LiveS4(r)
  BY <1>0, <1>4 DEF LiveS4, When, Scores
<1>5. CASE s \in LiveS6(r)
  BY <1>0, <1>5 DEF LiveS6, When, Scores
<1>6. CASE s \in LiveS7(r)
  BY <1>0, <1>6 DEF LiveS7, When, Bonus, Scores
<1>7. CASE s \in LiveS5(r)
  BY <1>0, <1>7 DEF LiveS5, When, Bonus, Scores
<1>8. CASE s \in LiveS8(r)
  BY <1>0, <1>8 DEF LiveS8, When, Bonus, Scores
<1>9. CASE s \in LiveS9(r)
  <2>1. Min({r.funding, 6}) \in Int /\ Min({r.funding, 6}) <= 6
    BY <1>0, LeastOfTwo
  <2>q. QED  BY <1>9, <2>1 DEF LiveS9, When, Scores
<1>10. CASE s \in LiveMR4(r)
  BY <1>0, <1>10 DEF LiveMR4, When, Bonus, Scores
<1>11. CASE s \in LiveMR8(r)
  BY <1>0, <1>11 DEF LiveMR8, When, Scores
<1>12. CASE s \in LiveS12(r)
  BY <1>0, <1>12 DEF LiveS12, When, Bonus, Scores
<1>q. QED
  BY <1>1, <1>2, <1>3, <1>4, <1>5, <1>6, <1>7, <1>8, <1>9, <1>10, <1>11, <1>12 DEF Live, r

\* Setups.LiveIsTested.
LEMMA Compared == ReadingInRange => LiveIsTested
<1> SUFFICES ASSUME ReadingInRange, ChartsAgree(reading), NEW s \in Live(reading), s.type \notin {"S3", "S6", "S9"}
             PROVE  s.side \in Tested(reading)[s.type]
  BY DEF LiveIsTested
<1> DEFINE r == reading
<1>1. Scores(r, s) /\ ChartsAgree(r)
  BY ListedScores
<1>2. /\ r.dEma50 \in Int /\ r.dEma200 \in Int /\ r.hRsi \in Int /\ r.db \in {"bull", "bear"}
  BY NumbersRead
<1> HIDE DEF r
<1>3. Px = 1000
  BY DEF Px
<1>4. Px < r.dEma200 => r.db = "bear"
  BY <1>1, <1>2, <1>3 DEF ChartsAgree
<1>5. Px > r.dEma200 => r.db = "bull"
  BY <1>1, <1>2, <1>3 DEF ChartsAgree
<1>6. HtfBear(r) => Bear4(r) /\ r.db = "bear"
  BY <1>1, <1>4 DEF ChartsAgree, HtfBear
<1>7. HtfBull(r) => Bull4(r)
  BY <1>1 DEF ChartsAgree
<1> SUFFICES s.side \in Tested(r)[s.type]
  BY DEF r
<1>8. CASE s.type = "S1" \/ s.type = "S2"
  BY <1>1, <1>6, <1>8 DEF Scores, Tested
<1>9. CASE s.type = "S4" \/ s.type = "S7"
  BY <1>1, <1>2, <1>7, <1>9 DEF Scores, Tested
<1>10. CASE s.type = "S5"
  BY <1>1, <1>4, <1>5, <1>10 DEF Scores, Tested
<1>11. CASE s.type = "S8"
  BY <1>1, <1>11 DEF Scores, Tested
<1>12. CASE s.type = "MR4"
  BY <1>1, <1>12 DEF Scores, Tested
<1>13. CASE s.type = "MR8"
  BY <1>1, <1>4, <1>5, <1>13 DEF Scores, Tested
<1>14. CASE s.type = "S12"
  BY <1>1, <1>4, <1>5, <1>14 DEF Scores, Tested
<1>q. QED
  BY <1>1, <1>8, <1>9, <1>10, <1>11, <1>12, <1>13, <1>14 DEF Scores

\* Setups.ValidatedFirst.
LEMMA Ranked == ReadingInRange => ValidatedFirst
<1> SUFFICES ASSUME ReadingInRange, NEW s \in Best(reading), s.type \notin Validated, s.type # "S3",
                    NEW u \in Live(reading), u.type \in Validated
             PROVE  \/ s.type = "S6" /\ reading.funding <= -8
                    \/ s.type = "S7" /\ \A t \in Live(reading) : t.type \in Validated => t.type = "MR4"
  BY DEF ValidatedFirst
<1>0. s \in Live(reading) /\ \A t \in Live(reading) : Weighed(t) <= Weighed(s)
  BY DEF Best
<1>1. reading.funding \in Int
  BY NumbersRead
<1>2. ASSUME NEW t \in Live(reading), t.type \in Validated
      PROVE  Weighed(t) \in Int /\ Weighed(t) >= 720 /\ (t.type # "MR4" => Weighed(t) >= 1120)
  <2>1. Scores(reading, t) /\ t.score \in Int
    BY <1>2, ListedScores DEF Validated
  <2>q. QED  BY <1>2, <2>1 DEF Scores, Validated, Weighed, Edge
<1>3. CASE s.type = "S6"
  <2>1. Weighed(s) = (100 - 10 * reading.funding) * 4
    BY <1>0, <1>3, ListedScores DEF Scores, Weighed, Edge
  <2>2. Weighed(u) \in Int /\ Weighed(u) >= 720 /\ Weighed(u) <= Weighed(s)
    BY <1>0, <1>2
  <2>q. QED  BY <1>1, <1>3, <2>1, <2>2
<1>4. CASE s.type = "S7"
  <2>1. Weighed(s) \in Int /\ Weighed(s) <= 800
    BY <1>0, <1>4, ListedScores DEF Scores, Weighed, Edge
  <2>q. QED  BY <1>0, <1>2, <1>4, <2>1
<1>5. CASE s.type \in {"S4", "S8", "S9"}
  <2>1. Weighed(s) \in Int /\ Weighed(s) <= 640
    BY <1>0, <1>5, ListedScores DEF Scores, Weighed, Edge
  <2>q. QED  BY <1>0, <1>2, <2>1
<1>q. QED
  BY <1>0, <1>3, <1>4, <1>5, ListedScores DEF Scores, Validated

\* Setups.ScanSound: whatever the indicators read, what the scan proposes was
\* tested and what was validated comes first.
THEOREM ScanIsSound == SetupsSpec => []ScanSound
<1>1. ReadingInRange => ScanSound
  BY Compared, Ranked DEF ScanSound
<1>q. QED  BY <1>1, ReadsInit, ReadsStep, PTL DEF SetupsSpec

-----------------------------------------------------------------------------
(* Thesis: the verdict as indicators turn                                  *)

LEMMA IndicatorNames ==
  /\ DOMAIN Signed = {"trend", "setup", "mss", "choch", "sweep", "macd", "divergence", "obv", "h1dir",
                      "h1macd", "adx"}
  /\ DOMAIN Signed \cap Flags = {}
  /\ Signed.adx = {"flat", "rising", "falling"}
BY DEF Signed, Flags

\* Every indicator has one of its values.
RowHolds == DOMAIN row = Indicators /\ \A f \in Indicators : row[f] \in Values(f)

LEMMA RowInit == ThesisInit => RowHolds
<1> SUFFICES ASSUME ThesisInit PROVE \A f \in Indicators : row[f] \in Values(f)
  BY DEF RowHolds, ThesisInit, NeutralRow
<1> TAKE f \in Indicators
<1>1. row = NeutralRow
  BY DEF ThesisInit
<1>2. CASE f \in Flags
  BY <1>1, <1>2 DEF NeutralRow, Values
<1>3. CASE f \notin Flags
  <2>1. f \in DOMAIN Signed
    BY <1>3 DEF Indicators
  <2>2. row[f] = CASE f = "trend" -> "mixed"
                   [] f \in {"macd", "obv", "h1dir", "h1macd", "adx"} -> "flat"
                   [] OTHER -> "none"
    BY <1>1, <1>3 DEF NeutralRow
  <2>3. row[f] \in Signed[f]
    BY <2>1, <2>2 DEF Signed
  <2>q. QED  BY <1>3, <2>3 DEF Values
<1>q. QED  BY <1>2, <1>3

LEMMA RowStep == RowHolds /\ [ThesisNext]_thesisVars => RowHolds'
BY DEF RowHolds, ThesisNext, Turn, thesisVars

\* What turned against the position or stayed so was for it no more than now.
LEMMA TurnedAgainst ==
  ASSUME NEW p, NEW f \in Indicators, f \notin Flags, f # "adx", NEW v, NEW w,
         Adverse(p, f, w) >= Adverse(p, f, v)
  PROVE  /\ Against(p, v) => Against(p, w)
         /\ With(p, w) => With(p, v)
<1>1. ~(Against(p, v) /\ With(p, v)) /\ ~(Against(p, w) /\ With(p, w))
  BY DEF Against, With, Bullish, Bearish
<1>q. QED  BY <1>1 DEF Adverse

\* Row q stands no less against p than row r, indicator by indicator.
NoMilder(p, r, q) ==
  /\ \A f \in DOMAIN Signed \ {"adx"} : (Against(p, r[f]) => Against(p, q[f])) /\ (With(p, q[f]) => With(p, r[f]))
  /\ \A f \in {"reclaimD50", "atCycleLow", "altCapitulation", "givesBack"} : r[f] => q[f]
  /\ (q.adx = "rising" => r.adx = "rising") /\ (r.adx = "falling" => q.adx = "falling")
  /\ (q.seen <=> r.seen) /\ (q.trendRegime <=> r.trendRegime)
  /\ p.side = "short" /\ r.divergence = "bull" => q.divergence = "bull"

LEMMA TurnNoMilder ==
  ASSUME NEW p, RowHolds, RowHolds', NEW f \in Indicators, f \notin {"seen", "trendRegime"},
         \A g \in Indicators \ {f} : row'[g] = row[g],
         Adverse(p, f, row'[f]) >= Adverse(p, f, row[f])
  PROVE  NoMilder(p, row, row')
<1>1. \A g \in DOMAIN Signed : g \in Indicators /\ g \notin Flags
  BY IndicatorNames DEF Indicators
<1>2. ASSUME NEW g \in DOMAIN Signed \ {"adx"}
      PROVE  (Against(p, row[g]) => Against(p, row'[g])) /\ (With(p, row'[g]) => With(p, row[g]))
  <2>1. CASE g = f
    BY <1>1, <2>1, TurnedAgainst
  <2>2. CASE g # f
    BY <1>1, <2>2
  <2>q. QED  BY <2>1, <2>2
<1>3. ASSUME NEW g \in {"reclaimD50", "atCycleLow", "altCapitulation", "givesBack"}, row[g] PROVE row'[g]
  <2>1. g \in Flags /\ g \in Indicators
    BY DEF Flags, Indicators
  <2>2. CASE g = f
    BY <1>3, <2>1, <2>2 DEF Adverse
  <2>3. CASE g # f
    BY <1>3, <2>1, <2>3
  <2>q. QED  BY <2>2, <2>3
<1>4. (row'.adx = "rising" => row.adx = "rising") /\ (row.adx = "falling" => row'.adx = "falling")
  <2>1. "adx" \in Indicators /\ "adx" \notin Flags /\ row.adx \in {"flat", "rising", "falling"}
        /\ row'.adx \in {"flat", "rising", "falling"}
    BY <1>1, IndicatorNames DEF RowHolds, Values
  <2>2. CASE f = "adx"
    BY <2>1, <2>2 DEF Adverse
  <2>3. CASE f # "adx"
    BY <2>1, <2>3
  <2>q. QED  BY <2>2, <2>3
<1>5. row'.seen = row.seen /\ row'.trendRegime = row.trendRegime
  BY DEF Indicators, Flags
<1>6. ASSUME p.side = "short", row.divergence = "bull" PROVE row'.divergence = "bull"
  <2>1. "divergence" \in DOMAIN Signed \ {"adx"} /\ row'.divergence \in {"none", "bull", "bear"}
    BY <1>1 DEF RowHolds, Values, Signed
  <2>2. Against(p, row'.divergence)
    BY <1>2, <1>6, <2>1 DEF Against, Bullish
  <2>q. QED  BY <1>6, <2>1, <2>2 DEF Against, Bullish
<1>q. QED  BY <1>2, <1>3, <1>4, <1>5, <1>6 DEF NoMilder

LEMMA SmallSets ==
  ASSUME NEW p, NEW r
  PROVE  IsFiniteSet(Strong(p, r)) /\ IsFiniteSet(Weak(p, r))
<1>0. \A a, b, c : IsFiniteSet({a, b, c})
  <2> TAKE a, b, c
  <2>1. IsFiniteSet({a}) /\ {a, b} = {a} \cup {b} /\ {a, b, c} = {a, b} \cup {c}
    BY FS_Singleton
  <2>2. IsFiniteSet({a, b})
    BY <2>1, FS_AddElement
  <2>q. QED  BY <2>1, <2>2, FS_AddElement
<1>1. IsFiniteSet({"trend", "setup", "sweep", "structure", "reclaimD50", "atCycleLow"})
  <2>1. {"trend", "setup", "sweep", "structure", "reclaimD50", "atCycleLow"} =
          {"trend", "setup", "sweep"} \cup {"structure", "reclaimD50", "atCycleLow"}
    OBVIOUS
  <2>2. IsFiniteSet({"trend", "setup", "sweep"} \cup {"structure", "reclaimD50", "atCycleLow"})
    BY <1>0, FS_Union
  <2>q. QED  BY <2>1, <2>2
<1>2. IsFiniteSet({"macd", "divergence", "obv", "h1"})
  <2>1. {"macd", "divergence", "obv", "h1"} = {"macd", "divergence", "obv"} \cup {"h1"}
    OBVIOUS
  <2>2. IsFiniteSet({"macd", "divergence", "obv"} \cup {"h1"})
    BY <1>0, FS_AddElement
  <2>q. QED  BY <2>1, <2>2
<1>3. Strong(p, r) \subseteq {"trend", "setup", "sweep", "structure", "reclaimD50", "atCycleLow"}
  BY DEF Strong
<1>4. Weak(p, r) \subseteq {"macd", "divergence", "obv", "h1"}
  BY DEF Weak
<1>q. QED  BY <1>1, <1>2, <1>3, <1>4, FS_Subset

LEMMA SignalsPileUp ==
  ASSUME NEW p, NEW r, NEW q, NoMilder(p, r, q)
  PROVE  /\ Cardinality(Strong(p, r)) \in Nat /\ Cardinality(Strong(p, q)) \in Nat
         /\ Cardinality(Weak(p, r)) \in Nat /\ Cardinality(Weak(p, q)) \in Nat
         /\ Cardinality(Strong(p, r)) <= Cardinality(Strong(p, q))
         /\ Cardinality(Weak(p, r)) <= Cardinality(Weak(p, q))
         /\ TightenAlert(p, r) => TightenAlert(p, q)
<1>1. \A f \in {"trend", "setup", "mss", "choch", "sweep", "macd", "divergence", "obv", "h1dir", "h1macd"} :
        Against(p, r[f]) => Against(p, q[f])
  BY IndicatorNames DEF NoMilder
<1>2. Strong(p, r) \subseteq Strong(p, q)
  BY <1>1 DEF Strong, StructureAgainst, NoMilder
<1>3. Weak(p, r) \subseteq Weak(p, q)
  BY <1>1 DEF Weak
<1>4. TightenAlert(p, r) => TightenAlert(p, q)
  BY DEF TightenAlert, NoMilder
<1>q. QED  BY <1>2, <1>3, <1>4, SmallSets, FS_Subset, FS_CardinalityType

LEMMA VerdictEscalates ==
  ASSUME NEW p, NEW r, NEW q, NoMilder(p, r, q)
  PROVE  Severity[Verdict(p, q)] >= Severity[Verdict(p, r)]
<1> DEFINE sr == Cardinality(Strong(p, r))
           sq == Cardinality(Strong(p, q))
           wr == Cardinality(Weak(p, r))
           wq == Cardinality(Weak(p, q))
<1>1. sr \in Nat /\ sq \in Nat /\ wr \in Nat /\ wq \in Nat /\ sr <= sq /\ wr <= wq
  BY SignalsPileUp
<1>2. (TightenAlert(p, r) => TightenAlert(p, q)) /\ (r.givesBack => q.givesBack) /\ (q.seen <=> r.seen)
  BY SignalsPileUp DEF NoMilder
<1> DEFINE of(scanned, s, w, back, tight) ==
      CASE ~scanned -> "hold"
        [] scanned /\ Winning(p) -> IF s >= 1 \/ w >= 2 \/ back THEN "mature" ELSE "running"
        [] scanned /\ ~Winning(p) /\ Broken(s) -> "flipped"
        [] scanned /\ ~Winning(p) /\ ~Broken(s) /\ (s >= 1 \/ w >= 2 \/ tight) -> "weakening"
        [] OTHER -> "hold"
<1>3. /\ Verdict(p, r) = of(r.seen, sr, wr, r.givesBack, TightenAlert(p, r))
      /\ Verdict(p, q) = of(q.seen, sq, wq, q.givesBack, TightenAlert(p, q))
  BY DEF Verdict
<1> HIDE DEF sr, sq, wr, wq
<1>4. CASE ~r.seen
  BY <1>2, <1>3, <1>4 DEF Severity
<1>5. CASE r.seen /\ Winning(p)
  BY <1>1, <1>2, <1>3, <1>5 DEF Severity
<1>6. CASE r.seen /\ ~Winning(p)
  BY <1>1, <1>2, <1>3, <1>6 DEF Severity, Broken
<1>q. QED  BY <1>4, <1>5, <1>6

LEMMA TrailTightens ==
  ASSUME NEW p, NEW r, NEW q, NoMilder(p, r, q)
  PROVE  TrailRank[TrailGuidance(p, q)] >= TrailRank[TrailGuidance(p, r)]
<1> DEFINE with(x) == With(p, x.macd) \/ With(p, x.h1macd)
           against(x) == \E f \in {"macd", "divergence", "obv", "h1macd"} : Against(p, x[f])
<1>1. (with(q) => with(r)) /\ (against(r) => against(q))
  BY IndicatorNames DEF NoMilder
<1>2. (q.adx = "rising" => r.adx = "rising") /\ (r.adx = "falling" => q.adx = "falling")
      /\ (Trending(p, q) <=> Trending(p, r))
  BY DEF NoMilder, Trending
<1>3. \A x : TrailGuidance(p, x) =
        CASE ~Trending(p, x) -> "fixed_tp"
          [] Trending(p, x) /\ x.adx = "rising" /\ with(x) /\ ~against(x) -> "loose"
          [] Trending(p, x) /\ (x.adx = "falling" \/ against(x)) -> "tighten_to_mature"
          [] OTHER -> "normal"
  BY DEF TrailGuidance
<1> HIDE DEF with, against
<1>4. CASE ~Trending(p, r)
  BY <1>2, <1>3, <1>4 DEF TrailRank
<1>5. CASE Trending(p, r)
  BY <1>1, <1>2, <1>3, <1>5 DEF TrailRank
<1>q. QED  BY <1>4, <1>5

\* Thesis.OnlyEscalates, for every position and however many indicators have
\* turned: one that turns against the position never makes the verdict milder
\* nor the trail looser.
THEOREM VerdictOnlyEscalates == ThesisSpec => OnlyEscalates
<1> DEFINE A == \A f \in Indicators :
       row'[f] # row[f] /\ f \notin {"seen", "trendRegime"}
         /\ Adverse(position, f, row'[f]) >= Adverse(position, f, row[f]) =>
         /\ Severity[Verdict(position, row')] >= Severity[Verdict(position, row)]
         /\ TrailRank[TrailGuidance(position, row')] >= TrailRank[TrailGuidance(position, row)]
<1>1. RowHolds /\ RowHolds' /\ [ThesisNext]_thesisVars => [A]_thesisVars
  <2> SUFFICES ASSUME RowHolds, RowHolds', ThesisNext PROVE A
    OBVIOUS
  <2> SUFFICES ASSUME NEW f \in Indicators, row'[f] # row[f], f \notin {"seen", "trendRegime"},
                      Adverse(position, f, row'[f]) >= Adverse(position, f, row[f])
               PROVE  /\ Severity[Verdict(position, row')] >= Severity[Verdict(position, row)]
                      /\ TrailRank[TrailGuidance(position, row')] >= TrailRank[TrailGuidance(position, row)]
    OBVIOUS
  <2>1. PICK g \in Indicators : Turn(g)
    BY DEF ThesisNext
  <2>2. g = f /\ \A h \in Indicators \ {f} : row'[h] = row[h]
    BY <2>1 DEF Turn, RowHolds
  <2>3. PICK p : p = position
    OBVIOUS
  <2>4. PICK r : r = row
    OBVIOUS
  <2>5. PICK q : q = row'
    OBVIOUS
  <2>6. NoMilder(p, r, q)
    BY <2>2, <2>3, <2>4, <2>5, TurnNoMilder
  <2>7. /\ Severity[Verdict(p, q)] >= Severity[Verdict(p, r)]
        /\ TrailRank[TrailGuidance(p, q)] >= TrailRank[TrailGuidance(p, r)]
    BY <2>6, VerdictEscalates, TrailTightens
  <2>q. QED  BY <2>3, <2>4, <2>5, <2>7
<1>q. QED  BY <1>1, RowInit, RowStep, PTL DEF ThesisSpec, OnlyEscalates


-----------------------------------------------------------------------------
(* Placement: the rungs                                                    *)

LEMMA RequestIs ==
  ASSUME NEW r \in Requests
  PROVE  /\ r.zone \in Int /\ r.swing \in Int /\ r.rungs \in 1..3
         /\ r.beyond \subseteq Int /\ r.targets \subseteq Int /\ IsFiniteSet(r.targets)
         /\ Up(r.side) \in {1, -1}
BY PlacementAssumption DEF Up

\* The range in units of a fortieth, and the parts of it that are whole.
LEMMA PartsAre ==
  /\ \E u \in Nat \ {0} :
       /\ Step = 40 * u /\ Part(5) = 2 * u /\ Part(15) = 6 * u /\ Part(20) = 8 * u /\ Part(30) = 12 * u
       /\ Part(50) = 20 * u /\ Part(90) = 36 * u /\ Part(100) = 40 * u /\ Part(150) = 60 * u
       /\ Part(200) = 80 * u /\ Part(250) = 100 * u /\ Part(300) = 120 * u
  /\ Part(28) \in Int /\ Part(28) <= Part(30)
<1> DEFINE u == Step \div 40
<1>1. Step \in Nat \ {0} /\ Step % 40 = 0
  BY PlacementAssumption
<1>2. u \in Nat \ {0} /\ Step = 40 * u
  BY <1>1
<1> HIDE DEF u
<1>3. \A h \in {5, 15, 20, 30, 50, 90, 100, 150, 200, 250, 300} : Part(h) = (40 * u * h) \div 100
  BY <1>2 DEF Part
<1>4. /\ (40 * u * 5) \div 100 = 2 * u /\ (40 * u * 15) \div 100 = 6 * u /\ (40 * u * 20) \div 100 = 8 * u
      /\ (40 * u * 30) \div 100 = 12 * u /\ (40 * u * 50) \div 100 = 20 * u /\ (40 * u * 90) \div 100 = 36 * u
      /\ (40 * u * 100) \div 100 = 40 * u /\ (40 * u * 150) \div 100 = 60 * u
      /\ (40 * u * 200) \div 100 = 80 * u /\ (40 * u * 250) \div 100 = 100 * u
      /\ (40 * u * 300) \div 100 = 120 * u
  BY <1>2
<1>5. Part(28) \in Int /\ Part(28) <= 12 * u
  BY <1>2 DEF Part
<1>6. \E w \in Nat \ {0} :
       /\ Step = 40 * w /\ Part(5) = 2 * w /\ Part(15) = 6 * w /\ Part(20) = 8 * w /\ Part(30) = 12 * w
       /\ Part(50) = 20 * w /\ Part(90) = 36 * w /\ Part(100) = 40 * w /\ Part(150) = 60 * w
       /\ Part(200) = 80 * w /\ Part(250) = 100 * w /\ Part(300) = 120 * w
  BY <1>2, <1>3, <1>4
<1> QED BY <1>3, <1>4, <1>5, <1>6

\* What has been laid out once there are k rungs: none lies before the zone.
LaidOK(v, r, k) ==
  /\ v \in [levels : Seq(Int), left : SUBSET {z \in Int : Up(r.side) * (z - r.zone) > 0}]
  /\ Len(v.levels) = k
  /\ \A i \in 1..k : Up(r.side) * (v.levels[i] - r.zone) >= 0

LEMMA LevelsAre ==
  ASSUME NEW r \in Requests
  PROVE  /\ RungLevels(r) \in Seq(Int) /\ Len(RungLevels(r)) = r.rungs
         /\ \A i \in 1..r.rungs : Up(r.side) * (RungLevels(r)[i] - r.zone) >= 0
<1> DEFINE up == Up(r.side)
           beyond == {z \in r.beyond : up * (z - r.zone) > 0}
           nearest(S) == CHOOSE z \in S : \A y \in S : up * z <= up * y
           first == [levels |-> <<r.zone>>, left |-> beyond]
           nextRung(before) ==
             LET prev == Last(before.levels)
                 spaced == {z \in before.left : Apart(z, prev) >= Part(30)}
             IN  IF spaced = {} THEN [before EXCEPT !.levels = Append(@, prev + up * Part(50))]
                 ELSE [levels |-> Append(before.levels, nearest(spaced)),
                       left |-> before.left \ {nearest(spaced)}]
           IsLay(f) == f = [k \in 1..r.rungs |-> IF k = 1 THEN first ELSE nextRung(f[k - 1])]
           lay == CHOOSE f : IsLay(f)
<1>0. /\ r.zone \in Int /\ r.rungs \in 1..3 /\ r.beyond \subseteq Int /\ up \in {1, -1}
      /\ Part(50) \in Nat
  BY RequestIs, PartsAre
<1>1. RungLevels(r) = lay[r.rungs].levels
  BY DEF RungLevels
<1>2. LaidOK(first, r, 1)
  <2>1. up * (r.zone - r.zone) = 0
    BY <1>0
  <2>2. beyond \in SUBSET {z \in Int : up * (z - r.zone) > 0}
    BY <1>0
  <2> HIDE DEF beyond, up
  <2>3. first.levels = <<r.zone>> /\ first \in [levels : Seq(Int), left : SUBSET {z \in Int : up * (z - r.zone) > 0}]
    BY <1>0, <2>2
  <2>4. Len(first.levels) = 1 /\ \A i \in 1..1 : first.levels[i] = r.zone
    BY <2>3
  <2> HIDE DEF first
  <2> QED BY <2>1, <2>3, <2>4 DEF LaidOK, up
<1>3. ASSUME NEW k \in 1..2, NEW v, LaidOK(v, r, k) PROVE LaidOK(nextRung(v), r, k + 1)
  <2> DEFINE prev == Last(v.levels)
             spaced == {z \in v.left : Apart(z, prev) >= Part(30)}
             Ahead(z) == z \in Int /\ up * (z - r.zone) >= 0
  <2>1. /\ v.levels \in Seq(Int) /\ Len(v.levels) = k /\ v.left \subseteq {z \in Int : up * (z - r.zone) > 0}
        /\ \A i \in 1..k : up * (v.levels[i] - r.zone) >= 0
    BY <1>3 DEF LaidOK
  <2>2. Ahead(prev)
    BY <2>1 DEF Last
  <2>3. ASSUME NEW z, Ahead(z), NEW w, w.levels = Append(v.levels, z), w.left \subseteq v.left,
               w = [levels |-> w.levels, left |-> w.left]
        PROVE  LaidOK(w, r, k + 1)
    <3> DEFINE more == Append(v.levels, z)
    <3>1. /\ more \in Seq(Int) /\ Len(more) = k + 1 /\ more[k + 1] = z
          /\ \A i \in 1..k : more[i] = v.levels[i]
      BY <2>1, <2>3
    <3> HIDE DEF more
    <3>2. \A i \in 1..(k + 1) : up * (more[i] - r.zone) >= 0
      <4>1. \A i \in 1..(k + 1) : i = k + 1 \/ i \in 1..k
        OBVIOUS
      <4> QED BY <2>1, <2>3, <3>1, <4>1
    <3>3. w.levels = more
      BY <2>3 DEF more
    <3>4. w \in [levels : Seq(Int), left : SUBSET {y \in Int : up * (y - r.zone) > 0}]
      <4>1. w.levels \in Seq(Int) /\ w.left \in SUBSET {y \in Int : up * (y - r.zone) > 0}
        BY <2>1, <2>3, <3>1, <3>3
      <4> QED BY <2>3, <4>1
    <3> QED BY <3>1, <3>2, <3>3, <3>4 DEF LaidOK
  <2>4. CASE spaced = {}
    <3> DEFINE z == prev + up * Part(50)
               w == [v EXCEPT !.levels = Append(@, z)]
    <3>1. Ahead(z)
      <4> DEFINE half == Part(50)
      <4>1. half \in Nat /\ prev \in Int /\ up * (prev - r.zone) >= 0
        BY <1>0, <2>2
      <4> HIDE DEF half, prev, up
      <4>2. up = 1 \/ up = -1
        BY <1>0
      <4> QED BY <1>0, <4>1, <4>2 DEF half
    <3>2. w.levels = Append(v.levels, z) /\ w.left = v.left /\ w = [levels |-> w.levels, left |-> w.left]
      <4> DEFINE M == SUBSET {y \in Int : up * (y - r.zone) > 0}
      <4>1. v \in [levels : Seq(Int), left : M]
        BY <1>3 DEF LaidOK
      <4> HIDE DEF z, M
      <4>2. v = [levels |-> v.levels, left |-> v.left]
        BY <4>1
      <4>3. w.levels = Append(v.levels, z) /\ w.left = v.left
        BY <4>2
      <4>4. w = [levels |-> w.levels, left |-> w.left]
        <5> DEFINE cnt == Append(v.levels, z)
                   L == Seq(Int) \cup {cnt}
        <5>1. cnt \in L /\ v \in [levels : L, left : M]
          BY <4>1
        <5> HIDE DEF cnt, L
        <5>2. [v EXCEPT !.levels = cnt] \in [levels : L, left : M]
          BY <5>1
        <5>3. w = [v EXCEPT !.levels = cnt]
          BY DEF cnt
        <5> HIDE DEF w
        <5>4. w \in [levels : L, left : M]
          BY <5>2, <5>3
        <5> QED BY <5>4
      <4> HIDE DEF w
      <4> QED BY <4>3, <4>4
    <3>3. nextRung(v) = w
      BY <2>4
    <3> HIDE DEF w, z, nextRung, Ahead
    <3> QED BY <2>3, <3>1, <3>2, <3>3
  <2>5. CASE spaced # {}
    <3> DEFINE z == nearest(spaced)
               w == [levels |-> Append(v.levels, z), left |-> v.left \ {z}]
               offs == {up * (y - r.zone) : y \in spaced}
    <3>1. \A y \in spaced : y \in Int /\ up * (y - r.zone) \in Nat
      <4>1. spaced \subseteq v.left
        OBVIOUS
      <4> HIDE DEF spaced
      <4>2. ASSUME NEW y \in spaced PROVE y \in Int /\ up * (y - r.zone) \in Nat
        <5>1. y \in Int /\ up * (y - r.zone) > 0
          BY <2>1, <4>1
        <5> HIDE DEF up
        <5> QED BY <1>0, <5>1
      <4> QED BY <4>2
    <3>2. offs \in SUBSET Nat /\ offs # {}
      BY <2>5, <3>1
    <3>3. PICK o \in offs : \A p \in offs : o <= p
      <4> HIDE DEF offs
      <4> QED BY <3>2, Least
    <3>4. PICK y \in spaced : o = up * (y - r.zone)
      BY <3>3
    <3>5. \A x \in spaced : up * y <= up * x
      <4>1. ASSUME NEW x \in spaced PROVE up * y <= up * x
        <5>1. up * (y - r.zone) <= up * (x - r.zone)
          BY <3>3, <3>4
        <5>2. x \in Int /\ y \in Int
          BY <3>1
        <5> HIDE DEF up, spaced
        <5> QED BY <1>0, <5>1, <5>2
      <4> QED BY <4>1
    <3>6. z \in spaced
      <4> HIDE DEF spaced, up
      <4> QED BY <3>5
    <3>7. Ahead(z)
      <4> HIDE DEF z, spaced
      <4> QED BY <3>1, <3>6
    <3>8. w.levels = Append(v.levels, z) /\ w.left \subseteq v.left /\ w = [levels |-> w.levels, left |-> w.left]
      <4> HIDE DEF z
      <4> QED OBVIOUS
    <3>9. nextRung(v) = w
      BY <2>5
    <3> HIDE DEF w, z, nextRung, Ahead
    <3> QED BY <2>3, <3>7, <3>8, <3>9
  <2> QED BY <2>4, <2>5
<1> HIDE DEF first, nextRung
<1>4. IsLay([k \in 1..r.rungs |-> IF k = 1 THEN first ELSE IF k = 2 THEN nextRung(first) ELSE nextRung(nextRung(first))])
  <2> DEFINE g == [k \in 1..r.rungs |-> IF k = 1 THEN first ELSE IF k = 2 THEN nextRung(first) ELSE nextRung(nextRung(first))]
  <2>1. \A k \in 1..r.rungs : k \in {1, 2, 3} /\ (k # 1 => k - 1 \in 1..r.rungs)
    BY <1>0
  <2>2. ASSUME NEW k \in 1..r.rungs PROVE g[k] = IF k = 1 THEN first ELSE nextRung(g[k - 1])
    <3>1. CASE k = 1
      BY <3>1
    <3>2. CASE k = 2
      BY <2>1, <3>2
    <3>3. CASE k = 3
      <4>1. g[2] = nextRung(first) /\ g[3] = nextRung(nextRung(first))
        BY <2>1, <3>3
      <4> HIDE DEF g
      <4> QED BY <3>3, <4>1
    <3> QED BY <2>1, <3>1, <3>2, <3>3
  <2>3. g = [k \in 1..r.rungs |-> g[k]]
    OBVIOUS
  <2> HIDE DEF g
  <2>4. IsLay(g)
    BY <2>2, <2>3
  <2> QED BY <2>4 DEF g
<1>5. IsLay(lay)
  <2> HIDE DEF IsLay
  <2> QED BY <1>4
<1>6. \A k \in 1..r.rungs : lay[k] = IF k = 1 THEN first ELSE nextRung(lay[k - 1])
  <2> HIDE DEF lay
  <2> QED BY <1>5
<1> HIDE DEF lay, IsLay
<1>7. r.rungs \in {1, 2, 3}
  BY <1>0
<1>8. LaidOK(lay[1], r, 1)
  BY <1>2, <1>6, <1>7
<1>9. r.rungs >= 2 => LaidOK(lay[2], r, 2)
  BY <1>3, <1>6, <1>7, <1>8
<1>10. r.rungs = 3 => LaidOK(lay[3], r, 3)
  BY <1>3, <1>6, <1>9
<1>11. LaidOK(lay[r.rungs], r, r.rungs)
  BY <1>7, <1>8, <1>9, <1>10
<1> QED BY <1>1, <1>11 DEF LaidOK

\* Of three numbers at most one is the greatest.
LEMMA GreatestOfThree ==
  ASSUME NEW cnt \in 1..3, NEW e \in [1..cnt -> Int]
  PROVE  \E i \in 1..cnt : \A j \in 1..cnt : e[j] <= e[i]
<1>1. cnt \in {1, 2, 3} /\ \A j \in 1..cnt : j \in {1, 2, 3} /\ e[j] \in Int
  OBVIOUS
<1>2. CASE cnt = 1
  BY <1>2
<1>3. CASE cnt = 2
  <2>1. e[1] \in Int /\ e[2] \in Int /\ \A j \in 1..cnt : j \in {1, 2}
    BY <1>3
  <2>2. CASE e[1] <= e[2]
    BY <1>3, <2>1, <2>2
  <2>3. CASE e[2] <= e[1]
    BY <1>3, <2>1, <2>3
  <2> QED BY <2>1, <2>2, <2>3
<1>4. CASE cnt = 3
  <2>1. e[1] \in Int /\ e[2] \in Int /\ e[3] \in Int
    BY <1>4
  <2>2. CASE e[1] <= e[3] /\ e[2] <= e[3]
    BY <1>1, <1>4, <2>1, <2>2
  <2>3. CASE e[1] <= e[2] /\ e[3] <= e[2]
    BY <1>1, <1>4, <2>1, <2>3
  <2>4. CASE e[2] <= e[1] /\ e[3] <= e[1]
    BY <1>1, <1>4, <2>1, <2>4
  <2>5. \A x, y, z \in Int : (x <= z /\ y <= z) \/ (x <= y /\ z <= y) \/ (y <= x /\ z <= x)
    OBVIOUS
  <2>6. \/ e[1] <= e[3] /\ e[2] <= e[3]
        \/ e[1] <= e[2] /\ e[3] <= e[2]
        \/ e[2] <= e[1] /\ e[3] <= e[1]
    BY <2>1, <2>5
  <2> QED BY <2>2, <2>3, <2>4, <2>6, Zenon
<1> QED BY <1>1, <1>2, <1>3, <1>4

\* The top rung is beyond the others.
LEMMA TopIs ==
  ASSUME NEW r \in Requests
  PROVE  /\ TopRung(r) \in Int /\ Up(r.side) * (TopRung(r) - r.zone) >= 0
         /\ \A i \in 1..r.rungs : /\ RungLevels(r)[i] \in Int
                                  /\ Up(r.side) * RungLevels(r)[i] <= Up(r.side) * TopRung(r)
<1> DEFINE up == Up(r.side)
           levels == RungLevels(r)
           cnt == r.rungs
           all == ToSet(levels)
           e == [i \in 1..cnt |-> up * levels[i]]
<1>1. /\ up \in {1, -1} /\ cnt \in 1..3 /\ levels \in Seq(Int) /\ Len(levels) = cnt
      /\ \A i \in 1..cnt : up * (levels[i] - r.zone) >= 0
  BY RequestIs, LevelsAre
<1>2. TopRung(r) = CHOOSE z \in all : \A y \in all : up * y <= up * z
  BY DEF TopRung
<1> HIDE DEF up, levels, cnt
<1>3. \A i \in 1..cnt : levels[i] \in Int /\ up * levels[i] \in Int
  BY <1>1
<1>4. all = {levels[i] : i \in 1..cnt}
  BY <1>1 DEF ToSet
<1>5. e \in [1..cnt -> Int] /\ \A i \in 1..cnt : e[i] = up * levels[i]
  BY <1>3
<1> HIDE DEF all, e
<1>6. PICK i \in 1..cnt : \A j \in 1..cnt : e[j] <= e[i]
  BY <1>1, <1>5, GreatestOfThree
<1>7. \A y \in all : up * y <= up * levels[i]
  BY <1>4, <1>5, <1>6
<1>8. levels[i] \in all
  BY <1>4
<1> DEFINE top == TopRung(r)
<1>9. top \in all /\ \A y \in all : up * y <= up * top
  BY <1>2, <1>7, <1>8
<1> HIDE DEF top
<1>10. top \in Int /\ up * (top - r.zone) >= 0 /\ \A k \in 1..cnt : levels[k] \in Int /\ up * levels[k] <= up * top
  BY <1>1, <1>3, <1>4, <1>9
<1> QED BY <1>10 DEF top, up, levels, cnt

\* The stop clears the top rung by the distance of the family, and the swing.
LEMMA StopIs ==
  ASSUME NEW r \in Requests
  PROVE  /\ StopLoss(r) \in Int /\ Part(FloorAtr(r.family)) \in Nat
         /\ Up(r.side) * (StopLoss(r) - TopRung(r)) >= Part(FloorAtr(r.family))
         /\ r.swing # NoSwing => Up(r.side) * (StopLoss(r) - r.swing) >= Part(30)
<1> DEFINE up == Up(r.side)
           top == TopRung(r)
           far == Part(FloorAtr(r.family))
           near == Part(30)
           a == top + up * far
           b == top + up * near
           swing == IF r.swing = NoSwing THEN 0 ELSE r.swing
           c == swing + up * near
           cands == {a, b, c}
           stop == StopLoss(r)
<1>1. stop = CHOOSE z \in cands : \A y \in cands : up * y <= up * z
  BY DEF StopLoss
<1>2. /\ up \in {1, -1} /\ top \in Int /\ r.swing \in Int
      /\ swing \in Int /\ (r.swing # NoSwing => swing = r.swing)
  BY RequestIs, TopIs
<1>3. near \in Nat
  BY PartsAre
<1>4. far \in Nat
  <2>1. FloorAtr(r.family) \in {100, 150, 200, 250}
    BY DEF FloorAtr
  <2>2. Part(100) \in Nat /\ Part(150) \in Nat /\ Part(200) \in Nat /\ Part(250) \in Nat
    BY PartsAre
  <2> QED BY <2>1, <2>2
<1> HIDE DEF up, top, far, near, stop, swing
<1>5. a \in Int /\ b \in Int /\ c \in Int
  BY <1>2, <1>3, <1>4
<1>6. up * a = up * top + far /\ up * c = up * swing + near
  BY <1>2, <1>3, <1>4
<1> HIDE DEF a, b, c
<1>7. cands \subseteq Int /\ a \in cands /\ c \in cands
  BY <1>5
<1>8. \E z \in cands : \A y \in cands : up * y <= up * z
  <2> DEFINE x == up * a
             y == up * b
             w == up * c
  <2>1. x \in Int /\ y \in Int /\ w \in Int
    BY <1>2, <1>5
  <2>2. cands = {a, b, c}
    OBVIOUS
  <2> HIDE DEF cands
  <2>3. CASE x <= y /\ w <= y
    BY <2>1, <2>2, <2>3
  <2>4. CASE y <= x /\ w <= x
    BY <2>1, <2>2, <2>4
  <2>5. CASE x <= w /\ y <= w
    BY <2>1, <2>2, <2>5
  <2> QED BY <2>1, <2>3, <2>4, <2>5
<1> HIDE DEF cands
<1>9. stop \in cands /\ \A y \in cands : up * y <= up * stop
  BY <1>1, <1>8
<1>10. stop \in Int /\ up * a <= up * stop /\ up * c <= up * stop
  BY <1>7, <1>9
<1>11. up * (stop - top) >= far /\ (r.swing # NoSwing => up * (stop - r.swing) >= near)
  BY <1>2, <1>3, <1>4, <1>6, <1>10
<1> QED BY <1>4, <1>10, <1>11 DEF up, top, far, near, stop

\* What a finite set of prices is worth is finite.
LEMMA FiniteWorth ==
  ASSUME NEW r, NEW S, IsFiniteSet(S)
  PROVE  IsFiniteSet({Worth(r, t) : t \in S})
<1> DEFINE T == {Worth(r, t) : t \in S}
           f == [t \in S |-> Worth(r, t)]
<1>1. f \in Surjection(S, T)
  BY DEF Surjection
<1> HIDE DEF T, f
<1>2. IsFiniteSet(T)
  BY <1>1, FS_Surjection
<1> QED BY <1>2 DEF T

\* The targets are in order as soon as the first is off the entry.
LEMMA TargetsAre ==
  ASSUME NEW r \in Requests
  PROVE  /\ TpZones(r).quick \in Int /\ TpZones(r).main \in Int /\ TpZones(r).runner \in Int
         /\ TpZones(r).quick > 1 =>
              TpZones(r).quick < TpZones(r).main /\ TpZones(r).main < TpZones(r).runner
<1> DEFINE ahead  == {Worth(r, t) : t \in {t \in r.targets : Worth(r, t) > 0}}
           front  == Min(ahead) - Part(15)
           main   == IF ahead = {} THEN Part(200) ELSE Max(ahead) - Part(15)
           runner == IF ahead = {} THEN Part(300) ELSE Max(ahead) + Part(50)
           first  == IF Cardinality(ahead) >= 2 /\ Apart(front, 0) \in Part(20)..Part(90) THEN front ELSE Part(20)
           quick  == IF first >= main - Part(5) THEN main \div 2 ELSE first
<1>1. TpZones(r) = [quick |-> quick, main |-> main, runner |-> runner]
  BY DEF TpZones
<1>2. PICK u \in Nat \ {0} :
        /\ Part(5) = 2 * u /\ Part(15) = 6 * u /\ Part(20) = 8 * u /\ Part(50) = 20 * u
        /\ Part(200) = 80 * u /\ Part(300) = 120 * u
  BY PartsAre
<1>3. ahead \in SUBSET Nat /\ IsFiniteSet(ahead)
  <2> DEFINE good == {t \in r.targets : Worth(r, t) > 0}
  <2>1. IsFiniteSet(good)
    BY RequestIs, FS_Subset
  <2>2. \A t \in good : Worth(r, t) \in Nat
    <3>1. \A t \in r.targets : Worth(r, t) \in Int
      BY RequestIs DEF Worth
    <3> QED BY <3>1
  <2> HIDE DEF good
  <2>3. IsFiniteSet({Worth(r, t) : t \in good})
    BY <2>1, FiniteWorth
  <2> QED BY <2>2, <2>3 DEF good
<1> HIDE DEF ahead
<1>4. ahead # {} => Min(ahead) \in Nat /\ Max(ahead) \in Nat
  <2> SUFFICES ASSUME ahead # {} PROVE Min(ahead) \in Nat /\ Max(ahead) \in Nat
    OBVIOUS
  <2>1. \E m \in ahead : \A k \in ahead : m <= k
    BY <1>3, Least
  <2>2. \E m \in ahead : \A k \in ahead : m >= k
    BY <1>3, GreatestOfFinite
  <2>3. Min(ahead) \in ahead
    BY <2>1 DEF Min
  <2>4. Max(ahead) \in ahead
    BY <2>2 DEF Max
  <2> QED BY <1>3, <2>3, <2>4
<1>5. main \in Int /\ runner \in Int /\ main < runner
  BY <1>2, <1>4
<1>6. first \in Int
  <2>1. CASE ahead = {}
    <3>1. Cardinality(ahead) = 0
      BY <2>1, FS_EmptySet
    <3> QED BY <1>2, <3>1
  <2>2. CASE ahead # {}
    BY <1>2, <1>4, <2>2
  <2> QED BY <2>1, <2>2
<1> HIDE DEF main, runner, first
<1>7. quick \in Int /\ (quick > 1 => quick < main)
  <2>1. CASE first >= main - Part(5)
    <3>1. quick = main \div 2
      BY <2>1
    <3> HIDE DEF quick
    <3> QED BY <1>5, <3>1
  <2>2. CASE ~(first >= main - Part(5))
    BY <1>2, <1>5, <1>6, <2>2
  <2> QED BY <2>1, <2>2, Zenon
<1> QED BY <1>1, <1>5, <1>7

-----------------------------------------------------------------------------
(* Placement: sums of sizes                                                *)

\* What a fold that adds the numbers of f computes.
LEMMA FoldsSum ==
  ASSUME NEW f, NEW S, IsFiniteSet(S), Weighs(f, S), NEW g,
         \A s \in SUBSET S : g[s] = IF s = {} THEN 0 ELSE g[s \ {Pick(s)}] + f[Pick(s)]
  PROVE  g[S] = SumFunctionOnSet(f, S)
<1> DEFINE P == {s \in SUBSET S : g[s] = SumFunctionOnSet(f, s)}
<1>1. {} \in P
  BY SumOfNothing
<1>2. ASSUME NEW s \in SUBSET S, s # {}, \A x \in s : s \ {x} \in P PROVE s \in P
  <2> DEFINE x == Pick(s)
             others == s \ {x}
  <2>1. x \in s
    BY <1>2 DEF Pick
  <2>2. IsFiniteSet(s) /\ Weighs(f, s) /\ IsFiniteSet(others) /\ Weighs(f, others)
    BY FS_Subset DEF Weighs
  <2>0. s \ {x} = others
    OBVIOUS
  <2> HIDE DEF x, others
  <2>3. SumFunctionOnSet(f, s) = f[x] + SumFunctionOnSet(f, others)
    BY <2>0, <2>1, <2>2, SumOfAnother
  <2>4. SumFunctionOnSet(f, others) \in Nat
    BY <2>2, SumType
  <2>5. f[x] \in Nat
    BY <2>1, <2>2 DEF Weighs
  <2>6. g[others] = SumFunctionOnSet(f, others)
    BY <1>2, <2>0, <2>1
  <2>7. g[s] = g[others] + f[x]
    BY <1>2 DEF x, others
  <2>8. g[s] = SumFunctionOnSet(f, s)
    BY <2>3, <2>4, <2>5, <2>6, <2>7
  <2> QED BY <2>8
<1> HIDE DEF P
<1>3. Inherits(P, S)
  BY <1>1, <1>2 DEF P, Inherits
<1>4. S \in P
  BY <1>3, SubsetInduction
<1> QED BY <1>4 DEF P

\* Such a fold exists.
LEMMA FoldHas ==
  ASSUME NEW f, NEW S, IsFiniteSet(S), Weighs(f, S)
  PROVE  \E h \in [SUBSET S -> Nat] :
           h = [s \in SUBSET S |-> IF s = {} THEN 0 ELSE h[s \ {Pick(s)}] + f[Pick(s)]]
<1>1. PICK h \in [SUBSET S -> Nat] : Sums(h, f, S)
  BY SumsExists
<1>2. ASSUME NEW s \in SUBSET S, s # {} PROVE f[Pick(s)] + h[s \ {Pick(s)}] = h[s \ {Pick(s)}] + f[Pick(s)]
  <2>1. Pick(s) \in s
    BY <1>2 DEF Pick
  <2>2. f[Pick(s)] \in Nat
    BY <2>1 DEF Weighs
  <2>3. s \ {Pick(s)} \in SUBSET S
    OBVIOUS
  <2>4. h[s \ {Pick(s)}] \in Nat
    BY <2>3
  <2> QED BY <2>2, <2>4
<1>3. h = [s \in SUBSET S |-> IF s = {} THEN 0 ELSE h[s \ {Pick(s)}] + f[Pick(s)]]
  BY <1>1, <1>2 DEF Sums
<1> QED BY <1>3

\* The worth of rungs, each being its number.
Sizes == [k \in Nat |-> k]

LEMMA UnitsAreSums ==
  ASSUME NEW S \in SUBSET Nat, IsFiniteSet(S)
  PROVE  Units(S) = SumFunctionOnSet(Sizes, S) /\ Weighs(Sizes, S)
<1> DEFINE IsIter(h) == h = [s \in SUBSET S |-> IF s = {} THEN 0
                                               ELSE LET x == CHOOSE x \in s : TRUE IN h[s \ {x}] + x]
           iter == CHOOSE h : IsIter(h)
<1>1. Units(S) = iter[S]
  BY DEF Units, FoldSet, MapThenFoldSet
<1>2. Weighs(Sizes, S) /\ \A s \in SUBSET S : s # {} => Sizes[Pick(s)] = Pick(s)
  BY DEF Weighs, Sizes, Pick
<1>3. PICK h \in [SUBSET S -> Nat] : h = [s \in SUBSET S |-> IF s = {} THEN 0 ELSE h[s \ {Pick(s)}] + Sizes[Pick(s)]]
  BY <1>2, FoldHas
<1>4. h = [s \in SUBSET S |-> IF s = {} THEN 0 ELSE h[s \ {Pick(s)}] + Pick(s)]
  BY <1>2, <1>3
<1>5. IsIter(h)
  BY <1>4 DEF Pick
<1>6. IsIter(iter)
  <2> HIDE DEF IsIter
  <2> QED BY <1>5
<1> HIDE DEF iter
<1>7. \A s \in SUBSET S : iter[s] = IF s = {} THEN 0 ELSE iter[s \ {Pick(s)}] + Pick(s)
  BY <1>6 DEF Pick
<1>8. \A s \in SUBSET S : iter[s] = IF s = {} THEN 0 ELSE iter[s \ {Pick(s)}] + Sizes[Pick(s)]
  BY <1>2, <1>7
<1>9. iter[S] = SumFunctionOnSet(Sizes, S)
  <2> HIDE DEF IsIter
  <2> QED BY <1>2, <1>8, FoldsSum
<1> QED BY <1>1, <1>2, <1>9

\* Some rungs are worth something, and fewer are worth less.
LEMMA UnitsGrow ==
  ASSUME NEW S \in SUBSET (1..3), NEW T \in SUBSET S
  PROVE  /\ Units(S) \in Nat /\ Units(T) \in Nat /\ Units(T) <= Units(S)
         /\ S # {} => Units(S) >= 1
         /\ Units({}) = 0
<1>1. IsFiniteSet(1..3)
  <2>1. 1 \in Int /\ 3 \in Int
    OBVIOUS
  <2> QED BY <2>1, FS_Interval, ZenonT(20)
<1>2. IsFiniteSet(S) /\ IsFiniteSet(T) /\ S \in SUBSET Nat /\ T \in SUBSET Nat
  <2>1. 1..3 \subseteq Nat
    OBVIOUS
  <2>2. S \in SUBSET (1..3) /\ T \in SUBSET (1..3)
    OBVIOUS
  <2>3. IsFiniteSet(S) /\ IsFiniteSet(T)
    BY <1>1, <2>2, FS_Subset, ZenonT(20)
  <2> QED BY <2>1, <2>3
<1>3. IsFiniteSet({}) /\ {} \in SUBSET Nat
  BY FS_EmptySet
<1>4. Units({}) = 0
  BY <1>3, UnitsAreSums, SumOfNothing
<1>5. /\ Units(S) = SumFunctionOnSet(Sizes, S) /\ Weighs(Sizes, S)
      /\ Units(T) = SumFunctionOnSet(Sizes, T) /\ Weighs(Sizes, T)
  BY <1>2, UnitsAreSums
<1>6. SumFunctionOnSet(Sizes, S) \in Nat /\ SumFunctionOnSet(Sizes, T) \in Nat
  BY <1>2, <1>5, SumType
<1>7. SumFunctionOnSet(Sizes, T) <= SumFunctionOnSet(Sizes, S)
  BY <1>2, <1>5, SumOfSubset
<1>8. S # {} => SumFunctionOnSet(Sizes, S) >= 1
  <2> SUFFICES ASSUME NEW x \in S PROVE SumFunctionOnSet(Sizes, S) >= 1
    OBVIOUS
  <2>1. SumFunctionOnSet(Sizes, S) = Sizes[x] + SumFunctionOnSet(Sizes, S \ {x})
    BY <1>2, <1>5, SumOfOneLess
  <2>2. IsFiniteSet(S \ {x}) /\ Weighs(Sizes, S \ {x})
    BY <1>2, <1>5, FS_Subset DEF Weighs
  <2>3. SumFunctionOnSet(Sizes, S \ {x}) \in Nat
    BY <2>2, SumType
  <2>4. Sizes[x] = x /\ x \in 1..3
    BY <1>2 DEF Sizes
  <2> QED BY <2>1, <2>3, <2>4
<1> QED BY <1>4, <1>5, <1>6, <1>7, <1>8

\* The legs of a ladder of three rungs and its stops are ten orders at most.
LEMMA StopsFit ==
  ASSUME NEW r \in Requests
  PROVE  StopCount(r) <= 10
<1> DEFINE S == 1..r.rungs
           lg(k) == Cardinality({leg \in {"quick", "main", "runner"} : Legs(r, k)[leg] > 0})
           f == [k \in S |-> 1 + lg(k)]
           deep == Min({j \in 1..r.rungs : RungLevels(r)[j] = TopRung(r)})
           IsIter(h) == h = [s \in SUBSET S |-> IF s = {} THEN 0
                                               ELSE LET x == CHOOSE x \in s : TRUE IN h[s \ {x}] + 1 + lg(x)]
           iter == CHOOSE h : IsIter(h)
<1>1. StopCount(r) = iter[S]
  BY DEF StopCount, FoldSet, MapThenFoldSet
<1>2. r.rungs \in 1..3
  BY RequestIs
<1>3. IsFiniteSet(S) /\ Cardinality(S) = r.rungs
  BY <1>2, FS_Interval
<1>4. ASSUME NEW k PROVE lg(k) \in 0..3 /\ (k # deep => lg(k) <= 2)
  <2> DEFINE some == {leg \in {"quick", "main", "runner"} : Legs(r, k)[leg] > 0}
  <2>1. some \subseteq {"quick", "main"} \cup {"runner"}
    OBVIOUS
  <2>2. k # deep => Legs(r, k).runner = 0
    BY DEF Legs
  <2>3. k # deep => some \subseteq {"quick", "main"}
    BY <2>2
  <2> HIDE DEF some, deep
  <2>4. /\ IsFiniteSet({"quick"}) /\ Cardinality({"quick"}) = 1
        /\ "main" \notin {"quick"} /\ "runner" \notin {"quick"} \cup {"main"}
    BY FS_Singleton
  <2>5. IsFiniteSet({"quick"} \cup {"main"}) /\ Cardinality({"quick"} \cup {"main"}) = 2
    BY <2>4, FS_AddElement
  <2>6. /\ IsFiniteSet(({"quick"} \cup {"main"}) \cup {"runner"})
        /\ Cardinality(({"quick"} \cup {"main"}) \cup {"runner"}) = 3
    BY <2>4, <2>5, FS_AddElement
  <2>7. some \in SUBSET (({"quick"} \cup {"main"}) \cup {"runner"})
    BY <2>1
  <2>8. IsFiniteSet(some) /\ Cardinality(some) <= 3
    BY <2>6, <2>7, FS_Subset
  <2>9. k # deep => Cardinality(some) <= 2
    <3> SUFFICES ASSUME k # deep PROVE Cardinality(some) <= 2
      OBVIOUS
    <3>1. some \in SUBSET ({"quick"} \cup {"main"})
      BY <2>3
    <3> QED BY <2>5, <3>1, FS_Subset
  <2>10. Cardinality(some) \in Nat
    BY <2>8, FS_CardinalityType
  <2>11. Cardinality(some) \in 0..3
    BY <2>8, <2>10
  <2> QED BY <2>9, <2>11 DEF some
<1> HIDE DEF lg, deep, S
<1>5. /\ Weighs(f, S) /\ \A k \in S : f[k] <= 4 /\ (k # deep => f[k] <= 3)
  <2>1. \A k \in S : f[k] = 1 + lg(k)
    OBVIOUS
  <2> HIDE DEF f
  <2> QED BY <1>4, <2>1 DEF Weighs
<1>6. PICK h \in [SUBSET S -> Nat] : h = [s \in SUBSET S |-> IF s = {} THEN 0 ELSE h[s \ {Pick(s)}] + f[Pick(s)]]
  <2> HIDE DEF f
  <2> QED BY <1>3, <1>5, FoldHas
<1>7. ASSUME NEW s \in SUBSET S, s # {}, NEW m \in Nat PROVE m + f[Pick(s)] = m + 1 + lg(Pick(s))
  <2>1. Pick(s) \in S
    BY <1>7 DEF Pick
  <2>2. f[Pick(s)] = 1 + lg(Pick(s)) /\ lg(Pick(s)) \in 0..3
    BY <1>4, <2>1
  <2> HIDE DEF f
  <2> QED BY <2>2
<1>8. IsIter(h)
  <2>1. \A s \in SUBSET S : s \ {Pick(s)} \in SUBSET S /\ h[s \ {Pick(s)}] \in Nat
    OBVIOUS
  <2>2. \A s \in SUBSET S : s # {} => h[s \ {Pick(s)}] + f[Pick(s)] = h[s \ {Pick(s)}] + 1 + lg(Pick(s))
    <3> HIDE DEF f
    <3> QED BY <1>7, <2>1
  <2> HIDE DEF f
  <2>3. h = [s \in SUBSET S |-> IF s = {} THEN 0 ELSE h[s \ {Pick(s)}] + 1 + lg(Pick(s))]
    BY <1>6, <2>2
  <2> QED BY <2>3 DEF Pick
<1>9. IsIter(iter)
  <2> HIDE DEF IsIter
  <2> QED BY <1>8
<1> HIDE DEF iter
<1>10. \A s \in SUBSET S : iter[s] = IF s = {} THEN 0 ELSE iter[s \ {Pick(s)}] + 1 + lg(Pick(s))
  BY <1>9 DEF Pick
<1>11. \A s \in SUBSET S : iter[s] = h[s]
  <2> DEFINE P == {s \in SUBSET S : iter[s] = h[s]}
  <2>1. \A s \in SUBSET S : h[s] = IF s = {} THEN 0 ELSE h[s \ {Pick(s)}] + 1 + lg(Pick(s))
    BY <1>8 DEF Pick
  <2> HIDE DEF IsIter
  <2>2. {} \in P
    BY <1>10, <2>1
  <2>3. ASSUME NEW s \in SUBSET S, s # {}, \A x \in s : s \ {x} \in P PROVE s \in P
    <3>1. Pick(s) \in s
      BY <2>3 DEF Pick
    <3>2. iter[s \ {Pick(s)}] = h[s \ {Pick(s)}]
      BY <2>3, <3>1
    <3> QED BY <1>10, <2>1, <2>3, <3>2
  <2> HIDE DEF P
  <2>4. Inherits(P, S)
    BY <2>2, <2>3 DEF P, Inherits
  <2>5. P = SUBSET S
    BY <1>3, <2>4, SubsetInduction
  <2> QED BY <2>5 DEF P
<1>12. h[S] = SumFunctionOnSet(f, S)
  <2>1. \A s \in SUBSET S : h[s] = IF s = {} THEN 0 ELSE h[s \ {Pick(s)}] + f[Pick(s)]
    <3> HIDE DEF f
    <3> QED BY <1>6
  <2> HIDE DEF f, IsIter
  <2> QED BY <1>3, <1>5, <2>1, FoldsSum
<1> HIDE DEF f, IsIter
<1>13. SumFunctionOnSet(f, S) <= 10
  <2>1. CASE deep \in S
    <3> DEFINE T == S \ {deep}
    <3>1. IsFiniteSet(T) /\ Cardinality(T) = r.rungs - 1
      BY <1>3, <2>1, FS_RemoveElement
    <3>2. Weighs(f, T) /\ \A k \in T : f[k] <= 3
      BY <1>5 DEF Weighs
    <3>0. deep \in S /\ S \ {deep} = T /\ IsFiniteSet(S) /\ Weighs(f, S)
      BY <1>3, <1>5, <2>1
    <3> HIDE DEF T
    <3>3. SumFunctionOnSet(f, S) = f[deep] + SumFunctionOnSet(f, T)
      BY <3>0, SumOfAnother, ZenonT(20)
    <3>4. SumFunctionOnSet(f, T) <= Cardinality(T) * 3
      BY <3>1, <3>2, SumIsBounded
    <3>5. SumFunctionOnSet(f, T) \in Nat
      BY <3>1, <3>2, SumType
    <3>6. f[deep] \in Nat /\ f[deep] <= 4
      BY <1>5, <2>1 DEF Weighs
    <3> QED BY <1>2, <3>1, <3>3, <3>4, <3>5, <3>6
  <2>2. CASE deep \notin S
    <3>1. \A k \in S : f[k] <= 3
      BY <1>5, <2>2
    <3>2. SumFunctionOnSet(f, S) <= Cardinality(S) * 3
      BY <1>3, <1>5, <3>1, SumIsBounded
    <3>3. SumFunctionOnSet(f, S) \in Nat
      BY <1>3, <1>5, SumType
    <3> QED BY <1>2, <1>3, <3>2, <3>3
  <2> QED BY <2>1, <2>2
<1> QED BY <1>1, <1>11, <1>12, <1>13

\* The sizes of the orders found add up to those of the rungs they are for.
Quantity(orders) == FoldSet(LAMBDA o, cnt : cnt + o.amount, 0, orders)

LEMMA QuantityIsSum ==
  ASSUME NEW S, NEW f, IsFiniteSet(S), Weighs(f, S), \A o \in S : f[o] = o.amount
  PROVE  Quantity(S) = SumFunctionOnSet(f, S)
<1> DEFINE IsIter(h) == h = [s \in SUBSET S |-> IF s = {} THEN 0
                                               ELSE LET x == CHOOSE x \in s : TRUE IN h[s \ {x}] + x.amount]
           iter == CHOOSE h : IsIter(h)
<1>1. Quantity(S) = iter[S]
  BY DEF Quantity, FoldSet, MapThenFoldSet
<1>2. \A s \in SUBSET S : s # {} => f[Pick(s)] = Pick(s).amount
  BY DEF Pick
<1>3. PICK h \in [SUBSET S -> Nat] : h = [s \in SUBSET S |-> IF s = {} THEN 0 ELSE h[s \ {Pick(s)}] + f[Pick(s)]]
  BY FoldHas
<1>4. h = [s \in SUBSET S |-> IF s = {} THEN 0 ELSE h[s \ {Pick(s)}] + Pick(s).amount]
  BY <1>2, <1>3
<1>5. IsIter(h)
  BY <1>4 DEF Pick
<1>6. IsIter(iter)
  <2> HIDE DEF IsIter
  <2> QED BY <1>5
<1> HIDE DEF iter
<1>7. \A s \in SUBSET S : iter[s] = IF s = {} THEN 0 ELSE iter[s \ {Pick(s)}] + Pick(s).amount
  BY <1>6 DEF Pick
<1>8. \A s \in SUBSET S : iter[s] = IF s = {} THEN 0 ELSE iter[s \ {Pick(s)}] + f[Pick(s)]
  BY <1>2, <1>7
<1>9. iter[S] = SumFunctionOnSet(f, S)
  <2> HIDE DEF IsIter
  <2> QED BY <1>8, FoldsSum
<1> QED BY <1>1, <1>9

LEMMA QuantityIsUnits ==
  ASSUME NEW C \in SUBSET (1..3), NEW order, \A k \in C : order[k].amount = k
  PROVE  Quantity({order[k] : k \in C}) = Units(C)
<1> DEFINE R(s) == {order[k] : k \in s}
           f == [o \in R(C) |-> o.amount]
           P == {s \in SUBSET C : SumFunctionOnSet(f, R(s)) = SumFunctionOnSet(Sizes, s)}
<1>1. C \in SUBSET Nat /\ \A s \in SUBSET C : IsFiniteSet(s)
  <2>1. IsFiniteSet(1..3)
    <3>1. 1 \in Int /\ 3 \in Int
      OBVIOUS
    <3> QED BY <3>1, FS_Interval, ZenonT(20)
  <2>2. \A s \in SUBSET C : s \in SUBSET (1..3)
    OBVIOUS
  <2>3. \A s \in SUBSET C : IsFiniteSet(s)
    BY <2>1, <2>2, FS_Subset, ZenonT(20)
  <2> QED BY <2>3
<1>2. \A s \in SUBSET C : IsFiniteSet(R(s)) /\ R(s) \in SUBSET R(C)
  <2> SUFFICES ASSUME NEW s \in SUBSET C PROVE IsFiniteSet(R(s)) /\ R(s) \in SUBSET R(C)
    OBVIOUS
  <2> DEFINE g == [k \in s |-> order[k]]
             T == R(s)
  <2>1. g \in Surjection(s, T)
    BY DEF Surjection
  <2> HIDE DEF g, T
  <2>2. IsFiniteSet(T)
    BY <1>1, <2>1, FS_Surjection
  <2>3. R(s) \in SUBSET R(C)
    OBVIOUS
  <2> QED BY <2>2, <2>3 DEF T
<1>3. \A o \in R(C) : f[o] = o.amount
  OBVIOUS
<1>4. \A k \in C : f[order[k]] = k /\ order[k] \in R(C)
  BY <1>3
<1>5. Weighs(f, R(C)) /\ Weighs(Sizes, C) /\ \A k \in C : Sizes[k] = k
  BY <1>1, <1>4 DEF Weighs, Sizes
<1> HIDE DEF f
<1>6. {} \in P
  BY SumOfNothing
<1>7. ASSUME NEW s \in SUBSET C, s # {}, \A x \in s : s \ {x} \in P PROVE s \in P
  <2>1. PICK x \in s : TRUE
    BY <1>7
  <2> DEFINE all == R(s)
             others == R(s \ {x})
             o == order[x]
  <2>2. all \ {o} = others /\ o \in all
    BY <1>4
  <2>3. IsFiniteSet(all) /\ Weighs(f, all) /\ f[o] = Sizes[x]
    BY <1>2, <1>4, <1>5 DEF Weighs
  <2>4. IsFiniteSet(s) /\ Weighs(Sizes, s)
    BY <1>1, <1>5 DEF Weighs
  <2>5. SumFunctionOnSet(f, others) = SumFunctionOnSet(Sizes, s \ {x})
    BY <1>7
  <2> HIDE DEF all, others, o, P, R
  <2>6. SumFunctionOnSet(f, all) = f[o] + SumFunctionOnSet(f, others)
    BY <2>2, <2>3, SumOfAnother
  <2>7. SumFunctionOnSet(Sizes, s) = Sizes[x] + SumFunctionOnSet(Sizes, s \ {x})
    BY <2>4, SumOfOneLess
  <2>8. SumFunctionOnSet(f, all) = SumFunctionOnSet(Sizes, s)
    BY <2>3, <2>5, <2>6, <2>7
  <2> QED BY <2>8 DEF all, P
<1>8. Inherits(P, C)
  <2>1. P \subseteq SUBSET C
    OBVIOUS
  <2> HIDE DEF P
  <2> QED BY <1>6, <1>7, <2>1 DEF Inherits
<1>9. C \in P
  <2> HIDE DEF P
  <2> QED BY <1>1, <1>8, SubsetInduction
<1>10. Quantity(R(C)) = SumFunctionOnSet(f, R(C))
  <2> HIDE DEF R
  <2> QED BY <1>2, <1>3, <1>5, QuantityIsSum
<1>11. Units(C) = SumFunctionOnSet(Sizes, C)
  BY <1>1, UnitsAreSums
<1> QED BY <1>9, <1>10, <1>11

-----------------------------------------------------------------------------
(* Placement: the ladder laid out and looked after                         *)

LEMMA LayoutIsSound ==
  ASSUME request \in Requests, layout = BuildPlacement(request), layout.tp.quick > 1
  PROVE  LayoutSound
<1> DEFINE r == request
           up == Up(r.side)
           top == TopRung(r)
           stop == StopLoss(r)
           far == Part(FloorAtr(r.family))
<1>1. /\ layout.levels = RungLevels(r) /\ layout.sl = stop /\ layout.tp = TpZones(r)
      /\ \A k \in 1..r.rungs : layout.legs[k] = Legs(r, k)
      /\ layout.stops = StopCount(r)
  BY DEF BuildPlacement
<1>2. /\ up \in {1, -1} /\ top \in Int /\ stop \in Int /\ far \in Nat /\ r.swing \in Int
      /\ up * (stop - top) >= far /\ (r.swing # NoSwing => up * (stop - r.swing) >= Part(30))
      /\ \A k \in 1..r.rungs : RungLevels(r)[k] \in Int /\ up * RungLevels(r)[k] <= up * top
  BY RequestIs, TopIs, StopIs
<1>3. /\ 1000 * far >= Step * (ValidatedSlFloor(r.family) - 20)
      /\ Step * (ValidatedSlFloor(r.family) - 20) \in Int
  <2>1. PICK u \in Nat \ {0} :
          /\ Step = 40 * u /\ Part(100) = 40 * u /\ Part(150) = 60 * u
          /\ Part(200) = 80 * u /\ Part(250) = 100 * u
    BY PartsAre
  <2>2. \/ FloorAtr(r.family) = 250 /\ ValidatedSlFloor(r.family) = 2125
        \/ FloorAtr(r.family) = 200 /\ ValidatedSlFloor(r.family) = 1700
        \/ FloorAtr(r.family) = 150 /\ ValidatedSlFloor(r.family) = 1275
        \/ FloorAtr(r.family) = 150 /\ ValidatedSlFloor(r.family) = 1000
        \/ FloorAtr(r.family) = 100 /\ ValidatedSlFloor(r.family) = 1000
    BY DEF FloorAtr, ValidatedSlFloor
  <2> QED BY <2>1, <2>2
<1>4. \A k \in 1..r.rungs : SlGeometryOk(r, RungLevels(r)[k], stop)
  <2> SUFFICES ASSUME NEW k \in 1..r.rungs PROVE SlGeometryOk(r, RungLevels(r)[k], stop)
    OBVIOUS
  <2> DEFINE level == RungLevels(r)[k]
             bound == Step * (ValidatedSlFloor(r.family) - 20)
  <2>1. level \in Int /\ up * level <= up * top
    BY <1>2
  <2> HIDE DEF level, up, top, stop, far, bound
  <2>2. Apart(level, stop) >= far /\ Apart(level, stop) \in Int
    BY <1>2, <2>1 DEF Apart
  <2>3. 1000 * Apart(level, stop) >= bound
    BY <1>2, <1>3, <2>2 DEF bound
  <2> QED BY <2>3 DEF SlGeometryOk, level, bound
<1>5. SlPlacementOk(r, stop)
  <2>1. Part(28) \in Int /\ Part(30) \in Int /\ Part(28) <= Part(30)
    BY PartsAre
  <2>2. Part(30 - 2) = Part(28)
    OBVIOUS
  <2> HIDE DEF stop
  <2> QED BY <1>2, <2>1, <2>2 DEF SlPlacementOk
<1>6. \A k \in 1..r.rungs : Legs(r, k).quick + Legs(r, k).main + Legs(r, k).runner = 100
  BY DEF Legs
<1>7. StopCount(r) <= 10
  BY StopsFit
<1>8. 0 < TpZones(r).quick /\ TpZones(r).quick < TpZones(r).main /\ TpZones(r).main < TpZones(r).runner
  BY <1>1, TargetsAre
<1> QED BY <1>1, <1>4, <1>5, <1>6, <1>7, <1>8 DEF LayoutSound, AllRungs

\* What holds of a ladder as it fills: the market is between the first
\* target and the stop.
LadderInv ==
  /\ request \in Requests /\ layout = BuildPlacement(request) /\ view \in Views
  /\ price \in Int /\ trigger \in Int
  /\ open \in SUBSET AllRungs /\ covered \in SUBSET AllRungs
  /\ TargetSafe(price) /\ StopSafe(price, trigger) /\ layout.tp.quick > 1

LEMMA AlarmHolds == LadderInv => AlarmIsHeard
<1> SUFFICES ASSUME LadderInv PROVE AlarmIsHeard
  OBVIOUS
<1> DEFINE up == Up(request.side)
           goal == At(request, layout.tp.main)
           order == [k \in 1..3 |-> [isStop |-> TRUE, amount |-> k, at |-> trigger, dir |-> Direction(TRUE)]]
           profits == {[isStop |-> FALSE, amount |-> k, at |-> goal, dir |-> Direction(FALSE)] : k \in AllRungs}
           stops == {o \in OrdersFound : IsStop(o)}
           size == IF open = {} THEN Units(AllRungs) ELSE Units(open)
<1>1. /\ request.zone \in Int /\ up \in {1, -1} /\ AllRungs \in SUBSET (1..3)
      /\ covered \in SUBSET AllRungs /\ open \in SUBSET AllRungs
      /\ price \in Int /\ trigger \in Int
  BY RequestIs DEF LadderInv, AllRungs
<1>2. layout.tp.quick \in Int /\ layout.tp.main \in Int /\ layout.tp.quick < layout.tp.main
  BY TargetsAre DEF LadderInv, BuildPlacement
<1>3. view.directed \/ view.priced
  BY PlacementAssumption DEF LadderInv
<1>4. up * (trigger - price) > 0
  BY DEF LadderInv, StopSafe
<1>5. ~ (up * (goal - price) > 0)
  <2>1. up * (request.zone - price) < layout.tp.quick
    BY DEF LadderInv, TargetSafe, Worth
  <2>2. goal = request.zone - up * layout.tp.main
    BY DEF At
  <2> HIDE DEF up, goal
  <2> QED BY <1>1, <1>2, <2>1, <2>2
<1>6. \A k \in AllRungs : IsStop(order[k])
  <2> SUFFICES ASSUME NEW k \in AllRungs PROVE IsStop(order[k])
    OBVIOUS
  <2> DEFINE o == order[k]
  <2>1. o.dir = Direction(TRUE) /\ o.at = trigger
    BY <1>1
  <2> HIDE DEF o
  <2>2. ASSUME view.directed PROVE IsStop(o)
    BY <2>1, <2>2 DEF IsStop, Direction, Rises
  <2>3. ASSUME ~ view.directed PROVE IsStop(o)
    <3>1. o.dir = 0 /\ view.priced
      BY <1>3, <2>1, <2>3 DEF Direction
    <3>2. Losing(o, price)
      BY <1>4, <2>1 DEF Losing
    <3> QED BY <3>1, <3>2 DEF IsStop
  <2> QED BY <2>2, <2>3 DEF o
<1>7. \A o \in profits : ~ IsStop(o)
  <2> SUFFICES ASSUME NEW o \in profits PROVE ~ IsStop(o)
    OBVIOUS
  <2>1. o.dir = Direction(FALSE) /\ o.at = goal
    <3>1. PICK k \in AllRungs : o = [isStop |-> FALSE, amount |-> k, at |-> goal, dir |-> Direction(FALSE)]
      OBVIOUS
    <3> QED BY <3>1
  <2> HIDE DEF profits, goal
  <2>2. CASE view.directed
    BY <2>1, <2>2 DEF IsStop, Direction, Rises
  <2>3. CASE ~ view.directed
    BY <1>3, <1>5, <2>1, <2>3 DEF IsStop, Direction, Losing
  <2> QED BY <2>2, <2>3
<1>8. OrdersFound = {order[k] : k \in covered} \cup profits
  BY <1>1 DEF OrdersFound
<1>9. stops = {order[k] : k \in covered}
  <2>1. covered \subseteq AllRungs
    BY <1>1
  <2> HIDE DEF profits, order
  <2> QED BY <1>6, <1>7, <1>8, <2>1
<1>10. \A k \in covered : order[k].amount = k
  BY <1>1
<1> HIDE DEF stops, order
<1>11. Quantity(stops) = Units(covered)
  BY <1>1, <1>9, <1>10, QuantityIsUnits
<1>12. /\ Units(covered) \in Nat /\ Units(AllRungs) \in Nat /\ Units(covered) <= Units(AllRungs)
       /\ Units(open) \in Nat /\ (open # {} => Units(open) >= 1)
       /\ Units({}) = 0
  BY <1>1, UnitsGrow
<1>13. Critical <=> IF stops = {} THEN open # {} ELSE 20 * Apart(Quantity(stops), size) > size
  BY DEF Critical, stops, Quantity, size
<1>14. stops = {} <=> covered = {}
  BY <1>9
<1>18. AllRungs # {}
  <2>1. request.rungs \in 1..3
    BY PlacementAssumption DEF LadderInv
  <2> QED BY <2>1 DEF AllRungs
<1>15. CASE covered = {}
  BY <1>12, <1>13, <1>14, <1>15 DEF AlarmIsHeard, Exposed
<1>16. CASE covered # {} /\ open = {}
  BY <1>11, <1>12, <1>13, <1>14, <1>16, <1>18 DEF AlarmIsHeard, Exposed
<1>17. CASE covered # {} /\ open # {}
  <2>1. size = Units(open) /\ (open = AllRungs => size = Units(AllRungs))
    BY <1>17 DEF size
  <2>2. Critical <=> 20 * Apart(Units(covered), size) > size
    BY <1>11, <1>13, <1>14, <1>17
  <2> HIDE DEF size
  <2> QED BY <1>12, <2>1, <2>2 DEF AlarmIsHeard, Exposed, Apart
<1> QED BY <1>15, <1>16, <1>17

LEMMA LadderInvInit == PlacementInit => LadderInv
<1> SUFFICES ASSUME PlacementInit PROVE LadderInv
  OBVIOUS
<1> DEFINE up == Up(request.side)
           far == Part(FloorAtr(request.family))
<1>1. request \in Requests /\ up \in {1, -1} /\ request.zone \in Int
  BY RequestIs DEF PlacementInit
<1>2. price = request.zone - up * 1
  BY DEF PlacementInit, At
<1>3. /\ trigger = StopLoss(request) /\ StopLoss(request) \in Int /\ TopRung(request) \in Int /\ far \in Nat
      /\ up * (StopLoss(request) - TopRung(request)) >= far /\ up * (TopRung(request) - request.zone) >= 0
  BY <1>1, TopIs, StopIs DEF PlacementInit, BuildPlacement
<1>4. up * (request.zone - price) < layout.tp.quick
  BY DEF PlacementInit, TargetSafe, Worth
<1>5. layout.tp.quick \in Int
  BY <1>1, TargetsAre DEF PlacementInit, BuildPlacement
<1> DEFINE top == TopRung(request)
           sl == StopLoss(request)
<1> HIDE DEF up, far, top, sl
<1>6. price \in Int /\ up * (request.zone - price) = 1
  BY <1>1, <1>2
<1>7. layout.tp.quick > 1
  BY <1>4, <1>5, <1>6
<1>8. up * (trigger - price) > 0
  <2>1. /\ trigger = sl /\ sl \in Int /\ top \in Int /\ far \in Nat
        /\ up * (sl - top) >= far /\ up * (top - request.zone) >= 0
    BY <1>3 DEF top, sl
  <2>2. CASE up = 1
    BY <1>1, <1>6, <2>1, <2>2
  <2>3. CASE up = -1
    BY <1>1, <1>6, <2>1, <2>3
  <2> QED BY <1>1, <2>2, <2>3
<1> QED BY <1>1, <1>3, <1>6, <1>7, <1>8 DEF LadderInv, PlacementInit, StopSafe, up

LEMMA LadderInvStep == LadderInv /\ [PlacementNext]_placementVars => LadderInv'
<1> SUFFICES ASSUME LadderInv, [PlacementNext]_placementVars PROVE LadderInv'
  OBVIOUS
<1>1. \A p \in Moves : p \in Int
  BY PlacementAssumption
<1>2. ASSUME NEW p \in Moves, MarketMoves(p) PROVE LadderInv'
  <2>1. /\ request' = request /\ layout' = layout /\ view' = view /\ covered' = covered /\ trigger' = trigger
        /\ price' = p /\ open' = open \cup {k \in AllRungs : Reached(k, p)}
        /\ StopSafe(p, trigger) /\ TargetSafe(p)
    BY <1>2 DEF MarketMoves
  <2> QED BY <1>1, <2>1 DEF LadderInv, AllRungs, StopSafe, TargetSafe, Worth
<1>3. ASSUME NEW stop \in Moves, Trail(stop) PROVE LadderInv'
  <2>1. /\ request' = request /\ layout' = layout /\ view' = view /\ covered' = covered /\ trigger' = stop
        /\ price' = price /\ open' = open /\ StopSafe(price, stop)
    BY <1>3 DEF Trail
  <2> QED BY <1>1, <2>1 DEF LadderInv, AllRungs, StopSafe, TargetSafe, Worth
<1>4. ASSUME NEW k \in AllRungs, StopGone(k) PROVE LadderInv'
  <2>1. /\ request' = request /\ layout' = layout /\ view' = view /\ covered' = covered \ {k}
        /\ trigger' = trigger /\ price' = price /\ open' = open
    BY <1>4 DEF StopGone
  <2> QED BY <2>1 DEF LadderInv, AllRungs, StopSafe, TargetSafe, Worth
<1>5. CASE UNCHANGED placementVars
  BY <1>5 DEF placementVars, LadderInv, AllRungs, StopSafe, TargetSafe, Worth
<1> QED BY <1>2, <1>3, <1>4, <1>5 DEF PlacementNext

\* LadderSound, whatever is asked of placement.js and however the ladder
\* fills: the layout keeps the distances, shares and limits that the checks
\* before an order test, and verify-bracket (journal.js, bracket-check.js)
\* misses no ladder whose stops cover less than what has filled, and raises
\* no false alarm once all of it has.
THEOREM LaddersAreSound == PlacementSpec => []LadderSound
<1>1. LadderInv => LadderSound
  BY AlarmHolds, LayoutIsSound DEF LadderInv, LadderSound
<1> QED BY <1>1, LadderInvInit, LadderInvStep, PTL DEF PlacementSpec

\* Only rungs of the ladder are filled and only they have stops.
LEMMA PlacementTypes == PlacementSpec => []PlacementTypeOK
<1>1. LadderInv => PlacementTypeOK
  BY DEF LadderInv, PlacementTypeOK
<1> QED BY <1>1, LadderInvInit, LadderInvStep, PTL DEF PlacementSpec

-----------------------------------------------------------------------------
(* The back-test: what waits and what was pushed                           *)

TradeSides == {"long", "short"}

\* The setups each kind of pending pushes.
Variants ==
  [limit   |-> {"FVG_cont", "FVG_cont_short", "FVG_react", "MR8_e_retrace"},
   reclaim |-> {"MR8_e_reclaim"},
   confirm |-> {"MR8_e_confirm"},
   ladder  |-> {"MR8_laddered", "S1_MTF_laddered", "S2_laddered"},
   bounce  |-> {"S1", "S2"}]

Kinds == DOMAIN Variants

\* Of a pending or a signal.
SetupNames ==
  {"FVG_cont", "FVG_cont_short", "FVG_react", "FVG_disp", "MR8_MTF", "MR8_e_retrace", "MR8_e_reclaim",
   "MR8_e_confirm", "MR8_laddered", "S1_MTF_laddered", "S2_laddered", "S1", "S2", "S1_bounceonly",
   "S2_bounceonly", "S1_bounce_cont", "S2_bounce_cont"}

Waiting == [kind : Kinds, name : SetupNames, side : TradeSides,
            rungs : Seq(Int), fills : Seq(Int), from : Nat, expiry : Nat]

\* How far beyond the signal the first rung is, the bars from which a rung may
\* fill, and a price that one may have filled at.
Nearest(p) == IF p.kind = "bounce" THEN Range1 \div 3 ELSE 0
Since(p) == IF p.kind = "bounce" THEN p.from + 1 ELSE p.from
FillOK(p, bars, cnt, paid) ==
  PulledBack(bars, p.from, p.side, Nearest(p), paid) /\ TradedAt(bars, Since(p), cnt, p.side, paid)

\* What a pending is, once cnt bars have been walked.
PendingOK(p, bars, cnt) ==
  /\ p \in Waiting /\ p.name \in Variants[p.kind] /\ Len(p.fills) <= 3
  /\ p.from \in 1..cnt /\ cnt <= p.expiry /\ p.expiry = p.from + WindowOf(p.name)
  /\ p.kind \in {"ladder", "bounce"} =>
       /\ cnt < p.expiry /\ Len(p.rungs) = 3
       /\ \A k \in 1..Len(p.fills) : FillOK(p, bars, cnt, p.fills[k])
       /\ \A k \in 1..3 : PulledBack(bars, p.from, p.side, Nearest(p), p.rungs[k])
  /\ p.kind = "ladder" => Len(p.fills) >= 1
  /\ p.kind = "limit" =>
       /\ Len(p.rungs) = 1
       /\ p.name = "MR8_e_retrace" => PulledBack(bars, p.from, p.side, 0, p.rungs[1])
       /\ p.name \in InGaps => InGap(bars, p.from, p.side, p.rungs[1])

PendingsOK(waiting, bars, cnt) ==
  waiting \in Seq(Waiting) /\ \A k \in 1..Len(waiting) : PendingOK(waiting[k], bars, cnt)

\* What may be pushed at bar i.
Hits == [name : SetupNames, side : TradeSides, entry : Int, from : Nat]
HitOK(s, bars, i) ==
  /\ s.from \in 1..i
  /\ s.name \notin AtOnce => s.from < i /\ i <= s.from + WindowOf(s.name)
  /\ PriceIsHonest(s, bars, i)

Signals == [name : SetupNames, side : TradeSides, i : Nat, entry : Int, from : Nat]
SignalsOK(pushed, bars) ==
  /\ pushed \in SUBSET Signals
  /\ \A s \in pushed : s.i \in 1..Len(bars) /\ HitOK(s, bars, s.i)
  /\ \A s, t \in pushed : s # t /\ s.name = t.name => s.i - t.i \notin (1 - Cooldown)..(Cooldown - 1)

BackTestInv ==
  /\ tape \in Seq(Candles)
  /\ PendingsOK(pendings, tape, Len(tape))
  /\ SignalsOK(signals, tape)

-----------------------------------------------------------------------------
\* The windows are positive, and a variant has that of the pending it is from.
LEMMA WindowsAre ==
  /\ Window \in Nat \ {0} /\ ShortWindow \in Nat \ {0} /\ ReclaimWindow \in Nat \ {0}
  /\ \A name : WindowOf(name) \in Nat \ {0}
  /\ \A name \in Laddered \cup BounceFills \cup BounceConts \cup {"S1", "S2"} : WindowOf(name) = Window
<1>1. Window \in Nat \ {0} /\ ShortWindow \in Nat \ {0} /\ ReclaimWindow \in Nat \ {0}
  BY BackTestAssumption
<1>2. \A name : WindowOf(name) \in Nat \ {0}
  BY <1>1 DEF WindowOf
<1>3. \A name \in Laddered \cup BounceFills \cup BounceConts \cup {"S1", "S2"} : WindowOf(name) = Window
  BY DEF WindowOf, Laddered, BounceFills, BounceConts
<1> QED BY <1>1, <1>2, <1>3

\* What an honest price is, by the class of the name.
LEMMA HonestLimit ==
  ASSUME NEW s, NEW bars, NEW i, s.name \in Limits, TradesAt(bars[i], s.side, s.entry),
         s.name \in InGaps => InGap(bars, s.from, s.side, s.entry),
         s.name = "MR8_e_retrace" => PulledBack(bars, s.from, s.side, 0, s.entry)
  PROVE  PriceIsHonest(s, bars, i)
<1>1. /\ s.name \notin AtOnce \cup Reversals /\ s.name \notin Laddered
      /\ s.name \notin BounceFills /\ s.name \notin BounceConts
  BY DEF Limits, InGaps, AtOnce, Reversals, Laddered, BounceFills, BounceConts
<1> QED BY <1>1 DEF PriceIsHonest

LEMMA HonestAtClose ==
  ASSUME NEW s, NEW bars, NEW i, s.name \in AtOnce \cup Reversals, s.entry = bars[i].c
  PROVE  PriceIsHonest(s, bars, i)
<1>1. /\ s.name \notin Limits /\ s.name \notin InGaps /\ s.name \notin Laddered \cup {"MR8_e_retrace"}
      /\ s.name \notin Laddered /\ s.name \notin BounceFills /\ s.name \notin BounceConts
  BY DEF Limits, InGaps, AtOnce, Reversals, Laddered, BounceFills, BounceConts
<1> QED BY <1>1 DEF PriceIsHonest

LEMMA HonestLadder ==
  ASSUME NEW s, NEW bars, NEW i, s.name \in Laddered,
         PulledBack(bars, s.from, s.side, 0, s.entry), TradedAt(bars, s.from, i, s.side, s.entry)
  PROVE  PriceIsHonest(s, bars, i)
<1>1. /\ s.name \notin Limits /\ s.name \notin InGaps /\ s.name \notin AtOnce \cup Reversals
      /\ s.name \notin BounceFills /\ s.name \notin BounceConts
  BY DEF Limits, InGaps, AtOnce, Reversals, Laddered, BounceFills, BounceConts
<1> QED BY <1>1 DEF PriceIsHonest

LEMMA HonestBounce ==
  ASSUME NEW s, NEW bars, NEW i, s.name \in BounceFills \cup BounceConts,
         \/ BounceFilled(s, bars, i)
         \/ s.name \in BounceConts /\ s.entry = bars[i].c /\ i = s.from + Window
  PROVE  PriceIsHonest(s, bars, i)
<1>1. /\ s.name \notin Limits /\ s.name \notin InGaps /\ s.name \notin AtOnce \cup Reversals
      /\ s.name \notin Laddered /\ s.name \notin Laddered \cup {"MR8_e_retrace"}
      /\ s.name \in BounceFills => s.name \notin BounceConts
  BY DEF Limits, InGaps, AtOnce, Reversals, Laddered, BounceFills, BounceConts
<1> QED BY <1>1 DEF PriceIsHonest

\* A push keeps what was pushed as it should be: it is refused within the
\* cooldown of a signal of the same name.
LEMMA PushOK ==
  ASSUME NEW bars, NEW i, i \in Nat, i = Len(bars), NEW g, SignalsOK(g, bars),
         NEW hit \in Hits, HitOK(hit, bars, i)
  PROVE  SignalsOK(Push(g, hit.name, hit.side, i, hit.entry, hit.from), bars)
<1> DEFINE new == [name |-> hit.name, side |-> hit.side, i |-> i, entry |-> hit.entry, from |-> hit.from]
<1>0. Cooldown \in Nat
  BY BackTestAssumption
<1>1. CASE Cooling(g, hit.name, i)
  BY <1>1 DEF Push
<1>2. CASE ~Cooling(g, hit.name, i)
  <2>1. Push(g, hit.name, hit.side, i, hit.entry, hit.from) = g \cup {new}
    BY <1>2 DEF Push
  <2>2. new \in Signals /\ new.i \in 1..Len(bars) /\ HitOK(new, bars, new.i)
    BY DEF Hits, Signals, HitOK, PriceIsHonest, BounceFilled
  <2>3. \A s \in g : s.i \in 1..i /\ (s.name = new.name => i - s.i >= Cooldown)
    BY <1>0, <1>2 DEF SignalsOK, Cooling
  <2>4. \A s, t \in g \cup {new} : s # t /\ s.name = t.name =>
          s.i - t.i \notin (1 - Cooldown)..(Cooldown - 1)
    <3>1. \A s \in g : s.name = new.name => /\ s.i - new.i \notin (1 - Cooldown)..(Cooldown - 1)
                                             /\ new.i - s.i \notin (1 - Cooldown)..(Cooldown - 1)
      <4> HIDE DEF new
      <4>1. new.i = i
        BY DEF new
      <4> QED BY <1>0, <2>3, <4>1
    <3> HIDE DEF new
    <3> QED BY <3>1 DEF SignalsOK
  <2> HIDE DEF new
  <2> QED BY <2>1, <2>2, <2>4 DEF SignalsOK
<1> QED BY <1>1, <1>2

\* So do all the pushes of a bar.
LEMMA PushAllOK ==
  ASSUME NEW bars, NEW i, i \in Nat, i = Len(bars), NEW g, SignalsOK(g, bars),
         NEW hits \in SUBSET Hits, IsFiniteSet(hits), \A hit \in hits : HitOK(hit, bars, i)
  PROVE  SignalsOK(PushAll(g, hits, i), bars)
<1> DEFINE V == {k \in SUBSET Signals : SignalsOK(k, bars)}
           pick == [s \in SUBSET hits |-> CHOOSE x \in s : TRUE]
           step == [hit \in hits |-> [k \in V |-> Push(k, hit.name, hit.side, i, hit.entry, hit.from)]]
           IsIter(h) == h = [s \in SUBSET hits |->
                               IF s = {} THEN g
                               ELSE LET x == CHOOSE x \in s : TRUE
                                    IN  Push(h[s \ {x}], x.name, x.side, i, x.entry, x.from)]
           iter == CHOOSE h : IsIter(h)
<1>1. g \in V
  BY DEF SignalsOK
<1>2. \A s \in SUBSET hits : s # {} => pick[s] \in s
  OBVIOUS
<1>3. \A k \in V, hit \in hits : Push(k, hit.name, hit.side, i, hit.entry, hit.from) \in V
  <2>1. SUFFICES ASSUME NEW k \in V, NEW hit \in hits
                 PROVE  Push(k, hit.name, hit.side, i, hit.entry, hit.from) \in V
    OBVIOUS
  <2>2. SignalsOK(Push(k, hit.name, hit.side, i, hit.entry, hit.from), bars)
    BY PushOK
  <2> QED BY <2>2 DEF SignalsOK
<1>4. \A x \in hits : \A v \in V : step[x][v] \in V
  BY <1>3
<1> HIDE DEF V
<1>5. PICK h \in [SUBSET hits -> V] : Folds(h, hits, g, step, pick)
  <2> HIDE DEF step, pick
  <2> QED BY <1>1, <1>2, <1>4, FoldExists
<1>6. IsIter(h)
  <2>1. ASSUME NEW s \in SUBSET hits, s # {}
        PROVE  h[s] = LET x == CHOOSE x \in s : TRUE
                      IN  Push(h[s \ {x}], x.name, x.side, i, x.entry, x.from)
    <3>1. h[s] = step[pick[s]][h[s \ {pick[s]}]]
      BY <1>5, <2>1 DEF Folds
    <3>2. pick[s] = (CHOOSE x \in s : TRUE) /\ pick[s] \in hits /\ h[s \ {pick[s]}] \in V
      BY <1>2, <1>5, <2>1
    <3> HIDE DEF pick
    <3> QED BY <3>1, <3>2
  <2>2. h[{}] = g
    BY <1>5 DEF Folds
  <2> QED BY <1>5, <2>1, <2>2
<1>7. IsIter(iter)
  BY <1>6
<1>8. PushAll(g, hits, i) = iter[hits]
  BY DEF PushAll, FoldSet, MapThenFoldSet
<1> DEFINE P == {s \in SUBSET hits : iter[s] \in V}
<1>9. Inherits(P, hits)
  <2>1. {} \in P
    BY <1>1, <1>7
  <2>2. ASSUME NEW s \in SUBSET hits, s # {}, \A x \in s : s \ {x} \in P
        PROVE  s \in P
    <3> DEFINE x == CHOOSE x \in s : TRUE
    <3>1. x \in s
      BY <2>2
    <3>2. iter[s] = Push(iter[s \ {x}], x.name, x.side, i, x.entry, x.from)
      BY <1>7, <2>2
    <3> HIDE DEF x, iter
    <3> QED BY <1>3, <2>2, <3>1, <3>2
  <2> HIDE DEF P
  <2>3. P \subseteq SUBSET hits
    BY DEF P
  <2> QED BY <2>1, <2>2, <2>3 DEF Inherits
<1>10. hits \in P
  <2> HIDE DEF P
  <2> QED BY <1>9, SubsetInduction
<1> QED BY <1>8, <1>10 DEF V

\* The greatest of some of the first cnt numbers is one of them.
LEMMA MaxIsOne ==
  ASSUME NEW cnt \in Nat, NEW s \in SUBSET (1..cnt), s # {}
  PROVE  Max(s) \in s
<1>1. \E m \in s : \A k \in s : k <= m
  <2>1. s \in SUBSET (0..cnt)
    OBVIOUS
  <2> QED BY <2>1, Greatest
<1>2. \E m \in s : \A k \in s : m >= k
  BY <1>1
<1> QED BY <1>2 DEF Max

\* The mean of up to three prices lies between what bounds them.
LEMMA MeanBetween ==
  ASSUME NEW fills \in Seq(Int), Len(fills) \in 1..3, NEW lo \in Int, NEW hi \in Int,
         \A k \in 1..Len(fills) : lo <= fills[k] /\ fills[k] <= hi
  PROVE  Mean(fills) \in lo..hi
<1> DEFINE S == 1..Len(fills)
           pick == [s \in SUBSET S |-> Max(s)]
           step == [k \in S |-> [v \in Int |-> v + fills[k]]]
           IsIter(h) == h = [s \in SUBSET S |-> IF s = {} THEN 0
                                                ELSE LET x == Max(s) IN h[s \ {x}] + fills[x]]
           iter == CHOOSE h : IsIter(h)
<1>0. IsFiniteSet(S) /\ DOMAIN fills = S /\ Cardinality(S) = Len(fills)
  <2>1. \A m \in 1..3 : m \in Int /\ 1 \in Int /\ m - 1 + 1 = m /\ ~(1 > m)
    OBVIOUS
  <2>2. \A m \in 1..3 : IsFiniteSet(1..m) /\ Cardinality(1..m) = m
    BY <2>1, FS_Interval
  <2>3. DOMAIN fills = S
    OBVIOUS
  <2> QED BY <2>2, <2>3
<1>1. \A s \in SUBSET S : s # {} => Max(s) \in s
  BY MaxIsOne
<1>2. \A x \in S : \A v \in Int : step[x][v] \in Int
  OBVIOUS
<1>3. \A s \in SUBSET S : s # {} => pick[s] \in s /\ pick[s] = Max(s)
  BY <1>1
<1>4. PICK h \in [SUBSET S -> Int] : Folds(h, S, 0, step, pick)
  <2>1. 0 \in Int
    OBVIOUS
  <2> HIDE DEF step, pick, S
  <2> QED BY <1>0, <1>2, <1>3, <2>1, FoldExists
<1>5. IsIter(h)
  <2>1. ASSUME NEW s \in SUBSET S, s # {}
        PROVE  h[s] = h[s \ {Max(s)}] + fills[Max(s)]
    <3>1. h[s] = step[pick[s]][h[s \ {pick[s]}]]
      BY <1>4, <2>1 DEF Folds
    <3>2. Max(s) \in S /\ h[s \ {Max(s)}] \in Int
      BY <1>1, <1>4, <2>1
    <3> HIDE DEF pick, S
    <3> QED BY <1>3, <2>1, <3>1, <3>2
  <2>2. h[{}] = 0
    BY <1>4 DEF Folds
  <2> QED BY <1>4, <2>1, <2>2
<1>6. IsIter(iter)
  BY <1>5
<1>7. Mean(fills) = iter[S] \div Len(fills)
  BY <1>0 DEF Mean, FoldLeft, MapThenFoldSet
<1> DEFINE P == {s \in SUBSET S : /\ iter[s] \in Int
                                  /\ Cardinality(s) * lo <= iter[s] /\ iter[s] <= Cardinality(s) * hi}
<1>8. Inherits(P, S)
  <2>1. {} \in P
    <3>1. iter[{}] = 0
      BY <1>6
    <3> HIDE DEF iter
    <3> QED BY <3>1, FS_EmptySet
  <2>2. ASSUME NEW s \in SUBSET S, s # {}, \A x \in s : s \ {x} \in P
        PROVE  s \in P
    <3> DEFINE x == Max(s)
               c == Cardinality(s \ {x})
    <3>1. x \in s
      BY <1>1, <2>2
    <3>2. iter[s] = iter[s \ {x}] + fills[x]
      BY <1>6, <2>2
    <3> HIDE DEF x
    <3>3. IsFiniteSet(s) /\ Cardinality(s) = c + 1 /\ c \in Nat
      <4>1. IsFiniteSet(s) /\ IsFiniteSet(s \ {x})
        BY <1>0, FS_Subset
      <4> QED BY <3>1, <4>1, FS_RemoveElement, FS_CardinalityType
    <3>4. /\ iter[s \ {x}] \in Int /\ c * lo <= iter[s \ {x}] /\ iter[s \ {x}] <= c * hi
      BY <2>2, <3>1
    <3>5. fills[x] \in Int /\ lo <= fills[x] /\ fills[x] <= hi
      BY <3>1
    <3>6. (c + 1) * lo = c * lo + lo /\ (c + 1) * hi = c * hi + hi /\ c * lo \in Int /\ c * hi \in Int
      <4>1. c \in Nat
        BY <3>3
      <4> HIDE DEF c
      <4> QED BY <4>1
    <3> DEFINE a == c * lo
               b == c * hi
               r == iter[s \ {x}]
    <3> HIDE DEF c, a, b, r, iter
    <3>7. iter[s] \in Int /\ a + lo <= iter[s] /\ iter[s] <= b + hi
      BY <3>2, <3>4, <3>5, <3>6 DEF a, b, r
    <3> QED BY <3>3, <3>6, <3>7 DEF a, b
  <2> HIDE DEF P
  <2>3. P \subseteq SUBSET S
    BY DEF P
  <2> QED BY <2>1, <2>2, <2>3 DEF Inherits
<1>9. S \in P
  <2> HIDE DEF P
  <2> QED BY <1>0, <1>8, SubsetInduction
<1>10. /\ iter[S] \in Int
       /\ Len(fills) * lo <= iter[S] /\ iter[S] <= Len(fills) * hi
  <2> HIDE DEF iter
  <2> QED BY <1>0, <1>9
<1> DEFINE sum == iter[S]
<1> HIDE DEF sum, iter
<1>11. \A cnt \in {1, 2, 3} : \A v \in Int : cnt * lo <= v /\ v <= cnt * hi => (v \div cnt) \in lo..hi
  OBVIOUS
<1>12. Len(fills) \in {1, 2, 3}
  OBVIOUS
<1>13. sum \div Len(fills) \in lo..hi
  BY <1>10, <1>11, <1>12 DEF sum
<1> QED BY <1>7, <1>13 DEF sum

\* The bars are numbers, between their low and their high.
LEMMA CandleNumbers ==
  ASSUME NEW bar \in Candles
  PROVE  /\ bar.o \in Int /\ bar.h \in Int /\ bar.l \in Int /\ bar.c \in Int /\ bar.srsi \in Int
         /\ bar.l <= bar.o /\ bar.l <= bar.c /\ bar.o <= bar.h /\ bar.c <= bar.h
         /\ bar.db \in {"bull", "bear", "none"} /\ bar.bear \in BOOLEAN /\ bar.range \in BOOLEAN
BY BackTestAssumption

\* PulledBack, as an interval.
LEMMA PulledBackIs ==
  ASSUME NEW bars \in Seq(Candles), NEW from \in 1..Len(bars), NEW side \in TradeSides, NEW paid \in Int,
         NEW least \in Nat
  PROVE  /\ bars[from].c \in Int /\ Range1 \in Nat
         /\ PulledBack(bars, from, side, least, paid)
              <=> (IF side = "long" THEN paid \in (bars[from].c - Range1)..(bars[from].c - least)
                                    ELSE paid \in (bars[from].c + least)..(bars[from].c + Range1))
<1>1. bars[from].c \in Int /\ Range1 \in Nat
  BY CandleNumbers, BackTestAssumption
<1>2. CASE side = "long"
  <2>1. (paid - bars[from].c) * Beyond(side) = bars[from].c - paid
    BY <1>1, <1>2 DEF Beyond
  <2>2. PulledBack(bars, from, side, least, paid) <=> bars[from].c - paid \in least..Range1
    BY <2>1 DEF PulledBack
  <2>3. bars[from].c - paid \in least..Range1 <=> paid \in (bars[from].c - Range1)..(bars[from].c - least)
    BY <1>1
  <2> QED BY <1>1, <1>2, <2>2, <2>3
<1>3. CASE side = "short"
  <2>1. (paid - bars[from].c) * Beyond(side) = paid - bars[from].c
    BY <1>1, <1>3 DEF Beyond
  <2>2. PulledBack(bars, from, side, least, paid) <=> paid - bars[from].c \in least..Range1
    BY <2>1 DEF PulledBack
  <2>3. paid - bars[from].c \in least..Range1 <=> paid \in (bars[from].c + least)..(bars[from].c + Range1)
    BY <1>1
  <2> QED BY <1>1, <1>3, <2>2, <2>3
<1> QED BY <1>2, <1>3 DEF TradeSides

LEMMA NearestIs == ASSUME NEW p PROVE Nearest(p) \in Nat /\ (p.kind # "bounce" => Nearest(p) = 0 /\ Since(p) = p.from)
<1>1. Range1 \in Nat
  BY BackTestAssumption
<1>2. Range1 \div 3 \in Nat
  BY <1>1
<1> QED BY <1>2 DEF Nearest, Since

\* What a ladder has filled after a bar: up to three rungs, of its own, each at
\* a price that a bar has traded at.
LEMMA FilledOK ==
  ASSUME NEW bars \in Seq(Candles), NEW i \in Nat, NEW p, PendingOK(p, bars, i - 1),
         p.kind \in {"ladder", "bounce"}
  PROVE  /\ Filled(p, bars[i]) \in Seq(Int)
         /\ Len(p.fills) <= Len(Filled(p, bars[i])) /\ Len(Filled(p, bars[i])) <= 3
         /\ \A k \in 1..Len(Filled(p, bars[i])) : FillOK(p, bars, i, Filled(p, bars[i])[k])
<1> DEFINE bar == bars[i]
           deeper(got, level) ==
             IF Len(got) < level /\ TradesAt(bar, p.side, p.rungs[level]) THEN Append(got, p.rungs[level]) ELSE got
           Fits(got) == /\ got \in Seq(Int) /\ Len(got) \in Len(p.fills)..3
                        /\ \A k \in 1..Len(got) : FillOK(p, bars, i, got[k])
<1>0. /\ p.rungs \in Seq(Int) /\ Len(p.rungs) = 3 /\ Len(p.fills) \in 0..3 /\ p.fills \in Seq(Int)
  <2>1. p.rungs \in Seq(Int) /\ p.fills \in Seq(Int) /\ Len(p.rungs) = 3 /\ Len(p.fills) <= 3
    BY DEF PendingOK, Waiting
  <2>2. Len(p.fills) \in Nat
    BY <2>1
  <2>3. \A m \in Nat : m <= 3 => m \in 0..3
    OBVIOUS
  <2>4. Len(p.fills) <= 3
    BY <2>1
  <2>5. Len(p.fills) \in 0..3
    BY <2>2, <2>3, <2>4
  <2> QED BY <2>1, <2>5
<1>a. p.from \in Nat /\ p.from <= i - 1 /\ i \in Since(p)..i
  <2>1. p.from \in 1..(i - 1)
    BY DEF PendingOK
  <2> QED BY <2>1 DEF Since
<1>b. \A paid : FillOK(p, bars, i - 1, paid) => FillOK(p, bars, i, paid)
  BY <1>a DEF FillOK, TradedAt, Since
<1>c. \A paid : PulledBack(bars, p.from, p.side, Nearest(p), paid) /\ TradesAt(bar, p.side, paid) => FillOK(p, bars, i, paid)
  BY <1>a DEF FillOK, TradedAt
<1> HIDE DEF bar
<1>1. Fits(p.fills)
  BY <1>0, <1>b DEF PendingOK
<1>2. ASSUME NEW got, Fits(got), NEW level \in 1..3 PROVE Fits(deeper(got, level))
  <2>1. CASE Len(got) < level /\ TradesAt(bar, p.side, p.rungs[level])
    <3> DEFINE more == Append(got, p.rungs[level])
    <3>1. p.rungs[level] \in Int
      BY <1>0
    <3>2. more \in Seq(Int) /\ Len(more) = Len(got) + 1 /\ more[Len(got) + 1] = p.rungs[level]
          /\ \A k \in 1..Len(got) : more[k] = got[k]
      BY <1>2, <3>1
    <3>3. FillOK(p, bars, i, p.rungs[level])
      BY <1>c, <2>1 DEF PendingOK
    <3>4. Len(more) \in Len(p.fills)..3
      BY <1>0, <1>2, <2>1, <3>2
    <3>5. \A k \in 1..Len(more) : FillOK(p, bars, i, more[k])
      <4>1. \A k \in 1..Len(more) : k = Len(got) + 1 \/ k \in 1..Len(got)
        BY <1>2, <3>2
      <4> HIDE DEF more
      <4> QED BY <1>2, <3>2, <3>3, <4>1
    <3>6. deeper(got, level) = more
      BY <2>1
    <3> HIDE DEF more, deeper
    <3> QED BY <3>2, <3>4, <3>5, <3>6
  <2>2. CASE ~(Len(got) < level /\ TradesAt(bar, p.side, p.rungs[level]))
    BY <1>2, <2>2
  <2> QED BY <2>1, <2>2
<1>3. Filled(p, bar) = deeper(deeper(deeper(p.fills, 1), 2), 3)
  BY DEF Filled
<1> HIDE DEF deeper, Fits
<1>4. Fits(deeper(p.fills, 1))
  BY <1>1, <1>2
<1>5. Fits(deeper(deeper(p.fills, 1), 2))
  BY <1>2, <1>4
<1>6. Fits(deeper(deeper(deeper(p.fills, 1), 2), 3))
  BY <1>2, <1>5
<1> QED BY <1>3, <1>6 DEF Fits, bar

\* Of up to three prices one is the lowest and one the highest.
LEMMA Extremes ==
  ASSUME NEW got \in Seq(Int), Len(got) \in 1..3
  PROVE  \E d, u \in 1..Len(got) : \A k \in 1..Len(got) : got[d] <= got[k] /\ got[k] <= got[u]
<1>1. Len(got) \in {1, 2, 3} /\ \A k \in 1..Len(got) : got[k] \in Int
  OBVIOUS
<1>2. CASE Len(got) = 1
  BY <1>1, <1>2
<1>3. CASE Len(got) = 2
  <2> DEFINE d == IF got[1] <= got[2] THEN 1 ELSE 2
             u == IF got[1] <= got[2] THEN 2 ELSE 1
  <2>1. d \in 1..2 /\ u \in 1..2 /\ \A k \in 1..2 : got[d] <= got[k] /\ got[k] <= got[u]
    BY <1>1, <1>3
  <2> HIDE DEF d, u
  <2> QED BY <1>3, <2>1
<1>4. CASE Len(got) = 3
  <2> DEFINE a == IF got[1] <= got[2] THEN 1 ELSE 2
             d == IF got[a] <= got[3] THEN a ELSE 3
             b == IF got[1] <= got[2] THEN 2 ELSE 1
             u == IF got[b] >= got[3] THEN b ELSE 3
  <2>0. got[1] \in Int /\ got[2] \in Int /\ got[3] \in Int
    BY <1>1, <1>4
  <2>1. /\ a \in 1..2 /\ got[a] \in Int /\ got[a] <= got[1] /\ got[a] <= got[2]
        /\ b \in 1..2 /\ got[b] \in Int /\ got[1] <= got[b] /\ got[2] <= got[b]
    BY <2>0
  <2> HIDE DEF a, b
  <2>2. /\ d \in 1..3 /\ got[d] <= got[1] /\ got[d] <= got[2] /\ got[d] <= got[3]
        /\ u \in 1..3 /\ got[1] <= got[u] /\ got[2] <= got[u] /\ got[3] <= got[u]
    BY <2>0, <2>1
  <2> HIDE DEF d, u
  <2>3. \A k \in 1..3 : k = 1 \/ k = 2 \/ k = 3
    OBVIOUS
  <2>4. \A k \in 1..3 : got[d] <= got[k] /\ got[k] <= got[u]
    BY <2>2, <2>3
  <2> QED BY <1>4, <2>2, <2>4
<1> QED BY <1>1, <1>2, <1>3, <1>4

\* What a ladder enters at: like the rungs it has filled.
LEMMA LadderMean ==
  ASSUME NEW bars \in Seq(Candles), NEW i \in 1..Len(bars), NEW p, PendingOK(p, bars, i - 1),
         NEW got \in Seq(Int), Len(got) \in 1..3,
         \A k \in 1..Len(got) : FillOK(p, bars, i, got[k])
  PROVE  Mean(got) \in Int /\ FillOK(p, bars, i, Mean(got))
<1>0. p.from \in 1..Len(bars) /\ p.side \in TradeSides /\ p.from \in Nat /\ Since(p) \in Nat /\ Since(p) >= 1
  <2>1. p.from \in 1..(i - 1) /\ p.side \in TradeSides
    BY DEF PendingOK, Waiting
  <2> QED BY <2>1 DEF Since
<1> DEFINE px == bars[p.from].c
           lo == IF p.side = "long" THEN px - Range1 ELSE px + Nearest(p)
           hi == IF p.side = "long" THEN px - Nearest(p) ELSE px + Range1
           mean == Mean(got)
<1>1. px \in Int /\ Range1 \in Nat
  <2>1. bars[p.from] \in Candles
    BY <1>0
  <2> QED BY <2>1, CandleNumbers, BackTestAssumption
<1>r. Nearest(p) \in Nat
  BY NearestIs
<1>2. lo \in Int /\ hi \in Int
  BY <1>1, <1>r
<1>3. \A paid \in Int : PulledBack(bars, p.from, p.side, Nearest(p), paid) <=> paid \in lo..hi
  BY <1>0, <1>r, PulledBackIs
<1> HIDE DEF lo, hi
<1>4. mean \in lo..hi
  <2>1. \A k \in 1..Len(got) : lo <= got[k] /\ got[k] <= hi
    BY <1>2, <1>3 DEF FillOK
  <2> QED BY <1>2, <2>1, MeanBetween
<1>5. PICK d \in 1..Len(got), u \in 1..Len(got) : \A k \in 1..Len(got) : got[d] <= got[k] /\ got[k] <= got[u]
  BY Extremes
<1>6. got[d] \in Int /\ got[u] \in Int
  OBVIOUS
<1>7. mean \in got[d]..got[u]
  BY <1>5, <1>6, MeanBetween
<1> HIDE DEF mean
<1>8. mean \in Int /\ got[d] <= mean /\ mean <= got[u]
  BY <1>6, <1>7
<1>9. TradedAt(bars, Since(p), i, p.side, mean)
  <2>1. CASE p.side = "long"
    <3>1. PICK k \in Since(p)..i : TradesAt(bars[k], p.side, got[d])
      BY DEF FillOK, TradedAt
    <3>2. bars[k].l \in Int
      BY <1>0, <3>1, CandleNumbers
    <3>3. TradesAt(bars[k], p.side, mean)
      BY <1>6, <1>8, <2>1, <3>1, <3>2 DEF TradesAt
    <3> QED BY <3>3 DEF TradedAt
  <2>2. CASE p.side = "short"
    <3>1. PICK k \in Since(p)..i : TradesAt(bars[k], p.side, got[u])
      BY DEF FillOK, TradedAt
    <3>2. bars[k].h \in Int
      BY <1>0, <3>1, CandleNumbers
    <3>3. TradesAt(bars[k], p.side, mean)
      BY <1>6, <1>8, <2>2, <3>1, <3>2 DEF TradesAt
    <3> QED BY <3>3 DEF TradedAt
  <2> QED BY <1>0, <2>1, <2>2 DEF TradeSides
<1>10. PulledBack(bars, p.from, p.side, Nearest(p), mean)
  BY <1>3, <1>4, <1>8
<1> QED BY <1>8, <1>9, <1>10 DEF FillOK, mean

\* The entry of a pending at a price.
HitAt(p, name, paid) == [name |-> name, side |-> p.side, entry |-> paid, from |-> p.from]

\* The entries of a bar.
HitsAre(hits, bars, i) ==
  hits \in SUBSET Hits /\ IsFiniteSet(hits) /\ \A hit \in hits : HitOK(hit, bars, i)

\* Process, by the kind of the pending.
LEMMA ProcessLimit ==
  ASSUME NEW bars, NEW i \in Nat, NEW p, p.expiry \in Nat, p.kind = "limit"
  PROVE  /\ Process(p, bars, i).keep => i <= p.expiry
         /\ Process(p, bars, i).fills = <<>>
         /\ \/ Process(p, bars, i).hits = {}
            \/ /\ i <= p.expiry /\ TradesAt(bars[i], p.side, p.rungs[1])
               /\ Process(p, bars, i).hits = {HitAt(p, p.name, p.rungs[1])}
<1> DEFINE met == TradesAt(bars[i], p.side, p.rungs[1])
<1> HIDE DEF met
<1>1. CASE met
  <2>1. CASE i <= p.expiry
    BY <1>1, <2>1 DEF Process, HitAt, met
  <2>2. CASE i > p.expiry
    BY <1>1, <2>2 DEF Process, HitAt, met
  <2> QED BY <2>1, <2>2
<1>2. CASE ~met
  BY <1>2 DEF Process, HitAt, met
<1> QED BY <1>1, <1>2

LEMMA ProcessReversal ==
  ASSUME NEW bars, NEW i \in Nat, NEW p, p.expiry \in Nat, p.kind \in {"reclaim", "confirm"}
  PROVE  /\ Process(p, bars, i).keep => i <= p.expiry
         /\ Process(p, bars, i).fills = <<>>
         /\ \/ Process(p, bars, i).hits = {}
            \/ /\ i <= p.expiry
               /\ Process(p, bars, i).hits = {HitAt(p, p.name, bars[i].c)}
<1>1. CASE p.kind = "reclaim"
  <2> DEFINE met == Reclaims(bars, i, p.side)
  <2>1. CASE met
    <3>1. CASE i <= p.expiry
      BY <1>1, <2>1, <3>1 DEF Process, HitAt
    <3>2. CASE i > p.expiry
      BY <1>1, <2>1, <3>2 DEF Process, HitAt
    <3> QED BY <3>1, <3>2
  <2>2. CASE ~met
    BY <1>1, <2>2 DEF Process, HitAt
  <2> QED BY <2>1, <2>2
<1>2. CASE p.kind = "confirm"
  <2> DEFINE met == Confirms(bars, i, p.side)
  <2>1. CASE met
    <3>1. CASE i <= p.expiry
      BY <1>2, <2>1, <3>1 DEF Process, HitAt
    <3>2. CASE i > p.expiry
      BY <1>2, <2>1, <3>2 DEF Process, HitAt
    <3> QED BY <3>1, <3>2
  <2>2. CASE ~met
    BY <1>2, <2>2 DEF Process, HitAt
  <2> QED BY <2>1, <2>2
<1> QED BY <1>1, <1>2

LEMMA ProcessLadder ==
  ASSUME NEW bars, NEW i \in Nat, NEW p, p.expiry \in Nat, i <= p.expiry, p.kind \in {"ladder", "bounce"},
         NEW got, got = Filled(p, bars[i])
  PROVE  /\ Process(p, bars, i).keep => Len(got) # 3 /\ i < p.expiry
         /\ Process(p, bars, i).fills = got
         /\ \/ Process(p, bars, i).hits = {}
            \/ p.kind = "ladder" /\ Process(p, bars, i).hits = {HitAt(p, p.name, Mean(got))}
            \/ /\ p.kind = "bounce" /\ got # <<>>
               /\ Process(p, bars, i).hits = {HitAt(p, BounceOnly[p.name], Mean(got)),
                                             HitAt(p, BounceCont[p.name], Mean(got))}
            \/ /\ p.kind = "bounce" /\ i >= p.expiry
               /\ Process(p, bars, i).hits = {HitAt(p, BounceCont[p.name], bars[i].c)}
<1> DEFINE met == Len(got) = 3 \/ i >= p.expiry
<1>1. CASE p.kind = "ladder"
  <2>1. CASE met
    BY <1>1, <2>1 DEF Process, HitAt
  <2>2. CASE ~met
    BY <1>1, <2>2 DEF Process
  <2> QED BY <2>1, <2>2
<1>2. CASE p.kind = "bounce"
  <2>1. CASE met
    <3>1. CASE got # <<>>
      BY <1>2, <2>1, <3>1 DEF Process, HitAt
    <3>2. CASE got = <<>>
      <4>1. Len(got) # 3
        BY <3>2
      <4>2. i >= p.expiry
        BY <2>1, <4>1
      <4> HIDE DEF met
      <4>3. met
        BY <2>1
      <4> QED BY <1>2, <3>2, <4>2, <4>3 DEF Process, HitAt, met
    <3> QED BY <3>1, <3>2
  <2>2. CASE ~met
    BY <1>2, <2>2 DEF Process
  <2> QED BY <2>1, <2>2
<1> QED BY <1>1, <1>2

\* What goes on waiting after another bar, with the rungs it has filled.
LEMMA KeptOK ==
  ASSUME NEW bars \in Seq(Candles), NEW i \in Nat, NEW p, PendingOK(p, bars, i - 1), NEW got \in Seq(Int),
         i <= p.expiry, Len(got) <= 3,
         p.kind \in {"ladder", "bounce"} => i < p.expiry /\ Len(p.fills) <= Len(got),
         p.kind \in {"ladder", "bounce"} => \A k \in 1..Len(got) : FillOK(p, bars, i, got[k])
  PROVE  PendingOK([p EXCEPT !.fills = got], bars, i)
<1> DEFINE new == [p EXCEPT !.fills = got]
<1>1. p \in Waiting
  BY DEF PendingOK
<1>2. new \in Waiting /\ p.fills \in Seq(Int) /\ p.from \in Nat
  BY <1>1 DEF Waiting
<1>4. /\ new.kind = p.kind /\ new.name = p.name /\ new.side = p.side /\ new.rungs = p.rungs
      /\ new.fills = got /\ new.from = p.from /\ new.expiry = p.expiry
  BY <1>1 DEF Waiting
<1> HIDE DEF new
<1>5. p.from \in 1..i
  BY DEF PendingOK
<1>6. p.kind = "ladder" => Len(got) >= 1
  <2>1. Len(p.fills) \in Nat /\ Len(got) \in Nat
    BY <1>2
  <2> QED BY <2>1 DEF PendingOK
<1>7. /\ \A paid : FillOK(new, bars, i, paid) <=> FillOK(p, bars, i, paid)
      /\ Nearest(new) = Nearest(p)
  BY <1>4 DEF FillOK, Nearest, Since
<1>8. PendingOK(new, bars, i)
  BY <1>2, <1>4, <1>5, <1>6, <1>7 DEF PendingOK
<1> QED BY <1>8 DEF new

\* What a bar makes of a pending: what it pushes is as it should be, and so is
\* what goes on waiting.
LEMMA ProcessOK ==
  ASSUME NEW bars \in Seq(Candles), NEW i \in Nat, i = Len(bars), NEW p, PendingOK(p, bars, i - 1)
  PROVE  /\ HitsAre(Process(p, bars, i).hits, bars, i)
         /\ Process(p, bars, i).keep =>
              PendingOK([p EXCEPT !.fills = Process(p, bars, i).fills], bars, i)
<1> DEFINE r == Process(p, bars, i)
           HitsOK == HitsAre(r.hits, bars, i)
           KeepOK == r.keep => PendingOK([p EXCEPT !.fills = r.fills], bars, i)
<1>1. /\ p \in Waiting /\ p.from \in 1..(i - 1) /\ i - 1 <= p.expiry /\ p.expiry = p.from + WindowOf(p.name)
      /\ p.from \in Nat /\ p.expiry \in Nat /\ p.side \in TradeSides /\ p.kind \in Kinds
      /\ p.rungs \in Seq(Int) /\ p.fills \in Seq(Int)
      /\ p.name \in SetupNames /\ p.name \in Variants[p.kind]
  BY DEF PendingOK, Waiting
<1>2. i >= 2 /\ bars[i] \in Candles /\ p.from \in 1..Len(bars)
  BY <1>1
<1>3. bars[i].c \in Int /\ \A name : WindowOf(name) \in Nat
  BY <1>2, WindowsAre, CandleNumbers
<1>4. p.kind \in {"limit", "reclaim", "confirm", "ladder", "bounce"}
  BY <1>1 DEF Kinds, Variants
<1>5. /\ p.kind = "limit" => p.name \in Limits
      /\ p.kind \in {"reclaim", "confirm"} => p.name \in Reversals
      /\ p.kind = "ladder" => p.name \in Laddered
      /\ p.kind = "bounce" => p.name \in {"S1", "S2"}
  BY <1>1 DEF Variants, Limits, InGaps, Reversals, Laddered
<1>6. \A name \in SetupNames, paid \in Int : HitAt(p, name, paid) \in Hits
  BY <1>1 DEF Hits, HitAt
<1>7. ASSUME i <= p.expiry, NEW name \in SetupNames, WindowOf(name) = WindowOf(p.name), NEW paid \in Int,
             PriceIsHonest(HitAt(p, name, paid), bars, i)
      PROVE  HitOK(HitAt(p, name, paid), bars, i)
  BY <1>1, <1>2, <1>3, <1>7 DEF HitOK, HitAt
<1>8. /\ HitsAre({}, bars, i)
      /\ \A a \in Hits : HitOK(a, bars, i) => HitsAre({a}, bars, i)
      /\ \A a, b \in Hits : HitOK(a, bars, i) /\ HitOK(b, bars, i) => HitsAre({a, b}, bars, i)
  <2>1. ASSUME NEW a, NEW b PROVE IsFiniteSet({a, b})
    <3>1. IsFiniteSet({a}) /\ IsFiniteSet({b}) /\ {a, b} = {a} \cup {b}
      BY FS_Singleton
    <3> QED BY <3>1, FS_Union
  <2> QED BY <2>1, FS_EmptySet, FS_Singleton DEF HitsAre
<1>9. <<>> \in Seq(Int) /\ Len(<<>>) <= 3
  OBVIOUS
<1>13. p.expiry \in Nat
  BY <1>1
<1>14. \A name, paid : LET s == HitAt(p, name, paid)
                       IN  s.name = name /\ s.side = p.side /\ s.entry = paid /\ s.from = p.from
  BY DEF HitAt
<1>10. CASE p.kind = "limit"
  <2>1. /\ r.keep => i <= p.expiry
        /\ r.fills = <<>>
        /\ r.hits = {} \/ /\ i <= p.expiry /\ TradesAt(bars[i], p.side, p.rungs[1])
                          /\ r.hits = {HitAt(p, p.name, p.rungs[1])}
    BY <1>13, <1>10, ProcessLimit
  <2>2. /\ p.rungs[1] \in Int
        /\ p.name = "MR8_e_retrace" => PulledBack(bars, p.from, p.side, 0, p.rungs[1])
        /\ p.name \in InGaps => InGap(bars, p.from, p.side, p.rungs[1])
    BY <1>1, <1>10 DEF PendingOK
  <2> HIDE DEF r
  <2>3. TradesAt(bars[i], p.side, p.rungs[1]) => PriceIsHonest(HitAt(p, p.name, p.rungs[1]), bars, i)
    BY <1>5, <1>10, <1>14, <2>2, HonestLimit
  <2>4. i <= p.expiry /\ TradesAt(bars[i], p.side, p.rungs[1]) =>
          HitAt(p, p.name, p.rungs[1]) \in Hits /\ HitOK(HitAt(p, p.name, p.rungs[1]), bars, i)
    BY <1>1, <1>6, <1>7, <2>2, <2>3
  <2>5. HitsOK
    BY <1>8, <2>1, <2>4
  <2>6. KeepOK
    BY <1>9, <1>10, <2>1, KeptOK
  <2> QED BY <2>5, <2>6 DEF r
<1>11. CASE p.kind \in {"reclaim", "confirm"}
  <2>1. /\ r.keep => i <= p.expiry
        /\ r.fills = <<>>
        /\ r.hits = {} \/ (i <= p.expiry /\ r.hits = {HitAt(p, p.name, bars[i].c)})
    BY <1>13, <1>11, ProcessReversal, ZenonT(20)
  <2>2. PriceIsHonest(HitAt(p, p.name, bars[i].c), bars, i)
    BY <1>5, <1>11, <1>14, HonestAtClose
  <2> HIDE DEF r
  <2>3. i <= p.expiry => HitAt(p, p.name, bars[i].c) \in Hits /\ HitOK(HitAt(p, p.name, bars[i].c), bars, i)
    BY <1>1, <1>3, <1>6, <1>7, <2>2
  <2>4. HitsOK
    BY <1>8, <2>1, <2>3
  <2>5. KeepOK
    BY <1>9, <1>11, <2>1, KeptOK
  <2> QED BY <2>4, <2>5 DEF r
<1>12. CASE p.kind \in {"ladder", "bounce"}
  <2> DEFINE got == Filled(p, bars[i])
             mean == Mean(got)
  <2>1. /\ got \in Seq(Int) /\ Len(p.fills) <= Len(got) /\ Len(got) <= 3
        /\ \A k \in 1..Len(got) : FillOK(p, bars, i, got[k])
    BY <1>12, FilledOK
  <2>2. i - 1 < p.expiry /\ Len(p.fills) \in Nat
    BY <1>1, <1>12 DEF PendingOK
  <2>3. i <= p.expiry
    BY <1>1, <2>2
  <2>0. got = Filled(p, bars[i])
    OBVIOUS
  <2> HIDE DEF got, mean
  <2>4. /\ r.keep => Len(got) # 3 /\ i < p.expiry
        /\ r.fills = got
        /\ \/ r.hits = {}
           \/ p.kind = "ladder" /\ r.hits = {HitAt(p, p.name, mean)}
           \/ /\ p.kind = "bounce" /\ got # <<>>
              /\ r.hits = {HitAt(p, BounceOnly[p.name], mean), HitAt(p, BounceCont[p.name], mean)}
           \/ p.kind = "bounce" /\ i >= p.expiry /\ r.hits = {HitAt(p, BounceCont[p.name], bars[i].c)}
    BY <1>13, <1>12, <2>0, <2>3, ProcessLadder DEF mean
  <2> HIDE DEF r
  <2>5. Len(got) \in Nat
    BY <2>1
  <2>6. Len(got) >= 1 => Len(got) \in 1..3
    <3>1. \A m \in Nat : m >= 1 /\ m <= 3 => m \in 1..3
      OBVIOUS
    <3> QED BY <2>1, <2>5, <3>1
  <2>7. Len(got) >= 1 => mean \in Int /\ FillOK(p, bars, i, mean)
    <3>1. i \in 1..Len(bars)
      BY <1>2
    <3> QED BY <2>1, <2>6, <3>1, LadderMean DEF mean
  <2>8. got # <<>> => Len(got) >= 1
    BY <2>1, <2>5
  <2>9. p.kind = "ladder" => HitsOK
    <3>1. SUFFICES ASSUME p.kind = "ladder" PROVE HitsOK
      OBVIOUS
    <3>2. Len(got) >= 1
      <4>1. Len(p.fills) >= 1
        BY <3>1 DEF PendingOK
      <4> QED BY <2>1, <2>2, <2>5, <4>1
    <3>3. PulledBack(bars, p.from, p.side, 0, mean) /\ TradedAt(bars, p.from, i, p.side, mean)
      BY <2>7, <3>1, <3>2, NearestIs DEF FillOK
    <3>4. PriceIsHonest(HitAt(p, p.name, mean), bars, i)
      BY <1>5, <1>14, <3>1, <3>3, HonestLadder
    <3>5. HitAt(p, p.name, mean) \in Hits /\ HitOK(HitAt(p, p.name, mean), bars, i)
      BY <1>1, <1>6, <1>7, <2>3, <2>7, <3>2, <3>4
    <3>6. r.hits = {} \/ r.hits = {HitAt(p, p.name, mean)}
      BY <2>4, <3>1
    <3> QED BY <1>8, <3>5, <3>6
  <2>10. p.kind = "bounce" => HitsOK
    <3>1. SUFFICES ASSUME p.kind = "bounce" PROVE HitsOK
      OBVIOUS
    <3>2. p.name \in {"S1", "S2"}
      BY <1>5, <3>1
    <3> DEFINE only == BounceOnly[p.name]
               cont == BounceCont[p.name]
    <3>3. only \in BounceFills /\ cont \in BounceConts
      BY <3>2 DEF BounceOnly, BounceCont, BounceFills, BounceConts
    <3> HIDE DEF only, cont
    <3>4. /\ only \in SetupNames /\ cont \in SetupNames
          /\ WindowOf(only) = WindowOf(p.name) /\ WindowOf(cont) = WindowOf(p.name) /\ WindowOf(p.name) = Window
      <4>1. \A name \in BounceFills \cup BounceConts : name \in SetupNames
        BY DEF SetupNames, BounceFills, BounceConts
      <4> QED BY <3>2, <3>3, <4>1, WindowsAre
    <3>5. \A name \in {only, cont} : Len(got) >= 1 => PriceIsHonest(HitAt(p, name, mean), bars, i)
      <4>1. SUFFICES ASSUME NEW name \in {only, cont}, Len(got) >= 1
                     PROVE  PriceIsHonest(HitAt(p, name, mean), bars, i)
        OBVIOUS
      <4>2. /\ PulledBack(bars, p.from, p.side, Range1 \div 3, mean)
            /\ TradedAt(bars, p.from + 1, i, p.side, mean)
        BY <2>7, <3>1, <4>1 DEF FillOK, Nearest, Since
      <4> DEFINE s == HitAt(p, name, mean)
      <4>3. s.name = name /\ s.side = p.side /\ s.entry = mean /\ s.from = p.from
        BY <1>14
      <4> HIDE DEF s
      <4>4. BounceFilled(s, bars, i)
        BY <4>2, <4>3 DEF BounceFilled
      <4>5. s.name \in BounceFills \cup BounceConts
        BY <3>3, <4>3
      <4>6. PriceIsHonest(s, bars, i)
        BY <4>4, <4>5, HonestBounce
      <4> QED BY <4>6 DEF s
    <3>6. i >= p.expiry => PriceIsHonest(HitAt(p, cont, bars[i].c), bars, i)
      <4>1. SUFFICES ASSUME i >= p.expiry PROVE PriceIsHonest(HitAt(p, cont, bars[i].c), bars, i)
        OBVIOUS
      <4>2. i = p.from + Window
        BY <1>1, <1>13, <2>3, <3>4, <4>1
      <4> QED BY <1>14, <3>3, <4>2, HonestBounce
    <3>7. \A name \in {only, cont} : Len(got) >= 1 => HitAt(p, name, mean) \in Hits /\ HitOK(HitAt(p, name, mean), bars, i)
      BY <1>6, <1>7, <2>3, <2>7, <3>4, <3>5
    <3>8. i >= p.expiry => HitAt(p, cont, bars[i].c) \in Hits /\ HitOK(HitAt(p, cont, bars[i].c), bars, i)
      BY <1>3, <1>6, <1>7, <2>3, <3>4, <3>6
    <3>9. \/ r.hits = {}
          \/ Len(got) >= 1 /\ r.hits = {HitAt(p, only, mean), HitAt(p, cont, mean)}
          \/ i >= p.expiry /\ r.hits = {HitAt(p, cont, bars[i].c)}
      BY <2>4, <2>8, <3>1 DEF only, cont
    <3> QED BY <1>8, <3>7, <3>8, <3>9
  <2>11. HitsOK
    BY <1>12, <2>9, <2>10
  <2>12. KeepOK
    <3>1. r.keep => PendingOK([p EXCEPT !.fills = got], bars, i)
      BY <1>12, <2>1, <2>2, <2>3, <2>4, KeptOK
    <3> QED BY <2>4, <3>1
  <2> QED BY <2>11, <2>12 DEF r
<1> QED BY <1>4, <1>10, <1>11, <1>12

\* The walk so far: what is kept and what was pushed.
WalkOK(acc, bars, i) ==
  /\ acc = [kept |-> acc.kept, pushed |-> acc.pushed]
  /\ PendingsOK(acc.kept, bars, i) /\ SignalsOK(acc.pushed, bars)

\* One pending more.
LEMMA ProcessedOK ==
  ASSUME NEW bars \in Seq(Candles), NEW i \in Nat, i = Len(bars), NEW p, PendingOK(p, bars, i - 1),
         NEW acc, WalkOK(acc, bars, i)
  PROVE  WalkOK(Processed(acc, p, bars, i), bars, i)
<1> DEFINE r == Process(p, bars, i)
           new == [p EXCEPT !.fills = r.fills]
           kept == IF r.keep THEN Append(acc.kept, new) ELSE acc.kept
           pushed == PushAll(acc.pushed, r.hits, i)
<1>1. HitsAre(r.hits, bars, i) /\ (r.keep => PendingOK(new, bars, i))
  BY ProcessOK
<1>2. Processed(acc, p, bars, i) = [kept |-> kept, pushed |-> pushed]
  BY DEF Processed
<1> HIDE DEF r, new
<1>3. SignalsOK(pushed, bars)
  BY <1>1, PushAllOK DEF HitsAre, WalkOK
<1>4. PendingsOK(kept, bars, i)
  <2>1. CASE ~r.keep
    BY <2>1 DEF WalkOK
  <2>2. CASE r.keep
    <3>1. new \in Waiting
      BY <1>1, <2>2 DEF PendingOK
    <3>2. acc.kept \in Seq(Waiting) /\ \A k \in 1..Len(acc.kept) : PendingOK(acc.kept[k], bars, i)
      BY DEF WalkOK, PendingsOK
    <3>3. \A k \in 1..Len(kept) : kept[k] = new \/ (k \in 1..Len(acc.kept) /\ kept[k] = acc.kept[k])
      BY <2>2, <3>1, <3>2
    <3>4. kept \in Seq(Waiting)
      BY <2>2, <3>1, <3>2
    <3> HIDE DEF kept
    <3> QED BY <1>1, <2>2, <3>2, <3>3, <3>4 DEF PendingsOK
  <2> QED BY <2>1, <2>2
<1> HIDE DEF kept, pushed
<1> QED BY <1>2, <1>3, <1>4 DEF WalkOK

\* All of them.
LEMMA ProcessAllOK ==
  ASSUME NEW bars \in Seq(Candles), NEW i \in Nat, i = Len(bars), NEW pushed, SignalsOK(pushed, bars),
         NEW waiting, PendingsOK(waiting, bars, i - 1)
  PROVE  WalkOK(ProcessAll(waiting, bars, i, pushed), bars, i)
<1> DEFINE S == 1..Len(waiting)
           V == {acc \in [kept : Seq(Waiting), pushed : SUBSET Signals] : WalkOK(acc, bars, i)}
           base == [kept |-> <<>>, pushed |-> pushed]
           pick == [s \in SUBSET S |-> Max(s)]
           step == [k \in S |-> [v \in V |-> Processed(v, waiting[k], bars, i)]]
           IsIter(h) == h = [s \in SUBSET S |-> IF s = {} THEN base
                                                ELSE LET x == Max(s) IN Processed(h[s \ {x}], waiting[x], bars, i)]
           iter == CHOOSE h : IsIter(h)
<1>0. IsFiniteSet(S) /\ DOMAIN waiting = S
  <2>1. waiting \in Seq(Waiting)
    BY DEF PendingsOK
  <2>2. Len(waiting) \in Int /\ 1 \in Int
    BY <2>1
  <2>3. IsFiniteSet(S)
    BY <2>2, FS_Interval
  <2> QED BY <2>1, <2>3
<1>1. \A s \in SUBSET S : s # {} => Max(s) \in s
  <2>1. Len(waiting) \in Nat
    BY DEF PendingsOK
  <2> QED BY <2>1, MaxIsOne
<1>2. base \in V
  <2>1. PendingsOK(<<>>, bars, i)
    BY DEF PendingsOK
  <2> QED BY <2>1 DEF WalkOK, PendingsOK, SignalsOK
<1>3. \A k \in S : \A v \in V : Processed(v, waiting[k], bars, i) \in V
  <2>1. SUFFICES ASSUME NEW k \in S, NEW v \in V PROVE Processed(v, waiting[k], bars, i) \in V
    OBVIOUS
  <2>2. PendingOK(waiting[k], bars, i - 1)
    BY DEF PendingsOK
  <2>3. WalkOK(Processed(v, waiting[k], bars, i), bars, i)
    BY <2>2, ProcessedOK
  <2> DEFINE acc == Processed(v, waiting[k], bars, i)
  <2> HIDE DEF acc
  <2>4. acc = [kept |-> acc.kept, pushed |-> acc.pushed] /\ acc.kept \in Seq(Waiting) /\ acc.pushed \in SUBSET Signals
    BY <2>3 DEF WalkOK, PendingsOK, SignalsOK, acc
  <2> QED BY <2>3, <2>4 DEF acc
<1>4. \A k \in S : \A v \in V : step[k][v] \in V
  BY <1>3
<1> HIDE DEF V, base
<1>5. PICK h \in [SUBSET S -> V] : Folds(h, S, base, step, pick)
  <2>1. \A s \in SUBSET S : s # {} => pick[s] \in s
    BY <1>1
  <2> HIDE DEF step, pick, S
  <2> QED BY <1>0, <1>2, <1>4, <2>1, FoldExists
<1>6. IsIter(h)
  <2>1. ASSUME NEW s \in SUBSET S, s # {}
        PROVE  h[s] = Processed(h[s \ {Max(s)}], waiting[Max(s)], bars, i)
    <3>1. h[s] = step[pick[s]][h[s \ {pick[s]}]]
      BY <1>5, <2>1 DEF Folds
    <3>2. pick[s] = Max(s) /\ Max(s) \in S /\ h[s \ {Max(s)}] \in V
      BY <1>1, <1>5, <2>1
    <3> HIDE DEF pick, S
    <3> QED BY <3>1, <3>2
  <2>2. h[{}] = base
    BY <1>5 DEF Folds
  <2> QED BY <1>5, <2>1, <2>2
<1>7. IsIter(iter)
  BY <1>6
<1>8. ProcessAll(waiting, bars, i, pushed) = iter[S]
  BY <1>0 DEF ProcessAll, FoldLeft, MapThenFoldSet, base
<1> DEFINE P == {s \in SUBSET S : iter[s] \in V}
<1>9. Inherits(P, S)
  <2>1. {} \in P
    BY <1>2, <1>7
  <2>2. ASSUME NEW s \in SUBSET S, s # {}, \A x \in s : s \ {x} \in P
        PROVE  s \in P
    <3> DEFINE x == Max(s)
    <3>1. x \in s
      BY <1>1, <2>2
    <3>2. iter[s] = Processed(iter[s \ {x}], waiting[x], bars, i)
      BY <1>7, <2>2
    <3> HIDE DEF x, iter, S
    <3>3. x \in S /\ iter[s \ {x}] \in V
      BY <2>2, <3>1
    <3>4. Processed(iter[s \ {x}], waiting[x], bars, i) \in V
      BY <1>3, <3>3
    <3> QED BY <2>2, <3>2, <3>4
  <2> HIDE DEF P
  <2>3. P \subseteq SUBSET S
    BY DEF P
  <2> QED BY <2>1, <2>2, <2>3 DEF Inherits
<1>10. S \in P
  <2> HIDE DEF P
  <2> QED BY <1>0, <1>9, SubsetInduction
<1> QED BY <1>8, <1>10 DEF V

-----------------------------------------------------------------------------
(* What a bar registers                                                     *)

LEMMA PendingIsOK ==
  ASSUME NEW bars, NEW i \in Nat \ {0}, NEW kind \in Kinds, NEW name \in SetupNames, name \in Variants[kind],
         NEW side \in TradeSides, NEW rungs \in Seq(Int), NEW fills \in Seq(Int), NEW life,
         life = WindowOf(name), Len(fills) <= 3, NEW least, least = IF kind = "bounce" THEN Range1 \div 3 ELSE 0,
         kind \in {"ladder", "bounce"} =>
           /\ Len(rungs) = 3 /\ \A k \in 1..3 : PulledBack(bars, i, side, least, rungs[k])
           /\ \A k \in 1..Len(fills) : kind = "ladder" /\ PulledBack(bars, i, side, 0, fills[k])
                                                       /\ TradesAt(bars[i], side, fills[k]),
         kind = "ladder" => Len(fills) >= 1,
         kind = "limit" => /\ Len(rungs) = 1
                           /\ name = "MR8_e_retrace" => PulledBack(bars, i, side, 0, rungs[1])
                           /\ name \in InGaps => InGap(bars, i, side, rungs[1])
  PROVE  PendingOK(Pending(kind, name, side, rungs, fills, i, life), bars, i)
<1> DEFINE p == Pending(kind, name, side, rungs, fills, i, life)
<1>3. life \in Nat \ {0}
  BY WindowsAre
<1>1. p \in Waiting
  BY <1>3 DEF Pending, Waiting
<1>2. /\ p.kind = kind /\ p.name = name /\ p.side = side /\ p.rungs = rungs
      /\ p.fills = fills /\ p.from = i /\ p.expiry = i + life
  BY DEF Pending
<1> HIDE DEF p
<1>4. p.from \in 1..i /\ i < p.expiry /\ i <= p.expiry /\ p.expiry = p.from + WindowOf(p.name)
  BY <1>2, <1>3
<1>5. least = Nearest(p)
  BY <1>2 DEF Nearest
<1>6. ASSUME p.kind \in {"ladder", "bounce"}, NEW k \in 1..Len(p.fills) PROVE FillOK(p, bars, i, p.fills[k])
  <2>1. kind = "ladder" /\ PulledBack(bars, i, side, 0, fills[k]) /\ TradesAt(bars[i], side, fills[k])
    BY <1>2, <1>6
  <2>2. Nearest(p) = 0 /\ Since(p) = i
    BY <1>2, <2>1 DEF Nearest, Since
  <2>3. i \in Since(p)..i
    BY <2>2
  <2> QED BY <1>2, <2>1, <2>2, <2>3 DEF FillOK, TradedAt
<1>7. PendingOK(p, bars, i)
  BY <1>1, <1>2, <1>4, <1>5, <1>6 DEF PendingOK
<1> QED BY <1>7 DEF p

\* By kind.
LEMMA LimitIsOK ==
  ASSUME NEW bars, NEW i \in Nat \ {0}, NEW name \in Limits, NEW side \in TradeSides, NEW paid \in Int,
         NEW life, life = WindowOf(name),
         name = "MR8_e_retrace" => PulledBack(bars, i, side, 0, paid),
         name \in InGaps => InGap(bars, i, side, paid)
  PROVE  PendingOK(Pending("limit", name, side, <<paid>>, <<>>, i, life), bars, i)
<1> DEFINE rungs == <<paid>>
<1>1. rungs \in Seq(Int) /\ Len(rungs) = 1 /\ rungs[1] = paid
  OBVIOUS
<1>2. <<>> \in Seq(Int) /\ Len(<<>>) <= 3
  OBVIOUS
<1>3. "limit" \in Kinds /\ name \in Variants["limit"] /\ name \in SetupNames
  BY DEF Kinds, Variants, Limits, InGaps, SetupNames
<1> HIDE DEF rungs
<1>4. PendingOK(Pending("limit", name, side, rungs, <<>>, i, life), bars, i)
  BY <1>1, <1>2, <1>3, PendingIsOK
<1> QED BY <1>4 DEF rungs

LEMMA ReversalIsOK ==
  ASSUME NEW bars, NEW i \in Nat \ {0}, NEW kind \in {"reclaim", "confirm"}, NEW name \in Variants[kind],
         NEW side \in TradeSides, NEW life, life = WindowOf(name)
  PROVE  PendingOK(Pending(kind, name, side, <<>>, <<>>, i, life), bars, i)
<1>1. <<>> \in Seq(Int) /\ Len(<<>>) <= 3
  OBVIOUS
<1>2. kind \in Kinds /\ name \in SetupNames
  BY DEF Kinds, Variants, SetupNames
<1> QED BY <1>1, <1>2, PendingIsOK

LEMMA LadderIsOK ==
  ASSUME NEW bars, NEW i \in Nat \ {0}, NEW name \in Variants["ladder"], NEW side \in TradeSides,
         NEW px \in Int, NEW rungs \in Seq(Int), NEW life, life = WindowOf(name),
         Len(rungs) = 3, PulledBack(bars, i, side, 0, px), TradesAt(bars[i], side, px),
         \A k \in 1..3 : PulledBack(bars, i, side, 0, rungs[k])
  PROVE  PendingOK(Pending("ladder", name, side, rungs, <<px>>, i, life), bars, i)
<1> DEFINE fills == <<px>>
<1>1. fills \in Seq(Int) /\ Len(fills) = 1 /\ \A k \in 1..Len(fills) : fills[k] = px
  OBVIOUS
<1>2. "ladder" \in Kinds /\ name \in SetupNames
  BY DEF Kinds, Variants, SetupNames
<1> HIDE DEF fills
<1>3. /\ Len(fills) <= 3 /\ Len(fills) >= 1
      /\ \A k \in 1..Len(fills) : PulledBack(bars, i, side, 0, fills[k]) /\ TradesAt(bars[i], side, fills[k])
  BY <1>1
<1>4. PendingOK(Pending("ladder", name, side, rungs, fills, i, life), bars, i)
  BY <1>1, <1>2, <1>3, PendingIsOK
<1> QED BY <1>4 DEF fills

LEMMA BounceIsOK ==
  ASSUME NEW bars, NEW i \in Nat \ {0}, NEW name \in Variants["bounce"], NEW side \in TradeSides,
         NEW rungs \in Seq(Int), Len(rungs) = 3, NEW life, life = WindowOf(name),
         \A k \in 1..3 : PulledBack(bars, i, side, Range1 \div 3, rungs[k])
  PROVE  PendingOK(Pending("bounce", name, side, rungs, <<>>, i, life), bars, i)
<1>1. <<>> \in Seq(Int) /\ Len(<<>>) <= 3
  OBVIOUS
<1>2. "bounce" \in Kinds /\ name \in SetupNames
  BY DEF Kinds, Variants, SetupNames
<1>3. 1..Len(<<>>) = {}
  OBVIOUS
<1> QED BY <1>1, <1>2, <1>3, PendingIsOK

LEMMA JoinOK ==
  ASSUME NEW bars, NEW i, NEW a, NEW b, PendingsOK(a, bars, i), PendingsOK(b, bars, i)
  PROVE  PendingsOK(a \o b, bars, i)
<1>1. a \in Seq(Waiting) /\ b \in Seq(Waiting)
  BY DEF PendingsOK
<1>2. ASSUME NEW k \in 1..Len(a \o b) PROVE PendingOK((a \o b)[k], bars, i)
  <2>1. CASE k <= Len(a)
    <3>1. k \in 1..Len(a) /\ (a \o b)[k] = a[k]
      BY <1>1, <2>1
    <3> QED BY <3>1 DEF PendingsOK
  <2>2. CASE ~(k <= Len(a))
    <3>1. k - Len(a) \in 1..Len(b) /\ (a \o b)[k] = b[k - Len(a)]
      BY <1>1, <2>2
    <3> QED BY <3>1 DEF PendingsOK
  <2> QED BY <2>1, <2>2
<1>3. a \o b \in Seq(Waiting)
  BY <1>1
<1> QED BY <1>2, <1>3 DEF PendingsOK

LEMMA ShortLists ==
  ASSUME NEW bars, NEW i
  PROVE  /\ PendingsOK(<<>>, bars, i)
         /\ \A a : PendingOK(a, bars, i) => PendingsOK(<<a>>, bars, i)
         /\ \A a, b : PendingOK(a, bars, i) /\ PendingOK(b, bars, i) => PendingsOK(<<a, b>>, bars, i)
<1>1. PendingsOK(<<>>, bars, i)
  BY DEF PendingsOK
<1>2. ASSUME NEW a, PendingOK(a, bars, i) PROVE PendingsOK(<<a>>, bars, i)
  <2>1. a \in Waiting
    BY <1>2 DEF PendingOK
  <2>2. <<a>> \in Seq(Waiting) /\ \A k \in 1..Len(<<a>>) : <<a>>[k] = a
    BY <2>1
  <2> QED BY <1>2, <2>2 DEF PendingsOK
<1>3. ASSUME NEW a, NEW b, PendingOK(a, bars, i), PendingOK(b, bars, i) PROVE PendingsOK(<<a, b>>, bars, i)
  <2>1. a \in Waiting /\ b \in Waiting
    BY <1>3 DEF PendingOK
  <2>2. <<a, b>> \in Seq(Waiting) /\ \A k \in 1..Len(<<a, b>>) : <<a, b>>[k] = a \/ <<a, b>>[k] = b
    BY <2>1
  <2> QED BY <1>3, <2>2 DEF PendingsOK
<1> QED BY <1>1, <1>2, <1>3

\* The rungs lie between the price of the signal and a range from it, those
\* of a bounce no nearer than a third of one.
LEMMA RungsOK ==
  ASSUME NEW bars \in Seq(Candles), NEW i \in 1..Len(bars), NEW side \in TradeSides,
         NEW a \in {0, 4}, NEW b \in {6, 8}, NEW least, least = IF a = 4 THEN Range1 \div 3 ELSE 0
  PROVE  LET rungs == Rungs(bars[i].c, side, a, b, 12)
         IN  /\ rungs \in Seq(Int) /\ Len(rungs) = 3
             /\ \A k \in 1..3 : rungs[k] \in Int /\ PulledBack(bars, i, side, least, rungs[k])
             /\ PulledBack(bars, i, side, 0, bars[i].c) /\ TradesAt(bars[i], side, bars[i].c) /\ bars[i].c \in Int
<1> DEFINE px == bars[i].c
           priceAt(twelfths) == px + Beyond(side) * ((Range1 * twelfths) \div 12)
<1>1. px \in Int /\ Range1 \in Nat /\ bars[i].l \in Int /\ bars[i].h \in Int /\ bars[i].l <= px /\ px <= bars[i].h
  BY CandleNumbers, BackTestAssumption
<1>0. TradesAt(bars[i], side, px)
  BY <1>1 DEF TradesAt
<1> HIDE DEF px
<1>2. /\ (Range1 * a) \div 12 \in least..Range1 /\ (Range1 * b) \div 12 \in least..Range1
      /\ (Range1 * 12) \div 12 \in least..Range1 /\ least \in Nat
  BY <1>1
<1>3. Beyond(side) \in {-1, 1}
  BY DEF Beyond
<1>4. ASSUME NEW t \in {a, b, 12} PROVE priceAt(t) \in Int /\ PulledBack(bars, i, side, least, priceAt(t))
  <2> DEFINE q == (Range1 * t) \div 12
  <2>1. q \in least..Range1
    BY <1>2
  <2> HIDE DEF q
  <2>2. px + Beyond(side) * q \in Int /\ ((px + Beyond(side) * q) - px) * Beyond(side) = q
    <3>0. q \in Int
      BY <1>1, <1>2, <2>1
    <3>1. CASE Beyond(side) = 1
      BY <1>1, <3>0, <3>1
    <3>2. CASE Beyond(side) = -1
      BY <1>1, <3>0, <3>2
    <3> QED BY <1>3, <3>1, <3>2
  <2> QED BY <2>1, <2>2 DEF q, PulledBack, px
<1> DEFINE rungs == Rungs(px, side, a, b, 12)
<1>6. rungs = <<priceAt(a), priceAt(b), priceAt(12)>>
  BY DEF Rungs
<1> HIDE DEF priceAt
<1>7. PulledBack(bars, i, side, 0, px)
  <2>1. (px - px) * Beyond(side) \in 0..Range1
    BY <1>1, <1>3
  <2> QED BY <2>1 DEF PulledBack, px
<1>8. /\ priceAt(a) \in Int /\ priceAt(b) \in Int /\ priceAt(12) \in Int
      /\ PulledBack(bars, i, side, least, priceAt(a)) /\ PulledBack(bars, i, side, least, priceAt(b))
      /\ PulledBack(bars, i, side, least, priceAt(12))
  BY <1>4
<1> HIDE DEF rungs
<1>9. rungs \in Seq(Int) /\ Len(rungs) = 3
  BY <1>6, <1>8
<1>10. \A k \in 1..3 : rungs[k] \in Int /\ PulledBack(bars, i, side, least, rungs[k])
  <2>1. \A k \in 1..3 : rungs[k] = priceAt(a) \/ rungs[k] = priceAt(b) \/ rungs[k] = priceAt(12)
    BY <1>6
  <2> QED BY <1>8, <2>1
<1> QED BY <1>0, <1>1, <1>7, <1>9, <1>10 DEF px, rungs

LEMMA FadePendingsOK ==
  ASSUME NEW bars \in Seq(Candles), NEW i \in 1..Len(bars)
  PROVE  PendingsOK(FadePendings(bars[i], i), bars, i)
<1> DEFINE side == FadeSide(bars[i])
           px == bars[i].c
           rungs == Rungs(px, side, 0, 6, 12)
<1>1. side \in TradeSides \cup {"none"}
  BY DEF FadeSide, TradeSides
<1>2. CASE side = "none"
  BY <1>2, ShortLists DEF FadePendings
<1>3. CASE side # "none"
  <2>1. side \in TradeSides
    BY <1>1, <1>3
  <2> DEFINE retrace == Pending("limit", "MR8_e_retrace", side, <<rungs[2]>>, <<>>, i, Window)
             reclaim == Pending("reclaim", "MR8_e_reclaim", side, <<>>, <<>>, i, ReclaimWindow)
             confirm == Pending("confirm", "MR8_e_confirm", side, <<>>, <<>>, i, Window)
             ladder  == Pending("ladder", "MR8_laddered", side, rungs, <<px>>, i, Window)
  <2>2. FadePendings(bars[i], i) = <<retrace, reclaim, confirm, ladder>>
    BY <1>3 DEF FadePendings
  <2> HIDE DEF side
  <2>3. /\ rungs \in Seq(Int) /\ Len(rungs) = 3
        /\ \A k \in 1..3 : rungs[k] \in Int /\ PulledBack(bars, i, side, 0, rungs[k])
        /\ PulledBack(bars, i, side, 0, px) /\ TradesAt(bars[i], side, px) /\ px \in Int
    <3> HIDE DEF retrace, reclaim, confirm, ladder
    <3>1. 0 \in {0, 4} /\ 6 \in {6, 8} /\ 0 = IF 0 = 4 THEN Range1 \div 3 ELSE 0
      OBVIOUS
    <3> QED BY <2>1, <3>1, RungsOK
  <2> HIDE DEF rungs, px
  <2>4. rungs[2] \in Int /\ PulledBack(bars, i, side, 0, rungs[2])
    <3>1. 2 \in 1..3
      OBVIOUS
    <3> QED BY <2>3, <3>1
  <2>5. i \in Nat \ {0}
    OBVIOUS
  <2>6. /\ "MR8_e_retrace" \in Limits /\ "MR8_e_reclaim" \in Variants["reclaim"]
        /\ "MR8_e_confirm" \in Variants["confirm"] /\ "MR8_laddered" \in Variants["ladder"]
        /\ "MR8_e_retrace" \notin InGaps
    BY DEF Limits, InGaps, Variants
  <2>7. /\ Window = WindowOf("MR8_e_retrace") /\ ReclaimWindow = WindowOf("MR8_e_reclaim")
        /\ Window = WindowOf("MR8_e_confirm") /\ Window = WindowOf("MR8_laddered")
    BY DEF WindowOf
  <2>8. PendingOK(retrace, bars, i)
    BY <2>1, <2>4, <2>5, <2>6, <2>7, LimitIsOK
  <2>9. PendingOK(reclaim, bars, i)
    BY <2>1, <2>5, <2>6, <2>7, ReversalIsOK
  <2>10. PendingOK(confirm, bars, i)
    BY <2>1, <2>5, <2>6, <2>7, ReversalIsOK
  <2>11. PendingOK(ladder, bars, i)
    BY <2>1, <2>3, <2>5, <2>6, <2>7, LadderIsOK
  <2> HIDE DEF retrace, reclaim, confirm, ladder
  <2>12. <<retrace, reclaim, confirm, ladder>> \in Seq(Waiting)
    <3>1. retrace \in Waiting /\ reclaim \in Waiting /\ confirm \in Waiting /\ ladder \in Waiting
      BY <2>8, <2>9, <2>10, <2>11 DEF PendingOK
    <3> QED BY <3>1
  <2> DEFINE all == <<retrace, reclaim, confirm, ladder>>
  <2>13. \A k \in 1..Len(all) : all[k] \in {retrace, reclaim, confirm, ladder}
    OBVIOUS
  <2>14. PendingsOK(all, bars, i)
    <3> HIDE DEF all
    <3> QED BY <2>8, <2>9, <2>10, <2>11, <2>12, <2>13 DEF PendingsOK, all
  <2> QED BY <2>2, <2>14
<1> QED BY <1>2, <1>3

LEMMA TrendPendingsOK ==
  ASSUME NEW bars \in Seq(Candles), NEW i \in 1..Len(bars)
  PROVE  PendingsOK(TrendPendings(bars[i], i), bars, i)
<1> DEFINE px == bars[i].c
           ladder(name) == Pending("ladder", name, "short", Rungs(px, "short", 0, 6, 12), <<px>>, i, Window)
           bounce(base) == Pending("bounce", base, "short", Rungs(px, "short", 4, 8, 12), <<>>, i, Window)
           s1 == IF bars[i].bear /\ bars[i].db = "bear" THEN <<ladder("S1_MTF_laddered"), bounce("S1")>> ELSE <<>>
           s2 == IF bars[i].bear THEN <<ladder("S2_laddered"), bounce("S2")>> ELSE <<>>
<1>0. "short" \in TradeSides /\ i \in Nat \ {0}
  BY DEF TradeSides
<1>1. ASSUME NEW name \in {"S1_MTF_laddered", "S2_laddered"} PROVE PendingOK(ladder(name), bars, i)
  <2> DEFINE rungs == Rungs(px, "short", 0, 6, 12)
  <2>1. rungs \in Seq(Int) /\ Len(rungs) = 3 /\ (\A k \in 1..3 : PulledBack(bars, i, "short", 0, rungs[k]))
        /\ PulledBack(bars, i, "short", 0, px) /\ TradesAt(bars[i], "short", px) /\ px \in Int
    <3>1. 0 \in {0, 4} /\ 6 \in {6, 8} /\ 0 = IF 0 = 4 THEN Range1 \div 3 ELSE 0
      OBVIOUS
    <3> QED BY <1>0, <3>1, RungsOK
  <2>2. name \in Variants["ladder"] /\ Window = WindowOf(name)
    BY <1>1, WindowsAre DEF Variants, Laddered
  <2> HIDE DEF rungs, px
  <2>3. PendingOK(Pending("ladder", name, "short", rungs, <<px>>, i, Window), bars, i)
    BY <1>0, <2>1, <2>2, LadderIsOK
  <2> QED BY <2>3 DEF rungs
<1>2. ASSUME NEW base \in {"S1", "S2"} PROVE PendingOK(bounce(base), bars, i)
  <2> DEFINE rungs == Rungs(px, "short", 4, 8, 12)
  <2>1. rungs \in Seq(Int) /\ Len(rungs) = 3 /\ \A k \in 1..3 : PulledBack(bars, i, "short", Range1 \div 3, rungs[k])
    BY <1>0, RungsOK
  <2>2. base \in Variants["bounce"] /\ Window = WindowOf(base)
    BY <1>2, WindowsAre DEF Variants
  <2> HIDE DEF rungs, px
  <2>3. PendingOK(Pending("bounce", base, "short", rungs, <<>>, i, Window), bars, i)
    BY <1>0, <2>1, <2>2, BounceIsOK
  <2> QED BY <2>3 DEF rungs
<1>3. TrendPendings(bars[i], i) = s1 \o s2
  BY DEF TrendPendings
<1> HIDE DEF ladder, bounce
<1>4. PendingsOK(s1, bars, i) /\ PendingsOK(s2, bars, i)
  BY <1>1, <1>2, ShortLists
<1> HIDE DEF s1, s2
<1> QED BY <1>3, <1>4, JoinOK

\* A gap has a side from the third bar on, and there is a gap.
LEMMA GapNeedsBars ==
  ASSUME NEW bars, NEW i \in Nat
  PROVE  /\ GapSide(bars, i) \in TradeSides \cup {"none"}
         /\ GapSide(bars, i) # "none" => i > 2
         /\ GapSide(bars, i) = "long" => bars[i].l > bars[i - 2].h
         /\ GapSide(bars, i) = "short" => bars[i].h < bars[i - 2].l
<1> DEFINE big == i > 2 /\ 5 * (bars[i-1].h - bars[i-1].l) > 6 * Range1
<1>1. CASE big
  <2>1. i > 2
    BY <1>1
  <2> QED BY <2>1 DEF GapSide, TradeSides
<1>2. CASE ~big
  <2>1. GapSide(bars, i) = "none"
    BY <1>2 DEF GapSide
  <2> QED BY <2>1
<1> QED BY <1>1, <1>2

LEMMA GapPendingsOK ==
  ASSUME NEW bars \in Seq(Candles), NEW i \in 1..Len(bars)
  PROVE  PendingsOK(GapPendings(bars, i), bars, i)
<1> DEFINE side == GapSide(bars, i)
           near == IF side = "long" THEN bars[i].l ELSE bars[i].h
           far  == IF side = "long" THEN bars[i-2].h ELSE bars[i-2].l
           last == IF side = "long" THEN bars[i].h ELSE bars[i].l
           mid  == (near + far) \div 2
           shallow == near - (near - far) \div 4
           cont == Pending("limit", "FVG_cont", side, <<mid>>, <<>>, i, Window)
           short == Pending("limit", "FVG_cont_short", side, <<shallow>>, <<>>, i, ShortWindow)
           react == Pending("limit", "FVG_react", OtherSide(side), <<last>>, <<>>, i, Window)
           g1 == IF side # "none" /\ bars[i].db = BiasOf(side) THEN <<cont, short>> ELSE <<>>
           g2 == IF side # "none" /\ bars[i].range THEN <<react>> ELSE <<>>
<1>1. GapPendings(bars, i) = g1 \o g2
  BY DEF GapPendings
<1>2. side # "none" => PendingOK(cont, bars, i) /\ PendingOK(short, bars, i) /\ PendingOK(react, bars, i)
  <2>1. SUFFICES ASSUME side # "none"
                 PROVE  PendingOK(cont, bars, i) /\ PendingOK(short, bars, i) /\ PendingOK(react, bars, i)
    OBVIOUS
  <2>2. side \in TradeSides /\ i > 2
    BY <2>1, GapNeedsBars
  <2>3. bars[i] \in Candles /\ bars[i - 2] \in Candles
    BY <2>2
  <2> HIDE DEF side
  <2>4. near \in Int /\ far \in Int /\ last \in Int
    BY <2>3, CandleNumbers
  <2>a. (side = "long" => far < near) /\ (side = "short" => near < far)
    BY <2>3, <2>4, GapNeedsBars DEF side
  <2>b. /\ side = "long" => near = bars[i].l /\ far = bars[i - 2].h
        /\ side = "short" => near = bars[i].h /\ far = bars[i - 2].l
    OBVIOUS
  <2> HIDE DEF near, far
  <2>5. /\ mid \in Int /\ shallow \in Int
        /\ side = "long" => mid \in far..near /\ shallow \in far..near
        /\ side = "short" => mid \in near..far /\ shallow \in near..far
    BY <2>4, <2>a
  <2>6. OtherSide(side) \in TradeSides
    BY DEF OtherSide, TradeSides
  <2>7. i \in Nat \ {0}
    OBVIOUS
  <2>8. /\ \A name \in {"FVG_cont", "FVG_cont_short", "FVG_react"} : name \in Limits /\ name # "MR8_e_retrace"
        /\ "FVG_react" \notin InGaps
    BY DEF Limits, InGaps
  <2>c. /\ Window = WindowOf("FVG_cont") /\ ShortWindow = WindowOf("FVG_cont_short")
        /\ Window = WindowOf("FVG_react")
    BY DEF WindowOf
  <2> HIDE DEF mid, shallow, last
  <2>d. InGap(bars, i, side, mid) /\ InGap(bars, i, side, shallow)
    BY <2>2, <2>5, <2>b DEF InGap, TradeSides
  <2>9. PendingOK(cont, bars, i)
    BY <2>2, <2>5, <2>7, <2>8, <2>c, <2>d, LimitIsOK
  <2>10. PendingOK(short, bars, i)
    BY <2>2, <2>5, <2>7, <2>8, <2>c, <2>d, LimitIsOK
  <2>11. PendingOK(react, bars, i)
    BY <2>4, <2>6, <2>7, <2>8, <2>c, LimitIsOK
  <2> QED BY <2>9, <2>10, <2>11
<1> HIDE DEF cont, short, react
<1>3. PendingsOK(g1, bars, i) /\ PendingsOK(g2, bars, i)
  BY <1>2, ShortLists
<1> HIDE DEF g1, g2
<1> QED BY <1>1, <1>3, JoinOK

LEMMA RegisteredOK ==
  ASSUME NEW bars \in Seq(Candles), NEW i \in 1..Len(bars)
  PROVE  PendingsOK(Registered(bars, i), bars, i)
<1>1. PendingsOK(GapPendings(bars, i) \o FadePendings(bars[i], i), bars, i)
  BY GapPendingsOK, FadePendingsOK, JoinOK
<1> QED BY <1>1, TrendPendingsOK, JoinOK DEF Registered

\* What is entered at the close is as it should be.
LEMMA AtCloseOK ==
  ASSUME NEW bars \in Seq(Candles), NEW i \in 1..Len(bars)
  PROVE  HitsAre(AtClose(bars, i), bars, i)
<1> DEFINE priceAt(name, side) == [name |-> name, side |-> side, entry |-> bars[i].c, from |-> i]
           gap == GapSide(bars, i)
           fade == priceAt("MR8_MTF", FadeSide(bars[i]))
           disp == priceAt("FVG_disp", IF bars[i].db = BiasOf(gap) THEN gap ELSE "none")
<1>1. AtClose(bars, i) = {s \in {fade, disp} : s.side # "none"}
  BY DEF AtClose
<1>2. FadeSide(bars[i]) \in TradeSides \cup {"none"} /\ gap \in TradeSides \cup {"none"}
  BY GapNeedsBars DEF FadeSide, TradeSides
<1>3. bars[i].c \in Int
  BY CandleNumbers
<1>4. ASSUME NEW s \in AtClose(bars, i) PROVE s \in Hits /\ HitOK(s, bars, i)
  <2>1. s = fade \/ s = disp
    BY <1>1
  <2>2. s.side \in TradeSides
    <3>1. s.side # "none"
      BY <1>1
    <3>2. s.side \in TradeSides \cup {"none"}
      BY <1>2, <2>1
    <3> QED BY <3>1, <3>2
  <2>3. s.name \in AtOnce /\ s.entry = bars[i].c /\ s.from = i /\ s = [name |-> s.name, side |-> s.side, entry |-> s.entry, from |-> s.from]
    BY <2>1 DEF AtOnce
  <2>4. PriceIsHonest(s, bars, i) /\ s.name \in SetupNames
    BY <2>3, HonestAtClose DEF AtOnce, SetupNames
  <2>5. s \in Hits
    BY <1>3, <2>2, <2>3, <2>4 DEF Hits
  <2> QED BY <2>3, <2>4, <2>5 DEF HitOK
<1>5. IsFiniteSet(AtClose(bars, i))
  <2>1. \A a, b : IsFiniteSet({a} \cup {b})
    BY FS_Singleton, FS_Union
  <2>2. IsFiniteSet({fade} \cup {disp})
    BY <2>1
  <2>3. AtClose(bars, i) \subseteq {fade} \cup {disp}
    BY <1>1
  <2> QED BY <2>2, <2>3, FS_Subset
<1> QED BY <1>4, <1>5 DEF HitsAre

-----------------------------------------------------------------------------
(* The walk                                                                 *)

\* Another bar changes neither what waits nor what was pushed.
LEMMA AnotherBar ==
  ASSUME NEW bars \in Seq(Candles), NEW bar \in Candles, NEW more, more = Append(bars, bar)
  PROVE  /\ more \in Seq(Candles) /\ Len(more) = Len(bars) + 1 /\ Len(bars) \in Nat
         /\ \A waiting : PendingsOK(waiting, bars, Len(bars)) => PendingsOK(waiting, more, Len(bars))
         /\ \A pushed : SignalsOK(pushed, bars) => SignalsOK(pushed, more)
<1>1. /\ more \in Seq(Candles) /\ Len(more) = Len(bars) + 1 /\ Len(bars) \in Nat
      /\ \A k \in 1..Len(bars) : more[k] = bars[k]
  OBVIOUS
<1>2. \A k \in 1..Len(bars) : \A side, least, paid :
        PulledBack(bars, k, side, least, paid) <=> PulledBack(more, k, side, least, paid)
  BY <1>1 DEF PulledBack
<1>6. \A a \in Nat, b \in Nat : 1 <= a /\ b <= Len(bars) =>
        \A side, paid : TradedAt(bars, a, b, side, paid) <=> TradedAt(more, a, b, side, paid)
  BY <1>1 DEF TradedAt
<1>7. ASSUME NEW k \in 1..Len(bars), NEW side, NEW paid PROVE InGap(bars, k, side, paid) <=> InGap(more, k, side, paid)
  <2>1. CASE k > 2
    <3>1. more[k] = bars[k] /\ more[k - 2] = bars[k - 2]
      BY <1>1, <2>1
    <3> QED BY <3>1 DEF InGap
  <2>2. CASE ~(k > 2)
    BY <2>2 DEF InGap
  <2> QED BY <2>1, <2>2
<1>3. ASSUME NEW p, PendingOK(p, bars, Len(bars)) PROVE PendingOK(p, more, Len(bars))
  <2>1. p.from \in 1..Len(bars)
    BY <1>3 DEF PendingOK
  <2>2. Since(p) \in Nat /\ 1 <= Since(p)
    BY <2>1 DEF Since
  <2>3. \A paid : FillOK(p, bars, Len(bars), paid) <=> FillOK(p, more, Len(bars), paid)
    BY <1>1, <1>2, <1>6, <2>1, <2>2 DEF FillOK
  <2> QED BY <1>2, <1>3, <1>7, <2>1, <2>3 DEF PendingOK
<1>4. ASSUME NEW pushed, SignalsOK(pushed, bars) PROVE SignalsOK(pushed, more)
  <2>1. ASSUME NEW s \in pushed PROVE s.i \in 1..Len(more) /\ HitOK(s, more, s.i)
    <3>1. s.i \in 1..Len(bars) /\ HitOK(s, bars, s.i)
      BY <1>4 DEF SignalsOK
    <3>2. s.from \in 1..s.i
      BY <3>1 DEF HitOK
    <3>3. s.from \in 1..Len(bars) /\ s.i \in 1..Len(more)
      BY <1>1, <3>1, <3>2
    <3>4. more[s.i] = bars[s.i]
      BY <1>1, <3>1
    <3>6. s.from \in Nat /\ s.i \in Nat /\ s.from + 1 \in Nat /\ 1 <= s.from + 1 /\ 1 <= s.from /\ s.i <= Len(bars)
      BY <1>1, <3>1, <3>3
    <3>7. BounceFilled(s, bars, s.i) <=> BounceFilled(s, more, s.i)
      BY <1>2, <1>6, <3>3, <3>6 DEF BounceFilled
    <3>8. PriceIsHonest(s, bars, s.i) <=> PriceIsHonest(s, more, s.i)
      BY <1>2, <1>6, <1>7, <3>3, <3>4, <3>6, <3>7 DEF PriceIsHonest
    <3>5. HitOK(s, more, s.i)
      BY <3>1, <3>8 DEF HitOK
    <3> QED BY <3>3, <3>5
  <2> QED BY <1>4, <2>1 DEF SignalsOK
<1>5. \A waiting : PendingsOK(waiting, bars, Len(bars)) => PendingsOK(waiting, more, Len(bars))
  BY <1>3 DEF PendingsOK
<1> QED BY <1>1, <1>4, <1>5

LEMMA DetectOK ==
  ASSUME BackTestInv, NEW bar \in Candles, Detect(bar)
  PROVE  BackTestInv'
<1> DEFINE bars == Append(tape, bar)
           i == Len(bars)
           done == ProcessAll(pendings, bars, i, signals)
<1>1. /\ tape' = bars
      /\ pendings' = done.kept \o Registered(bars, i)
      /\ signals' = PushAll(done.pushed, AtClose(bars, i), i)
  BY DEF Detect, Walked
<1>2. /\ bars \in Seq(Candles) /\ i = Len(tape) + 1 /\ Len(tape) \in Nat
      /\ PendingsOK(pendings, bars, Len(tape)) /\ SignalsOK(signals, bars)
  BY AnotherBar DEF BackTestInv
<1>3. i \in Nat /\ i - 1 = Len(tape) /\ i \in 1..Len(bars)
  BY <1>2
<1>4. WalkOK(done, bars, i)
  BY <1>2, <1>3, ProcessAllOK
<1> HIDE DEF done, bars, i
<1>5. PendingsOK(pendings', bars, i)
  BY <1>1, <1>2, <1>3, <1>4, RegisteredOK, JoinOK DEF WalkOK
<1>6. SignalsOK(signals', bars)
  <2>1. HitsAre(AtClose(bars, i), bars, i)
    BY <1>2, <1>3, AtCloseOK
  <2>2. i = Len(bars)
    BY DEF i
  <2> QED BY <1>1, <1>3, <1>4, <2>1, <2>2, PushAllOK DEF WalkOK, HitsAre
<1>7. Len(bars) = i
  BY DEF i
<1> QED BY <1>1, <1>2, <1>5, <1>6, <1>7 DEF BackTestInv

\* What waits and what was pushed is as it should be, whatever the tape.
THEOREM BackTestInvariant == BackTestSpec => []BackTestInv
<1>1. BackTestInit => BackTestInv
  <2>1. SUFFICES ASSUME BackTestInit PROVE BackTestInv
    OBVIOUS
  <2>2. PendingsOK(<<>>, tape, Len(tape))
    BY ShortLists
  <2>3. SignalsOK({}, tape)
    BY DEF SignalsOK
  <2> QED BY <2>1, <2>2, <2>3 DEF BackTestInit, BackTestInv
<1>2. BackTestInv /\ [BackTestNext]_backTestVars => BackTestInv'
  <2>1. SUFFICES ASSUME BackTestInv, [BackTestNext]_backTestVars PROVE BackTestInv'
    OBVIOUS
  <2>2. CASE BackTestNext
    BY <2>1, <2>2, DetectOK DEF BackTestNext
  <2>3. CASE UNCHANGED backTestVars
    BY <2>1, <2>3 DEF backTestVars, BackTestInv, SignalsOK, PendingsOK
  <2> QED BY <2>1, <2>2, <2>3
<1> QED BY <1>1, <1>2, PTL DEF BackTestSpec

LEMMA Honest == BackTestInv => FillsAreHonest
<1>1. SUFFICES ASSUME BackTestInv, NEW s \in signals
      PROVE  /\ s.name \notin AtOnce => s.i > s.from /\ s.i <= s.from + WindowOf(s.name)
             /\ PriceIsHonest(s, tape, s.i)
             /\ \A t \in signals : s # t /\ s.name = t.name => s.i - t.i \notin (1 - Cooldown)..(Cooldown - 1)
  BY DEF FillsAreHonest
<1>2. HitOK(s, tape, s.i) /\ s.i \in 1..Len(tape)
  BY <1>1 DEF BackTestInv, SignalsOK
<1>3. s.from \in 1..s.i
  BY <1>2 DEF HitOK
<1> QED BY <1>1, <1>2, <1>3 DEF BackTestInv, SignalsOK, HitOK

-----------------------------------------------------------------------------
(* The simulated trade                                                      *)

\* What a trade gains at a price.
Gain(s, paid) == -Beyond(s.side) * (paid - s.entry)

\* Gains, by side.
LEMMA GainIs ==
  ASSUME NEW s \in Signals, NEW x \in Int, NEW y \in Int
  PROVE  /\ s.entry \in Int /\ Gain(s, x) \in Int
         /\ s.side = "long"  => Beyond(s.side) = -1 /\ Gain(s, x) = x - s.entry
         /\ s.side = "short" => Beyond(s.side) = 1  /\ Gain(s, x) = s.entry - x
         /\ s.side \in TradeSides /\ (s.side = "long" \/ s.side = "short")
         /\ (-Beyond(s.side)) * (x - y) = Gain(s, x) - Gain(s, y)
         /\ Gain(s, s.entry) = 0
<1>1. s.entry \in Int /\ s.side \in TradeSides
  BY DEF Signals
<1>2. CASE s.side = "long"
  <2>1. Beyond(s.side) = -1
    BY <1>2 DEF Beyond
  <2> QED BY <1>1, <1>2, <2>1 DEF Gain
<1>3. CASE s.side = "short"
  <2>1. Beyond(s.side) = 1
    BY <1>3 DEF Beyond
  <2> QED BY <1>1, <1>3, <2>1 DEF Gain
<1> QED BY <1>1, <1>2, <1>3 DEF TradeSides

\* The sides.
LEMMA SideIs ==
  ASSUME NEW s \in Signals
  PROVE  /\ s.entry \in Int /\ s.i \in Nat /\ (s.side = "long" \/ s.side = "short")
         /\ s.side = "long"  => Beyond(s.side) = -1 /\ -Beyond(s.side) = 1
         /\ s.side = "short" => Beyond(s.side) = 1 /\ -Beyond(s.side) = -1
         /\ Beyond(s.side) \in {1, -1} /\ -Beyond(s.side) \in {1, -1}
<1>1. s.entry \in Int /\ s.i \in Nat /\ s.side \in TradeSides
  BY DEF Signals
<1>2. CASE s.side = "long"
  <2>1. Beyond(s.side) = -1
    BY <1>2 DEF Beyond
  <2> QED BY <1>1, <1>2, <2>1
<1>3. CASE s.side = "short"
  <2>1. Beyond(s.side) = 1
    BY <1>3 DEF Beyond
  <2> QED BY <1>1, <1>3, <2>1
<1> QED BY <1>1, <1>2, <1>3 DEF TradeSides

\* The best price of a bar for a trade, and the worst.
Peak(s, bar) == IF s.side = "long" THEN bar.h ELSE bar.l
Trough(s, bar) == IF s.side = "long" THEN bar.l ELSE bar.h

\* The distances of an exit.
LEMMA DistancesAre ==
  ASSUME NEW exit \in Exits
  PROVE  /\ exit.sl \in Nat /\ exit.tp \in Nat /\ exit.trail \in Nat /\ exit.be \in BOOLEAN /\ Range1 \in Nat
         /\ exit.sl * Range1 \in Nat /\ exit.tp * Range1 \in Nat /\ exit.trail * Range1 \in Nat
         /\ \A up \in {1, -1}, x \in Nat : up * x * Range1 = up * (x * Range1)
<1>1. exit.sl \in Nat /\ exit.tp \in Nat /\ exit.trail \in Nat /\ exit.be \in BOOLEAN /\ Range1 \in Nat
  BY BackTestAssumption
<1>2. \A x \in Nat : x * Range1 \in Nat
  BY <1>1
<1>3. \A x \in Nat : 1 * x * Range1 = 1 * (x * Range1) /\ (-1) * x * Range1 = (-1) * (x * Range1)
  BY <1>1
<1> QED BY <1>1, <1>2, <1>3

\* The stop only tightens: to the entry, or to no better than the best price of the bar.
LEMMA TightenedIs ==
  ASSUME NEW s \in Signals, NEW exit \in Exits, NEW stop \in Int, NEW bar \in Candles
  PROVE  LET new == Tightened(s, exit, stop, bar)
         IN  /\ new \in Int /\ Gain(s, new) >= Gain(s, stop)
             /\ new = stop \/ new = s.entry \/ Gain(s, new) <= Gain(s, Peak(s, bar))
<1> DEFINE up == -Beyond(s.side)
           peak == IF s.side = "long" THEN bar.h ELSE bar.l
           far == exit.trail * Range1
           even == exit.be /\ up * (peak - s.entry) >= exit.sl * Range1
           trailed == peak - up * exit.trail * Range1
           tighter(a, b) == IF s.side = "long" THEN Max({a, b}) ELSE Min({a, b})
           first == IF even THEN tighter(stop, s.entry) ELSE stop
           then == IF exit.trail > 0 THEN trailed ELSE stop
           new == Tightened(s, exit, stop, bar)
<1>1. new = tighter(first, then)
  BY DEF Tightened
<1>2. ASSUME NEW a \in Int, NEW b \in Int
      PROVE  /\ tighter(a, b) = a \/ tighter(a, b) = b
             /\ Gain(s, tighter(a, b)) >= Gain(s, a) /\ Gain(s, tighter(a, b)) >= Gain(s, b)
  <2>1. Max({a, b}) = IF a >= b THEN a ELSE b
    BY DEF Max
  <2>2. Min({a, b}) = IF a <= b THEN a ELSE b
    BY DEF Min
  <2>3. CASE s.side = "long"
    <3>1. tighter(a, b) = IF a >= b THEN a ELSE b
      BY <2>1, <2>3
    <3> HIDE DEF tighter
    <3> QED BY <2>3, <3>1, GainIs
  <2>4. CASE s.side = "short"
    <3>1. tighter(a, b) = IF a <= b THEN a ELSE b
      BY <2>2, <2>4
    <3> HIDE DEF tighter
    <3> QED BY <2>4, <3>1, GainIs
  <2> QED BY <2>3, <2>4, GainIs
<1>3. s.entry \in Int /\ peak \in Int /\ far \in Nat /\ up \in {1, -1}
  <2>1. peak \in Int
    BY CandleNumbers
  <2>2. up \in {1, -1}
    BY GainIs
  <2> QED BY <2>1, <2>2, GainIs, DistancesAre
<1>4. trailed = peak - up * far
  BY <1>3, DistancesAre
<1> HIDE DEF tighter, even, peak, far
<1>5. trailed \in Int /\ Gain(s, trailed) <= Gain(s, peak)
  <2> DEFINE x == peak - up * far
  <2>1. x \in Int
    BY <1>3
  <2>2. Gain(s, x) <= Gain(s, peak)
    <3>1. CASE s.side = "long"
      <4>1. up = 1
        BY <3>1, GainIs
      <4>2. x = peak - far
        BY <1>3, <4>1
      <4> HIDE DEF x
      <4> QED BY <1>3, <2>1, <3>1, <4>2, GainIs
    <3>2. CASE s.side = "short"
      <4>1. up = -1
        BY <3>2, GainIs
      <4>2. x = peak + far
        BY <1>3, <4>1
      <4> HIDE DEF x
      <4> QED BY <1>3, <2>1, <3>2, <4>2, GainIs
    <3> QED BY <3>1, <3>2, GainIs
  <2> QED BY <1>4, <2>1, <2>2
<1> HIDE DEF trailed, new
<1>6. first \in Int /\ Gain(s, first) >= Gain(s, stop) /\ (first = stop \/ first = s.entry)
  <2>1. Gain(s, stop) \in Int
    BY GainIs
  <2> QED BY <1>2, <1>3, <2>1
<1>7. then = stop \/ then = trailed
  OBVIOUS
<1> HIDE DEF first, then
<1>8. then \in Int
  BY <1>5, <1>7
<1>9. new \in Int /\ Gain(s, new) >= Gain(s, first) /\ (new = first \/ new = then)
  BY <1>1, <1>2, <1>6, <1>8
<1>10. Gain(s, new) \in Int /\ Gain(s, first) \in Int /\ Gain(s, stop) \in Int
  BY <1>6, <1>9, GainIs
<1> QED BY <1>5, <1>6, <1>7, <1>9, <1>10 DEF new, peak, Peak

\* The stop of a simulated trade, cnt bars long, as sim() computes it.
Stops(f, s, exit, bars, cnt) ==
  f = [k \in 0..cnt |-> IF k = 0 THEN s.entry + Beyond(s.side) * exit.sl * Range1
                                ELSE Tightened(s, exit, f[k - 1], bars[s.i + k])]

\* It exists.
LEMMA StopsExist ==
  ASSUME NEW bars \in Seq(Candles), NEW s \in Signals, NEW exit \in Exits, NEW cnt \in Nat,
         \A k \in 1..cnt : bars[s.i + k] \in Candles
  PROVE  \E f \in [0..cnt -> Int] : Stops(f, s, exit, bars, cnt)
<1> DEFINE base == s.entry + Beyond(s.side) * exit.sl * Range1
           step == [k \in 1..cnt |-> [x \in Int |-> Tightened(s, exit, x, bars[s.i + k])]]
<1>1. base \in Int
  <2> DEFINE b == Beyond(s.side)
  <2>1. b \in {1, -1} /\ s.entry \in Int
    BY SideIs
  <2> HIDE DEF b
  <2>2. b * exit.sl * Range1 = b * (exit.sl * Range1) /\ exit.sl * Range1 \in Nat
    BY <2>1, DistancesAre
  <2>3. b * (exit.sl * Range1) \in Int
    BY <2>1, <2>2
  <2> QED BY <2>1, <2>2, <2>3 DEF b
<1>2. \A k \in 1..cnt, x \in Int : Tightened(s, exit, x, bars[s.i + k]) \in Int
  BY TightenedIs
<1>3. step \in [1..cnt -> [Int -> Int]]
  BY <1>2
<1> HIDE DEF base
<1>4. PICK f \in [0..cnt -> Int] : Recurs(f, cnt, base, step)
  <2> HIDE DEF step
  <2> QED BY <1>1, <1>3, RecursionExists
<1>5. \A k \in 0..cnt : f[k] = IF k = 0 THEN base ELSE Tightened(s, exit, f[k - 1], bars[s.i + k])
  <2>1. SUFFICES ASSUME NEW k \in 0..cnt
                 PROVE  f[k] = IF k = 0 THEN base ELSE Tightened(s, exit, f[k - 1], bars[s.i + k])
    OBVIOUS
  <2>2. f[k] = IF k = 0 THEN base ELSE step[k][f[k - 1]]
    <3> HIDE DEF step
    <3> QED BY <1>4 DEF Recurs
  <2>3. k # 0 => k \in 1..cnt /\ k - 1 \in 0..cnt
    OBVIOUS
  <2>4. k # 0 => step[k][f[k - 1]] = Tightened(s, exit, f[k - 1], bars[s.i + k])
    BY <2>3
  <2> HIDE DEF step
  <2> QED BY <2>2, <2>4
<1>6. Stops(f, s, exit, bars, cnt)
  BY <1>5 DEF Stops, base
<1> QED BY <1>6

\* It starts at the distance of the exit and never loosens; as long as no bar
\* has reached the target it stays on this side of it.
LEMMA StopsWithin ==
  ASSUME NEW bars \in Seq(Candles), NEW s \in Signals, NEW exit \in Exits, NEW cnt \in Nat,
         \A k \in 1..cnt : bars[s.i + k] \in Candles, NEW f, Stops(f, s, exit, bars, cnt)
  PROVE  \A k \in 0..cnt :
           /\ f[k] \in Int /\ Gain(s, f[k]) >= -(exit.sl * Range1)
           /\ (\A j \in 1..k : Gain(s, Peak(s, bars[s.i + j])) <= exit.tp * Range1)
                => Gain(s, f[k]) <= exit.tp * Range1
<1> DEFINE loss == exit.sl * Range1
           most == exit.tp * Range1
           Met(k) == \A j \in 1..k : Gain(s, Peak(s, bars[s.i + j])) <= most
           Good(k) == /\ f[k] \in Int /\ Gain(s, f[k]) >= -loss
                      /\ Met(k) => Gain(s, f[k]) <= most
           S == {k \in 0..cnt : Good(k)}
<1>1. loss \in Nat /\ most \in Nat
  BY DistancesAre
<1>2. Good(0)
  <2>1. f[0] = s.entry + Beyond(s.side) * exit.sl * Range1
    BY DEF Stops
  <2>2. f[0] = s.entry + Beyond(s.side) * loss
    <3>1. Beyond(s.side) \in {1, -1}
      BY SideIs
    <3> QED BY <2>1, <3>1, DistancesAre
  <2> HIDE DEF loss, most
  <2>3. f[0] \in Int /\ Gain(s, f[0]) = -loss
    <3>1. CASE s.side = "long"
      <4>1. Beyond(s.side) = -1 /\ s.entry \in Int
        BY <3>1, SideIs
      <4>2. f[0] = s.entry - loss /\ f[0] \in Int
        BY <1>1, <2>2, <4>1
      <4>3. Gain(s, f[0]) = f[0] - s.entry
        BY <3>1, <4>2, GainIs
      <4> QED BY <1>1, <4>1, <4>2, <4>3
    <3>2. CASE s.side = "short"
      <4>1. Beyond(s.side) = 1 /\ s.entry \in Int
        BY <3>2, SideIs
      <4>2. f[0] = s.entry + loss /\ f[0] \in Int
        BY <1>1, <2>2, <4>1
      <4>3. Gain(s, f[0]) = s.entry - f[0]
        BY <3>2, <4>2, GainIs
      <4> QED BY <1>1, <4>1, <4>2, <4>3
    <3> QED BY <3>1, <3>2, SideIs
  <2> QED BY <1>1, <2>3
<1> HIDE DEF loss, most
<1>3. ASSUME NEW k \in 1..cnt, Good(k - 1) PROVE Good(k)
  <2> DEFINE bar == bars[s.i + k]
             old == f[k - 1]
             new == f[k]
  <2>1. new = Tightened(s, exit, old, bar)
    BY DEF Stops
  <2>2. bar \in Candles /\ old \in Int
    BY <1>3
  <2> HIDE DEF new, bar, old
  <2>3. /\ new \in Int /\ Gain(s, new) >= Gain(s, old)
        /\ new = old \/ new = s.entry \/ Gain(s, new) <= Gain(s, Peak(s, bar))
    BY <2>1, <2>2, TightenedIs
  <2>4. /\ Gain(s, new) \in Int /\ Gain(s, old) \in Int /\ Gain(s, Peak(s, bar)) \in Int
        /\ Gain(s, s.entry) = 0
    <3>1. Peak(s, bar) \in Int
      BY <2>2, CandleNumbers DEF Peak
    <3> QED BY <2>2, <2>3, <3>1, GainIs
  <2>5. Gain(s, old) >= -loss
    BY <1>3 DEF old
  <2>6. Gain(s, new) >= -loss
    BY <1>1, <2>3, <2>4, <2>5
  <2>7. Met(k) => Gain(s, new) <= most
    <3>1. SUFFICES ASSUME Met(k) PROVE Gain(s, new) <= most
      OBVIOUS
    <3>2. Met(k - 1)
      <4>1. \A j \in 1..(k - 1) : j \in 1..k
        OBVIOUS
      <4> QED BY <3>1, <4>1
    <3>3. Gain(s, old) <= most
      BY <1>3, <3>2 DEF old
    <3>4. Gain(s, Peak(s, bar)) <= most
      <4>1. k \in 1..k
        OBVIOUS
      <4> QED BY <3>1, <4>1 DEF bar
    <3> QED BY <1>1, <2>3, <2>4, <3>3, <3>4
  <2> QED BY <2>3, <2>6, <2>7 DEF new
<1>4. 0 \in S
  <2> HIDE DEF Good
  <2> QED BY <1>2
<1>5. \A k \in 1..cnt : k - 1 \in S => k \in S
  <2> HIDE DEF Good
  <2> QED BY <1>3
<1>6. \A k \in 0..cnt : k \in S
  <2> HIDE DEF S
  <2> QED BY <1>4, <1>5, AlongInduction
<1> QED BY <1>6 DEF loss, most

\* Neither the break-even, the trailing nor the end of the tape gives a result
\* beyond the plan.
LEMMA SimOK ==
  ASSUME NEW bars \in Seq(Candles), NEW s \in Signals, s.i \in 1..Len(bars), s.i < Len(bars), NEW exit \in Exits
  PROVE  /\ Gain(s, Sim(s, exit, bars)) >= -(exit.sl * Range1)
         /\ exit.tp < NoTarget => Gain(s, Sim(s, exit, bars)) <= exit.tp * Range1
<1> DEFINE up     == -Beyond(s.side)
           target == s.entry + up * exit.tp * Range1
           held   == 1..(Min({Len(bars), s.i + MaxHold}) - s.i)
           cnt      == Min({Len(bars), s.i + MaxHold}) - s.i
           worst(k) == IF up = 1 THEN bars[s.i + k].l ELSE bars[s.i + k].h
           best(k)  == IF up = 1 THEN bars[s.i + k].h ELSE bars[s.i + k].l
           IsWalk(f) == f = [k \in {0} \cup held |->
                               IF k = 0 THEN s.entry - up * exit.sl * Range1
                               ELSE Tightened(s, exit, f[k - 1], bars[s.i + k])]
           stop == CHOOSE f : IsWalk(f)
           stopped(k) == up * (worst(k) - stop[k - 1]) <= 0
           reached(k) == exit.tp < NoTarget /\ up * (best(k) - target) >= 0
           leaves == {k \in held : stopped(k) \/ reached(k)}
           loss == exit.sl * Range1
           most == exit.tp * Range1
<1>1. Sim(s, exit, bars) =
        IF leaves = {} THEN bars[s.i + Max(held)].c
        ELSE IF stopped(Min(leaves)) THEN stop[Min(leaves) - 1] ELSE target
  BY DEF Sim
<1>2. cnt \in Nat \ {0} /\ held = 1..cnt /\ s.i + cnt <= Len(bars) /\ s.i \in Nat
  <2>1. MaxHold \in Nat \ {0} /\ Len(bars) \in Nat /\ s.i \in Nat
    <3>1. MaxHold \in Nat \ {0}
      BY BackTestAssumption
    <3> QED BY <3>1, SideIs
  <2>2. Min({Len(bars), s.i + MaxHold}) = IF Len(bars) <= s.i + MaxHold THEN Len(bars) ELSE s.i + MaxHold
    BY <2>1 DEF Min
  <2> QED BY <2>1, <2>2
<1> HIDE DEF cnt
<1>3. \A k \in held : bars[s.i + k] \in Candles
  <2> HIDE DEF held
  <2>1. \A k \in held : s.i + k \in 1..Len(bars)
    BY <1>2
  <2> QED BY <2>1
<1>4. \A f : IsWalk(f) <=> Stops(f, s, exit, bars, cnt)
  <2>1. {0} \cup held = 0..cnt
    <3> HIDE DEF held
    <3> QED BY <1>2
  <2>2. s.entry - up * exit.sl * Range1 = s.entry + Beyond(s.side) * exit.sl * Range1
    <3>1. Beyond(s.side) \in {1, -1} /\ up \in {1, -1} /\ up = -Beyond(s.side) /\ s.entry \in Int
      BY SideIs
    <3> HIDE DEF up
    <3>2. up * exit.sl * Range1 = up * loss /\ Beyond(s.side) * exit.sl * Range1 = Beyond(s.side) * loss /\ loss \in Nat
      BY <3>1, DistancesAre
    <3> HIDE DEF loss
    <3> QED BY <3>1, <3>2
  <2> QED BY <2>1, <2>2 DEF Stops
<1>5. Stops(stop, s, exit, bars, cnt)
  <2>1. \E f : Stops(f, s, exit, bars, cnt)
    BY <1>2, <1>3, StopsExist
  <2>2. \E f : IsWalk(f)
    BY <1>4, <2>1
  <2>3. IsWalk(stop)
    BY <2>2
  <2> HIDE DEF IsWalk, stop
  <2> QED BY <1>4, <2>3
<1> HIDE DEF stop, held, IsWalk
<1>6. \A k \in 0..cnt :
        /\ stop[k] \in Int /\ Gain(s, stop[k]) >= -loss
        /\ (\A j \in 1..k : Gain(s, Peak(s, bars[s.i + j])) <= most) => Gain(s, stop[k]) <= most
  BY <1>2, <1>3, <1>5, StopsWithin
<1>7. loss \in Nat /\ most \in Nat
  BY DistancesAre
<1>8. target \in Int /\ Gain(s, target) = most
  <2>1. up \in {1, -1} /\ s.entry \in Int
    BY SideIs
  <2>2. target = s.entry + up * most
    <3> HIDE DEF up
    <3> QED BY <2>1, DistancesAre
  <2> HIDE DEF target, most
  <2>3. CASE s.side = "long"
    <3>1. up = 1
      BY <2>3, SideIs
    <3>2. target = s.entry + most /\ target \in Int
      BY <1>7, <2>1, <2>2, <3>1
    <3>3. Gain(s, target) = target - s.entry
      BY <2>3, <3>2, GainIs
    <3> QED BY <1>7, <2>1, <3>2, <3>3
  <2>4. CASE s.side = "short"
    <3>1. up = -1
      BY <2>4, SideIs
    <3>2. target = s.entry - most /\ target \in Int
      BY <1>7, <2>1, <2>2, <3>1
    <3>3. Gain(s, target) = s.entry - target
      BY <2>4, <3>2, GainIs
    <3> QED BY <1>7, <2>1, <3>2, <3>3
  <2> QED BY <2>3, <2>4, SideIs
<1>9. \A k \in held :
        /\ Peak(s, bars[s.i + k]) \in Int /\ Trough(s, bars[s.i + k]) \in Int /\ bars[s.i + k].c \in Int
        /\ best(k) = Peak(s, bars[s.i + k]) /\ worst(k) = Trough(s, bars[s.i + k])
        /\ Gain(s, Trough(s, bars[s.i + k])) <= Gain(s, bars[s.i + k].c)
        /\ Gain(s, bars[s.i + k].c) <= Gain(s, Peak(s, bars[s.i + k]))
  <2>1. SUFFICES ASSUME NEW k \in held
        PROVE  /\ Peak(s, bars[s.i + k]) \in Int /\ Trough(s, bars[s.i + k]) \in Int /\ bars[s.i + k].c \in Int
               /\ best(k) = Peak(s, bars[s.i + k]) /\ worst(k) = Trough(s, bars[s.i + k])
               /\ Gain(s, Trough(s, bars[s.i + k])) <= Gain(s, bars[s.i + k].c)
               /\ Gain(s, bars[s.i + k].c) <= Gain(s, Peak(s, bars[s.i + k]))
    OBVIOUS
  <2> DEFINE bar == bars[s.i + k]
  <2>2. bar \in Candles
    BY <1>3
  <2>3. s.side = "long" \/ s.side = "short"
    BY SideIs
  <2>4. up = 1 <=> s.side = "long"
    BY SideIs
  <2>5. best(k) = Peak(s, bar) /\ worst(k) = Trough(s, bar)
    BY <2>4 DEF Peak, Trough
  <2> HIDE DEF bar, up
  <2>6. bar.h \in Int /\ bar.l \in Int /\ bar.c \in Int /\ bar.l <= bar.c /\ bar.c <= bar.h
    BY <2>2, CandleNumbers
  <2> DEFINE x == Peak(s, bar)
             y == Trough(s, bar)
  <2>7. x \in Int /\ y \in Int /\ bar.c \in Int
    BY <2>6 DEF Peak, Trough
  <2>8. /\ s.side = "long"  => y <= bar.c /\ bar.c <= x
        /\ s.side = "short" => x <= bar.c /\ bar.c <= y
    BY <2>6 DEF Peak, Trough
  <2>9. /\ s.entry \in Int
        /\ \A z \in Int : /\ s.side = "long"  => Gain(s, z) = z - s.entry
                          /\ s.side = "short" => Gain(s, z) = s.entry - z
    BY GainIs, SideIs
  <2> DEFINE c == bar.c
  <2> HIDE DEF x, y, c
  <2>10. x \in Int /\ y \in Int /\ c \in Int /\ s.entry \in Int
    BY <2>7, <2>9 DEF c
  <2>11. CASE s.side = "long"
    <3>1. Gain(s, x) = x - s.entry /\ Gain(s, y) = y - s.entry /\ Gain(s, c) = c - s.entry
      BY <2>9, <2>10, <2>11
    <3>2. y <= c /\ c <= x
      BY <2>8, <2>11 DEF c
    <3> QED BY <2>5, <2>10, <3>1, <3>2 DEF bar, x, y, c
  <2>12. CASE s.side = "short"
    <3>1. Gain(s, x) = s.entry - x /\ Gain(s, y) = s.entry - y /\ Gain(s, c) = s.entry - c
      BY <2>9, <2>10, <2>12
    <3>2. x <= c /\ c <= y
      BY <2>8, <2>12 DEF c
    <3> QED BY <2>5, <2>10, <3>1, <3>2 DEF bar, x, y, c
  <2> QED BY <2>3, <2>11, <2>12
<1>10. \A x, y \in Int : up * (x - y) = Gain(s, x) - Gain(s, y) /\ Gain(s, x) \in Int
  <2>1. SUFFICES ASSUME NEW x \in Int, NEW y \in Int
                 PROVE  (-Beyond(s.side)) * (x - y) = Gain(s, x) - Gain(s, y) /\ Gain(s, x) \in Int
    OBVIOUS
  <2> QED BY GainIs
<1> HIDE DEF up, target, best, worst, loss, most
<1>11. \A k \in held : stopped(k) <=> Gain(s, Trough(s, bars[s.i + k])) <= Gain(s, stop[k - 1])
  <2>1. SUFFICES ASSUME NEW k \in held
                 PROVE  stopped(k) <=> Gain(s, Trough(s, bars[s.i + k])) <= Gain(s, stop[k - 1])
    OBVIOUS
  <2>2. k - 1 \in 0..cnt
    BY <1>2
  <2> DEFINE x == Trough(s, bars[s.i + k])
             y == stop[k - 1]
  <2>3. x \in Int /\ y \in Int /\ worst(k) = x
    BY <1>6, <1>9, <2>2
  <2> HIDE DEF x, y
  <2>4. up * (x - y) = Gain(s, x) - Gain(s, y) /\ Gain(s, x) \in Int /\ Gain(s, y) \in Int
    BY <1>10, <2>3
  <2>5. up * (x - y) <= 0 <=> Gain(s, x) <= Gain(s, y)
    BY <2>4
  <2> QED BY <2>3, <2>5 DEF x, y
<1>12. \A k \in held : reached(k) <=> (exit.tp < NoTarget /\ Gain(s, Peak(s, bars[s.i + k])) >= most)
  <2>1. SUFFICES ASSUME NEW k \in held
                 PROVE  up * (best(k) - target) >= 0 <=> Gain(s, Peak(s, bars[s.i + k])) >= most
    OBVIOUS
  <2> DEFINE x == Peak(s, bars[s.i + k])
  <2>2. x \in Int /\ best(k) = x
    BY <1>9
  <2> HIDE DEF x
  <2>3. up * (x - target) = Gain(s, x) - most /\ Gain(s, x) \in Int
    BY <1>8, <1>10, <2>2
  <2>4. up * (x - target) >= 0 <=> Gain(s, x) >= most
    BY <1>7, <2>3
  <2> QED BY <2>2, <2>4 DEF x
<1> HIDE DEF stopped, reached
<1>13. CASE leaves = {}
  <2>1. \A k \in held : ~stopped(k) /\ ~reached(k)
    BY <1>13
  <2>2. Max(held) = cnt /\ cnt \in held /\ cnt - 1 \in 0..cnt
    <3>1. cnt \in 1..cnt /\ \A k \in 1..cnt : cnt >= k
      BY <1>2
    <3>2. \A m \in 1..cnt : (\A k \in 1..cnt : m >= k) => m = cnt
      BY <1>2, <3>1
    <3> QED BY <1>2, <3>1, <3>2 DEF Max
  <2> DEFINE c == bars[s.i + cnt].c
             x == Trough(s, bars[s.i + cnt])
             y == Peak(s, bars[s.i + cnt])
             z == stop[cnt - 1]
  <2>3. /\ x \in Int /\ y \in Int /\ c \in Int /\ z \in Int
        /\ Gain(s, x) <= Gain(s, c) /\ Gain(s, c) <= Gain(s, y) /\ Gain(s, z) >= -loss
        /\ ~(Gain(s, x) <= Gain(s, z))
        /\ exit.tp < NoTarget => ~(Gain(s, y) >= most)
    BY <1>6, <1>9, <1>11, <1>12, <2>1, <2>2
  <2>4. Sim(s, exit, bars) = c
    BY <1>1, <1>13, <2>2
  <2> HIDE DEF c, x, y, z
  <2>5. Gain(s, x) \in Int /\ Gain(s, y) \in Int /\ Gain(s, c) \in Int /\ Gain(s, z) \in Int
    BY <1>10, <2>3
  <2> QED BY <1>7, <2>3, <2>4, <2>5 DEF loss, most
<1>14. CASE leaves # {}
  <2> DEFINE m == Min(leaves)
  <2>1. m \in leaves /\ \A k \in leaves : m <= k
    <3>1. leaves \in SUBSET Nat
      BY <1>2
    <3>2. \E j \in leaves : \A k \in leaves : j <= k
      <4> HIDE DEF leaves
      <4> QED BY <1>14, <3>1, Least
    <3> HIDE DEF leaves
    <3> QED BY <3>2 DEF Min
  <2>2. m \in held /\ m - 1 \in 0..cnt /\ (stopped(m) \/ reached(m))
    BY <1>2, <2>1
  <2>3. \A j \in 1..(m - 1) : j \in held /\ ~reached(j)
    <3>1. SUFFICES ASSUME NEW j \in 1..(m - 1) PROVE j \in held /\ ~reached(j)
      OBVIOUS
    <3>2. j \in held /\ ~(m <= j)
      BY <1>2, <2>2
    <3> QED BY <2>1, <3>2
  <2> HIDE DEF m, leaves
  <2>4. CASE stopped(m)
    <3>1. Sim(s, exit, bars) = stop[m - 1]
      BY <1>1, <1>14, <2>4 DEF m
    <3>2. exit.tp < NoTarget => \A j \in 1..(m - 1) : Gain(s, Peak(s, bars[s.i + j])) <= most
      <4>1. SUFFICES ASSUME exit.tp < NoTarget, NEW j \in 1..(m - 1)
                     PROVE  Gain(s, Peak(s, bars[s.i + j])) <= most
        OBVIOUS
      <4>2. ~(Gain(s, Peak(s, bars[s.i + j])) >= most) /\ Peak(s, bars[s.i + j]) \in Int
        BY <1>9, <1>12, <2>3, <4>1
      <4>3. Gain(s, Peak(s, bars[s.i + j])) \in Int
        BY <1>10, <4>2
      <4> QED BY <1>7, <4>2, <4>3
    <3> QED BY <1>6, <2>2, <3>1, <3>2 DEF loss, most
  <2>5. CASE ~stopped(m)
    <3>1. Sim(s, exit, bars) = target
      BY <1>1, <1>14, <2>5 DEF m
    <3> QED BY <1>7, <1>8, <3>1 DEF loss, most
  <2> QED BY <2>4, <2>5
<1> QED BY <1>13, <1>14

LEMMA WithinPlan == BackTestInv => OutcomeWithinPlan
<1>1. SUFFICES ASSUME BackTestInv, NEW s \in signals, NEW exit \in Exits, s.i < Len(tape)
      PROVE  /\ Gain(s, Sim(s, exit, tape)) >= -(exit.sl * Range1)
             /\ exit.tp < NoTarget => Gain(s, Sim(s, exit, tape)) <= exit.tp * Range1
  BY DEF OutcomeWithinPlan, Gain
<1>2. tape \in Seq(Candles) /\ s \in Signals /\ s.i \in 1..Len(tape)
  BY <1>1 DEF BackTestInv, SignalsOK
<1> QED BY <1>1, <1>2, SimOK

\* Every variable of the walk keeps its type, whatever the tape: nothing waits
\* from a bar that was not walked or with more than three rungs.
THEOREM BackTestTypes == BackTestSpec => []BackTestTypeOK
<1>1. ASSUME BackTestInv PROVE BackTestTypeOK
  <2>1. \A k \in 1..Len(pendings) : pendings[k].from \in 1..Len(tape) /\ Len(pendings[k].fills) <= 3
    BY <1>1 DEF BackTestInv, PendingsOK, PendingOK
  <2>2. ToSet(pendings) = {pendings[k] : k \in 1..Len(pendings)}
    BY <1>1 DEF BackTestInv, PendingsOK, ToSet
  <2>3. \A s \in signals : s.i \in 1..Len(tape) /\ s.side \in {"long", "short"} /\ s.entry \in Int
    BY <1>1 DEF BackTestInv, SignalsOK, Signals, TradeSides
  <2> QED BY <1>1, <2>1, <2>2, <2>3 DEF BackTestTypeOK, BackTestInv
<1> QED BY <1>1, BackTestInvariant, PTL

\* Whatever the tape, the windows, the cooldown and the exits, a simulated
\* trade is one that could have been taken, with its plan: the variants of
\* entry fill after the bar that signalled, within their window, at a price
\* the bar traded and no worse than their rungs; and no exit makes it lose
\* more than its first stop or gain more than its target.
THEOREM BackTestIsHonest == BackTestSpec => []BackTestHonest
<1>1. BackTestInv => BackTestHonest
  BY Honest, WithinPlan DEF BackTestHonest
<1> QED BY <1>1, BackTestInvariant, PTL

-----------------------------------------------------------------------------
(* The tools of the desk together (MCDesk)                                  *)

deskVars == <<part, rest>>

\* What every tool does in a behaviour of the desk, it does in one of its own.
LEMMA PartsStep ==
  ASSUME [DeskNext]_deskVars
  PROVE  /\ [Next]_vars /\ [QueueNext]_queueVars /\ [RiskNext]_riskVars /\ [ChartNext]_chart
         /\ [SetupsNext]_reading /\ [BackTestNext]_backTestVars /\ [PlacementNext]_placementVars
         /\ [ThesisNext]_thesisVars
<1>1. CASE UNCHANGED deskVars
  BY <1>1 DEF deskVars, rest
<1>2. CASE DeskNext
  BY <1>2 DEF DeskNext
<1> QED BY <1>1, <1>2

LEMMA PartsInit ==
  DeskInit => /\ Init /\ QueueInit /\ RiskInit /\ ChartInit /\ SetupsInit
              /\ BackTestInit /\ PlacementInit /\ ThesisInit
BY DEF DeskInit

\* A behaviour of the desk is one of each of its tools, whichever parts are
\* explored: what is proved of a tool alone holds of the desk.
THEOREM DeskIsItsParts ==
  DeskSpec => /\ Spec /\ QueueSpec /\ RiskSpec /\ ChartSpec /\ SetupsSpec
              /\ BackTestSpec /\ PlacementSpec /\ ThesisSpec
<1>1. [DeskNext]_<<part, rest>> =>
        /\ [Next]_vars /\ [QueueNext]_queueVars /\ [RiskNext]_riskVars /\ [ChartNext]_chart
        /\ [SetupsNext]_reading /\ [BackTestNext]_backTestVars /\ [PlacementNext]_placementVars
        /\ [ThesisNext]_thesisVars
  BY PartsStep DEF deskVars
<1> QED
  BY <1>1, PartsInit, PTL
     DEF DeskSpec, Spec, QueueSpec, RiskSpec, ChartSpec, SetupsSpec, BackTestSpec, PlacementSpec, ThesisSpec

\* MCDesk.DeskTypeOK: every variable of every tool has its type.
THEOREM DeskTypes == DeskSpec => []DeskTypeOK
<1>1. TypeOK /\ QueueTypeOK /\ RiskTypeOK /\ ChartTypeOK /\ BackTestTypeOK /\ PlacementTypeOK => DeskTypeOK
  BY DEF DeskTypeOK
<1> QED
  BY <1>1, DeskIsItsParts, Types, QueueTypes, RiskDeskTypes, ChartTypes, BackTestTypes, PlacementTypes, PTL
=============================================================================
