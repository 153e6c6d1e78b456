------------------------------- MODULE MCDesk -------------------------------
(***************************************************************************)
(* The tools of the desk, each on a small instance of its own: a behaviour *)
(* is one of the journal, of the alert queue, of the risk desk, of a chart *)
(* and what is read on it, of the conditions of the setups, of the         *)
(* back-test, of a ladder or of the thesis of a position.  The others rest *)
(* in an initial state.  The risk desk has two parts: "caps", three orders *)
(* of both sides over one balance, and "halt", two longs while the balance *)
(* moves.                                                                  *)
(***************************************************************************)
EXTENDS JournalStore, AlertQueue, RiskDesk, Perception, Setups, BackTest, Placement, Thesis, TLC

CONSTANTS
  Parts,          \* the parts explored
  p1, p2,         \* the processes of the journal
  id1, id2,       \* the ids of alerts
  r1, r2,         \* the readers of the queue
  routine, radar  \* the desks

VARIABLE part

rest == <<vars, queueVars, riskVars, chart, reading, backTestVars, placementVars, thesisVars>>

-----------------------------------------------------------------------------
(* Journal, queue: a trade logged twice under one id and the fragment of    *)
(* another; one alert that is posted and one that scans find too            *)

Symmetry    == Permutations({p1, p2}) \cup Permutations({r1, r2}) \cup Permutations({routine, radar})
TwoIds      == {<<"trade", 0>>, <<"child", 0>>}
OneFragment == {<<"child", 0>>}

-----------------------------------------------------------------------------
(* Chart: prices 0..8, swings of one bar, wide and narrow bars both ways    *)

Candle(o, h, l, c) == [o |-> o, h |-> h, l |-> l, c |-> c]
ChartShapes == {Candle(5, 8, 5, 8), Candle(4, 5, 1, 1), Candle(2, 5, 2, 5), Candle(6, 6, 3, 3),
                Candle(3, 4, 0, 2), Candle(6, 6, 1, 4)}
DayBefore == [h |-> 7, l |-> 2]
Profiles == {[vwap |-> 4, hvn |-> 4, lvn |-> 1], [vwap |-> 3, hvn |-> 2, lvn |-> 6]}

-----------------------------------------------------------------------------
(* Setups: a value on each side of every threshold                          *)

Rising == [dEma50 |-> 1000, dEma200 |-> 990, hEma20 |-> 1000, hEma50 |-> 1000, hEma200 |-> 990,
           dRsi |-> 50, hRsi |-> 50, hRsiPrev |-> 50, cross |-> "bull", rising |-> FALSE, hStoch |-> 50,
           hSrsi |-> 50, band |-> "inside", donchian |-> "inside", range10 |-> "inside", volume |-> 100,
           funding |-> 0, squeezed |-> FALSE, db |-> "bull"]
Falling == [Rising EXCEPT !.dEma200 = 1010, !.hEma20 = 1002, !.hEma50 = 1003, !.hEma200 = 1050, !.db = "bear"]
TwoQuiet == {Rising, Falling}
Places == {"below", "inside", "above"}
Thresholds ==
  [dEma50 |-> {980, 1000, 1020}, dEma200 |-> {990, 1010},
   hEma20 |-> {1000, 1002, 1034}, hEma50 |-> {1000, 1003, 1040}, hEma200 |-> {990, 1050},
   dRsi |-> {24, 31, 50, 69}, hRsi |-> {39, 41, 50, 58, 61}, hRsiPrev |-> {38, 50},
   cross |-> {"bull", "bear"}, rising |-> BOOLEAN, hStoch |-> {10, 24, 50, 76, 86},
   hSrsi |-> {14, 50, 86}, band |-> Places, donchian |-> Places, range10 |-> Places,
   volume |-> {100, 131, 181}, funding |-> {-20, -4, 0, 12}, squeezed |-> BOOLEAN, db |-> {"bull", "bear"}]

-----------------------------------------------------------------------------
(* Back-test: extremes, displacements, gaps and pull-backs both ways        *)

Tape(o, h, l, c, srsi, db, bear, range) ==
  [o |-> o, h |-> h, l |-> l, c |-> c, srsi |-> srsi, db |-> db, bear |-> bear, range |-> range]
TapeCandles ==
  {Tape(60, 64, 56, 60, 50, "bear", TRUE, FALSE), Tape(60, 60, 48, 52, 10, "bull", FALSE, FALSE),
   Tape(52, 56, 40, 56, 30, "bull", FALSE, FALSE), Tape(60, 72, 60, 68, 90, "bear", FALSE, FALSE),
   Tape(68, 84, 64, 64, 60, "bear", FALSE, FALSE), Tape(60, 80, 60, 80, 60, "bull", FALSE, FALSE),
   Tape(84, 92, 76, 88, 80, "bull", FALSE, TRUE), Tape(64, 64, 44, 44, 40, "bear", FALSE, FALSE),
   Tape(40, 40, 32, 36, 20, "bear", TRUE, TRUE)}
TapeExits == {[sl |-> 1, tp |-> 2, trail |-> 0, be |-> TRUE], [sl |-> 1, tp |-> 99, trail |-> 2, be |-> FALSE],
              [sl |-> 2, tp |-> 3, trail |-> 1, be |-> TRUE]}

-----------------------------------------------------------------------------
(* Ladder: levels too near, spaced, out of order or on the wrong side       *)

Asked(side, up) ==
  LET off(S) == {1000 + up * d : d \in S}
  IN  [side : {side}, family : {"MR8", "S5", "S12", "other"}, zone : {1000},
       beyond : {off({}), off({20, 100}), off({60, -10}), off({40, 200})},
       targets : {off({}), off({-20}), off({-100, -160}), off({-40, -300})},
       swing : {NoSwing, 1000 + up * 700}, rungs : {3}, a2 : BOOLEAN]
Ladders == Asked("short", 1) \cup Asked("long", -1)
LadderMoves == {999, 1001, 1060, 940, 1200, 800}
LadderViews == {[directed |-> TRUE, priced |-> FALSE], [directed |-> FALSE, priced |-> TRUE]}

-----------------------------------------------------------------------------
(* Thesis: winners, losers and stops at the entry, both ways                *)

Held == [side : {"short", "long"}, trending : {"yes", "no", "s5"}, entry : {100}, stop : {110, 100, 90},
         px : {96, 104}]

-----------------------------------------------------------------------------

DeskInit ==
  /\ part \in Parts
  /\ part # "setups" => reading = Rising
  /\ part # "ladder" => request = (CHOOSE r \in Ladders : TRUE) /\ view = (CHOOSE v \in LadderViews : TRUE)
  /\ part # "thesis" => position = (CHOOSE p \in Held : TRUE)
  /\ Init /\ QueueInit /\ RiskInit /\ ChartInit /\ SetupsInit /\ BackTestInit /\ PlacementInit /\ ThesisInit

DeskNext ==
  /\ UNCHANGED part
  /\ \/ /\ part = "journal" /\ Next
        /\ UNCHANGED <<queueVars, riskVars, chart, reading, backTestVars, placementVars, thesisVars>>
     \/ /\ part = "queue" /\ QueueNext
        /\ UNCHANGED <<vars, riskVars, chart, reading, backTestVars, placementVars, thesisVars>>
     \/ /\ \/ part = "caps" /\ RiskNext /\ balance' = balance
           \/ /\ part = "halt" /\ RiskNext /\ made' <= 2
              /\ \A p \in Desks : \A o \in desk'[p].order : o.side = "long"
        /\ UNCHANGED <<vars, queueVars, chart, reading, backTestVars, placementVars, thesisVars>>
     \/ /\ part = "chart" /\ ChartNext
        /\ UNCHANGED <<vars, queueVars, riskVars, reading, backTestVars, placementVars, thesisVars>>
     \/ /\ part = "setups" /\ SetupsNext
        /\ UNCHANGED <<vars, queueVars, riskVars, chart, backTestVars, placementVars, thesisVars>>
     \/ /\ part = "tape" /\ BackTestNext
        /\ UNCHANGED <<vars, queueVars, riskVars, chart, reading, placementVars, thesisVars>>
     \/ /\ part = "ladder" /\ PlacementNext
        /\ UNCHANGED <<vars, queueVars, riskVars, chart, reading, backTestVars, thesisVars>>
     \/ /\ part = "thesis" /\ ThesisNext
        /\ UNCHANGED <<vars, queueVars, riskVars, chart, reading, backTestVars, placementVars>>

DeskSpec == DeskInit /\ [][DeskNext]_<<part, rest>>

\* Every variable has its type.
DeskTypeOK ==
  /\ TypeOK /\ QueueTypeOK /\ RiskTypeOK
  /\ ChartTypeOK /\ BackTestTypeOK /\ PlacementTypeOK
=============================================================================
