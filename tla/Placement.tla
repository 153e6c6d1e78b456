----------------------------- MODULE Placement -----------------------------
(***************************************************************************)
(* placement.js lays out a ladder of entries with one common stop and      *)
(* staged targets; bracket-check.js judges the stop before the order       *)
(* (checkSlPlacement, checkSlGeometry) and, once the rungs are on the      *)
(* exchange and fill one by one, the orders it finds there (classifyStops, *)
(* verifyBracket).                                                         *)
(*                                                                         *)
(* Prices are steps of a grid on which the average true range is Step.     *)
(* Rung k is worth k units, whatever its risk makes of it: only sums of    *)
(* sizes are compared.                                                     *)
(***************************************************************************)
EXTENDS Integers, Sequences, FiniteSets, FiniteSetsExt, SequencesExt

CONSTANTS
  Requests,  \* what is asked: [side, family, zone, beyond, targets, swing, rungs, a2]
  Step,      \* the average true range, a multiple of 40
  Moves,     \* the prices the market visits and a stop is trailed to
  Views      \* what the exchange reports: [directed, priced]

\* No caller asks for more than three rungs; four need more than ten stop
\* orders, of which the code warns (placement.js:157).
ASSUME PlacementAssumption ==
  /\ Step \in Nat \ {0} /\ Step % 40 = 0
  /\ \A r \in Requests : /\ r.zone \in Int /\ r.swing \in Int /\ r.rungs \in 1..3
                         /\ r.beyond \subseteq Int /\ r.targets \subseteq Int /\ IsFiniteSet(r.targets)
  /\ Moves \subseteq Int
  /\ \A v \in Views : v.directed \/ v.priced

NoSwing == -1

VARIABLES
  request,   \* the request
  layout,    \* what buildPlacement made of it
  view,      \* what is known of an order: its direction, the market price
  price,     \* the market price
  open,      \* the rungs that have filled
  covered,   \* the rungs whose stop order is on the exchange
  trigger    \* where the stop is now

placementVars == <<request, layout, view, price, open, covered, trigger>>

-----------------------------------------------------------------------------
(* buildPlacement                                                           *)

Up(side) == IF side = "short" THEN 1 ELSE -1
Part(hundredths) == (Step * hundredths) \div 100
Apart(a, b) == IF a < b THEN b - a ELSE a - b

\* Where a family's stop was validated, in hundredths of the range.
FloorAtr(family) ==
  CASE family = "MR8" -> 250
    [] family \in {"S5", "MR4"} -> 200
    [] family \in {"S1", "S2", "S3", "S12"} -> 150
    [] OTHER -> 100

MeanReverting == {"MR8", "MR4", "S5", "S3"}

\* The levels of the rungs: the zone, then the nearest level beyond it that
\* keeps a distance from the rung before, or half a range further.
RungLevels(r) ==
  LET up == Up(r.side)
      beyond == {z \in r.beyond : up * (z - r.zone) > 0}
      nearest(S) == CHOOSE z \in S : \A y \in S : up * z <= up * y
      lay[k \in 1..r.rungs] ==
        IF k = 1 THEN [levels |-> <<r.zone>>, left |-> beyond]
        ELSE LET before == lay[k - 1]
                 prev == Last(before.levels)
                 spaced == {z \in before.left : Apart(z, prev) >= Part(30)}
             IN  IF spaced = {} THEN [before EXCEPT !.levels = Append(@, prev + up * Part(50))]
                 ELSE [levels |-> Append(before.levels, nearest(spaced)),
                       left |-> before.left \ {nearest(spaced)}]
  IN  lay[r.rungs].levels

\* The rung the stop must clear.
LastRung(r) == Last(RungLevels(r))
TopRung(r) == CHOOSE z \in ToSet(RungLevels(r)) : \A y \in ToSet(RungLevels(r)) : Up(r.side) * y <= Up(r.side) * z

\* The common stop, beyond the top rung and the swing.  A swing that is not
\* given is null, which isFinite takes for the number 0.
StopLoss(r) ==
  LET up    == Up(r.side)
      swing == IF r.swing = NoSwing THEN 0 ELSE r.swing
      cands == {TopRung(r) + up * Part(FloorAtr(r.family)), TopRung(r) + up * Part(30), swing + up * Part(30)}
  IN  CHOOSE z \in cands : \A y \in cands : up * y <= up * z

\* The profit that a price is worth, from the zone.
Worth(r, p) == Up(r.side) * (r.zone - p)
At(r, profit) == r.zone - Up(r.side) * profit

\* [quick, main, runner] as profits from the zone.
TpZones(r) ==
  LET ahead  == {Worth(r, t) : t \in {t \in r.targets : Worth(r, t) > 0}}
      front  == Min(ahead) - Part(15)
      main   == IF ahead = {} THEN Part(200) ELSE Max(ahead) - Part(15)
      runner == IF ahead = {} THEN Part(300) ELSE Max(ahead) + Part(50)
      first  == IF Cardinality(ahead) >= 2 /\ Apart(front, 0) \in Part(20)..Part(90) THEN front ELSE Part(20)
  IN  [quick |-> IF first >= main - Part(5) THEN main \div 2 ELSE first, main |-> main, runner |-> runner]

\* The shares of the legs of rung k, in hundredths; the deep rung runs.
Legs(r, k) ==
  LET a2    == r.a2 /\ r.family \in MeanReverting
      quick == IF a2 THEN 0 ELSE 20
      main  == IF a2 THEN 60 ELSE 50
      isDeep == k = Min({j \in 1..r.rungs : RungLevels(r)[j] = TopRung(r)})
  IN  [quick  |-> quick,
       main   |-> IF isDeep THEN main ELSE 100 - quick,
       runner |-> IF isDeep THEN 100 - quick - main ELSE 0]

\* The stop orders of the whole ladder: one stop and the legs of each rung.
StopCount(r) ==
  LET legs(k) == Cardinality({leg \in {"quick", "main", "runner"} : Legs(r, k)[leg] > 0})
  IN  FoldSet(LAMBDA k, n : n + 1 + legs(k), 0, 1..r.rungs)

BuildPlacement(r) ==
  [levels |-> RungLevels(r), sl |-> StopLoss(r), tp |-> TpZones(r),
   legs |-> [k \in 1..r.rungs |-> Legs(r, k)], stops |-> StopCount(r)]

-----------------------------------------------------------------------------
(* checkSlPlacement and checkSlGeometry, with their tolerance               *)

\* In thousandths of the range: 0.85 of what was validated.
ValidatedSlFloor(family) ==
  CASE family = "MR8" -> 2125
    [] family \in {"S5", "MR4"} -> 1700
    [] family \in {"S1", "S12"} -> 1275
    [] OTHER -> 1000

\* The stop is beyond the swing by a buffer.
SlPlacementOk(r, stop) == r.swing = NoSwing \/ Up(r.side) * (stop - r.swing) >= Part(30 - 2)

\* The stop is as far from an entry as the family was validated with.
SlGeometryOk(r, entry, stop) == 1000 * Apart(entry, stop) >= Step * (ValidatedSlFloor(r.family) - 20)

-----------------------------------------------------------------------------
(* The ladder on the exchange                                               *)

Units(rungs) == FoldSet(LAMBDA k, n : n + k, 0, rungs)
AllRungs == 1..request.rungs
Reached(k, p) == Up(request.side) * (p - layout.levels[k]) >= 0
StopSafe(p, stop) == Up(request.side) * (stop - p) > 0
TargetSafe(p) == Worth(request, p) < layout.tp.quick

\* Every rung is posted with its stop, the market on the profit side.  A
\* stop the exchange refuses (one below zero) is gone at once: StopGone.
PlacementInit ==
  /\ request \in Requests
  /\ layout = BuildPlacement(request)
  /\ view \in Views
  /\ price = At(request, 1)
  /\ TargetSafe(price)
  /\ open = {}
  /\ covered = AllRungs
  /\ trigger = layout.sl

\* The market moves between the target and the stop and fills rungs.
MarketMoves(p) ==
  /\ p # price /\ StopSafe(p, trigger) /\ TargetSafe(p)
  /\ price' = p
  /\ open' = open \cup {k \in AllRungs : Reached(k, p)}
  /\ UNCHANGED <<request, layout, view, covered, trigger>>

\* The stop is trailed towards the market, below the entry when in profit.
Trail(stop) ==
  /\ open # {} /\ StopSafe(price, stop) /\ Up(request.side) * (trigger - stop) > 0
  /\ trigger' = stop
  /\ UNCHANGED <<request, layout, view, price, open, covered>>

\* The stop of a rung was refused, or is cancelled.
StopGone(k) ==
  /\ k \in covered
  /\ covered' = covered \ {k}
  /\ UNCHANGED <<request, layout, view, price, open, trigger>>

PlacementNext ==
  \/ \E p \in Moves : MarketMoves(p) \/ Trail(p)
  \/ \E k \in AllRungs : StopGone(k)

PlacementSpec == PlacementInit /\ [][PlacementNext]_placementVars

-----------------------------------------------------------------------------
(* verify-bracket                                                           *)

\* What is found: direction 1 fires on the way up, 2 on the way down, 0 is
\* not told.
Rises(isStop) == (request.side = "short") = isStop
Direction(isStop) == IF ~view.directed THEN 0 ELSE IF Rises(isStop) THEN 1 ELSE 2
OrdersFound ==
  {[isStop |-> TRUE, amount |-> k, at |-> trigger, dir |-> Direction(TRUE)] : k \in covered}
  \cup {[isStop |-> FALSE, amount |-> k, at |-> At(request, layout.tp.main), dir |-> Direction(FALSE)] :
          k \in AllRungs}

Losing(o, reference) == Up(request.side) * (o.at - reference) > 0

\* Classified by the entry, as it once was.
ClassifiedByEntry(o) == Losing(o, request.zone)
IsStop(o) ==
  CASE o.dir # 0 -> Rises(TRUE) = (o.dir = 1)
    [] o.dir = 0 /\ view.priced -> Losing(o, price)
    [] OTHER -> Losing(o, request.zone)

\* verifyBracket as verify-bracket calls it, which never tells it that the
\* entry is laddered: critical when the stops differ by more than a
\* twentieth from the position, or from the whole ladder before any fill.
Critical ==
  LET stops == {o \in OrdersFound : IsStop(o)}
      qty == FoldSet(LAMBDA o, n : n + o.amount, 0, stops)
      refSize == IF open = {} THEN Units(AllRungs) ELSE Units(open)
  IN  IF stops = {} THEN open # {} ELSE 20 * Apart(qty, refSize) > refSize

-----------------------------------------------------------------------------
(* Properties *)

PlacementTypeOK == open \subseteq AllRungs /\ covered \subseteq AllRungs

\* Whatever levels a routine reads on the chart, the layout passes the checks
\* made before an order: every rung keeps the distance its family was
\* validated with, the stop clears the swing, the shares of each rung are
\* the whole rung, the exchange's ten stop orders suffice, and the targets
\* are in profit and in order unless the last one lies within the margin
\* (0.15 of the range) that is taken from it.
LayoutSound ==
  LET tp == layout.tp
  IN  /\ \A k \in AllRungs : SlGeometryOk(request, layout.levels[k], layout.sl)
      /\ SlPlacementOk(request, layout.sl)
      /\ \A k \in AllRungs : layout.legs[k].quick + layout.legs[k].main + layout.legs[k].runner = 100
      /\ layout.stops <= 10
      /\ (\E t \in request.targets : Worth(request, t) > Part(15)) =>
           0 < tp.quick /\ tp.quick < tp.main /\ tp.main < tp.runner

\* The stops cover less than what has filled.
Exposed == 20 * Units(covered) < 19 * Units(open)

\* However the rungs fill, the stop is trailed and stop orders disappear,
\* verify-bracket calls a ladder critical whenever what has filled is not
\* covered, and, once the whole ladder has filled, only then.
AlarmIsHeard ==
  /\ Exposed => Critical
  /\ open = AllRungs => (Critical => Exposed)

\* A ladder is laid out as validated, and looked after as it fills.
LadderSound == LayoutSound /\ AlarmIsHeard
=============================================================================
