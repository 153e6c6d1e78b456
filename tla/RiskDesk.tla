------------------------------ MODULE RiskDesk ------------------------------
(***************************************************************************)
(* How much the desk may risk.  `journal.js risk` keeps equity.json (the   *)
(* start of the day, the high-water mark, the last balance); `size` turns  *)
(* a risk in percent into an order; `preflight` runs the guards over the   *)
(* order, equity.json and the journal; then the order is placed, and only  *)
(* then logged.                                                            *)
(*                                                                         *)
(* The guards read what is written: between the preflight of an order and  *)
(* its line in the journal another process may pass its own.  equity.json  *)
(* is emptied before it is written, what cannot be read is taken for an    *)
(* unknown equity, and an unknown equity forbids nothing.                  *)
(*                                                                         *)
(* Units: risks and rates are basis points (bp), money is bp of a dollar.  *)
(* The rounding of a size to 6 digits and of a risk to 2 is left out.      *)
(***************************************************************************)
EXTENDS Integers, FiniteSets, FiniteSetsExt

CONSTANTS
  Sides,          \* the sides that trade: long, short
  Desks,          \* the processes that place orders: the routine, the radar
  Balances,       \* the equities the account may have
  RiskBase,       \* RM_RISK_PCT_A, _B, _D of the tiers in use
  Edges,          \* the edges of setups, in hundredths
  Distances,      \* the distances entry-stop, in bp of the entry
  Flaws,          \* what may be wrong with an order, besides nothing
  RealMoney,      \* BYBIT_DEMO = 0
  Relaxed,        \* DEMO_ACTIVE: the soft guards only warn
  MaxLeverage,    \* RM_MAX_LEVERAGE, 0 for none
  MaxSideRisk, MaxTotalRisk,   \* RM_MAX_SIDE_RISK_PCT, RM_MAX_TOTAL_RISK_PCT
  MaxActive,      \* RM_MAX_ACTIVE
  MaxTrades,      \* RM_MAX_TRADES_PER_DAY
  MaxDays, MaxOrders, MaxHidden   \* bounds of the exploration

DailyLoss == 500      \* RM_DAILY_LOSS_PCT
MaxDrawdown == 1000   \* RM_MAX_DRAWDOWN_PCT

FlawKinds == {"none", "bare", "tight", "closed", "poor"}

ASSUME RiskAssumption ==
  /\ Sides \subseteq {"long", "short"} /\ IsFiniteSet(Desks) /\ Desks # {}
  /\ Balances \subseteq Nat \ {0} /\ IsFiniteSet(Balances) /\ Balances # {}
  /\ RiskBase \subseteq Nat /\ IsFiniteSet(RiskBase) /\ RiskBase # {}
  /\ Edges \subseteq Nat /\ Distances \subseteq Nat /\ Flaws \subseteq FlawKinds
  /\ RealMoney \in BOOLEAN /\ Relaxed \in BOOLEAN /\ MaxLeverage \in Nat
  /\ MaxSideRisk \in Nat /\ MaxTotalRisk \in Nat /\ MaxActive \in Nat /\ MaxTrades \in Nat
  /\ MaxDays \in Nat /\ MaxOrders \in Nat /\ MaxHidden \in Nat

VARIABLES
  today,     \* the day
  balance,   \* the equity of the account
  eqFile,    \* equity.json: a record, or none when missing, empty or cut
  eqCut,     \* is it there but not readable?
  eqNew,     \* what a `risk` under way will write: at most one
  desk,      \* what each process is doing, with which order
  book,      \* the orders on the exchange, with their line in the journal
  made,      \* the number of orders made
  high,      \* history: the highest equity that equity.json recorded
  blind,     \* history: has an order passed while the equity was unknown?
  hidden,    \* history: the number of orders placed and never logged
  halted,    \* history: who placed since equity.json has recorded a breach
  pastHalt   \* history: has anyone placed twice since then?

eqVars == <<eqFile, eqCut, eqNew, high>>
riskVars == <<today, balance, eqVars, desk, book, made, blind, hidden,
              halted, pastHalt>>

Order == [n : Nat, side : Sides, risk : Nat, flaw : FlawKinds]
Entry == [order : Order, day : 0..MaxDays, logged : BOOLEAN, active : BOOLEAN]
EqState == [day : Nat, start : Balances, high : Balances, last : Balances]
Idle == [phase |-> "idle", order |-> {}]

RiskTypeOK ==
  /\ today \in 0..MaxDays /\ balance \in Balances
  /\ eqFile \subseteq EqState /\ \A s, t \in eqFile : s = t
  /\ eqNew \subseteq EqState /\ \A s, t \in eqNew : s = t
  /\ eqCut \in BOOLEAN /\ high \in Nat
  /\ desk \in [Desks -> [phase : {"idle", "sized", "cleared", "placed"}, order : SUBSET Order]]
  /\ book \subseteq Entry
  /\ made \in 0..MaxOrders /\ hidden \in 0..MaxHidden
  /\ blind \in BOOLEAN /\ halted \subseteq Desks /\ pastHalt \in BOOLEAN

RiskInit ==
  /\ today = 0 /\ balance = Max(Balances)
  /\ eqFile = {[day |-> 0, start |-> balance, high |-> balance, last |-> balance]}
  /\ eqCut = FALSE /\ eqNew = {} /\ high = balance
  /\ desk = [p \in Desks |-> Idle] /\ book = {} /\ made = 0
  /\ blind = FALSE /\ hidden = 0 /\ halted = {} /\ pastHalt = FALSE

-----------------------------------------------------------------------------
(* sizing.js                                                               *)

Rounded(a, b) == (2 * a + b) \div (2 * b)

\* Per mille of the base risk; the reference is an edge of 1.2.
EdgeScale(edge) == Max({400, Min({1000, Rounded(edge * 1000, 120)})})

\* Full below 4% of drawdown, down to 0.4 at the breaker, linear between.
DrawdownScale(dd) ==
  IF dd <= 400 THEN 1000
  ELSE IF dd >= MaxDrawdown THEN 400
  ELSE 1000 - Rounded((dd - 400) * 600, MaxDrawdown - 400)

\* The risk, in bp of the equity, of the size that computeSize returns: the
\* target, or what the leverage cap leaves of it.
ComputeSize(target, dist) ==
  IF dist = 0 THEN 0
  ELSE IF MaxLeverage = 0 THEN target
  ELSE Min({target, MaxLeverage * dist})

\* The drawdown that cmd_size sees; without equity.json it is 0.
SizeDrawdown ==
  LET h == Max({st.high : st \in eqFile} \cup {balance})
  IN  Rounded((h - balance) * 10000, h)

SizedRisk(base, edge, dist) ==
  ComputeSize(Rounded(base * EdgeScale(edge) * DrawdownScale(SizeDrawdown), 1000000), dist)

-----------------------------------------------------------------------------
(* equity.json and the breaker                                             *)

\* The state that the balance leads to; a new day starts at the balance.
NextEqState ==
  IF eqFile = {} THEN [day |-> today, start |-> balance, high |-> balance, last |-> balance]
  ELSE LET st == CHOOSE s \in eqFile : TRUE
       IN  [day   |-> today,
            start |-> IF st.day # today THEN balance ELSE st.start,
            high  |-> Max({st.high, balance}),
            last  |-> balance]

DayBreach(st) == (st.start - st.last) * 10000 > DailyLoss * st.start
DrawdownBreach(st) == RealMoney /\ (st.high - st.last) * 10000 > MaxDrawdown * st.high

\* computeHalt over _equityState: the day of the state is not looked at, and
\* a file that cannot be read halts nothing.
Halt(file) == \E st \in file : DayBreach(st) \/ DrawdownBreach(st)

\* cmd_risk reads, computes and opens the file to write it.  A file that is
\* cut makes it throw: nothing but a hand repairs it.
RiskOpens ==
  /\ ~eqCut /\ eqNew = {}
  /\ eqNew' = {NextEqState} /\ eqFile' = {} /\ eqCut' = TRUE
  /\ UNCHANGED <<today, balance, high, desk, book, made, blind, hidden, halted, pastHalt>>

RiskWrites ==
  /\ eqNew # {}
  /\ eqFile' = eqNew /\ eqCut' = FALSE /\ eqNew' = {}
  /\ high' = Max({st.high : st \in eqNew} \cup {high})
  /\ halted' = IF Halt(eqNew) THEN halted ELSE {}
  /\ UNCHANGED <<today, balance, desk, book, made, blind, hidden, pastHalt>>

RiskKilled ==
  /\ eqNew # {} /\ hidden < MaxHidden
  /\ eqNew' = {} /\ halted' = {}
  /\ UNCHANGED <<today, balance, eqFile, eqCut, high, desk, book, made, blind,
                 hidden, pastHalt>>

-----------------------------------------------------------------------------
(* exposure and the guards                                                 *)

ActiveTrades == {b \in book : b.logged /\ b.active}
RiskOf(orders) == SumFunctionOnSet([b \in orders |-> b.order.risk], orders)

\* Mutant of CanAdd: the cap is on the count alone.
CanAddByCount(side) == Cardinality(ActiveTrades) < MaxActive

CanAdd(side) ==
  /\ Cardinality(ActiveTrades) < MaxActive
  /\ \A st \in eqFile :
       /\ RiskOf({b \in ActiveTrades : b.order.side = side}) < MaxSideRisk * st.last
       /\ RiskOf(ActiveTrades) < MaxTotalRisk * st.last

\* Mutant of TodayCount: closed trades are not counted.
TodayCountOpen == Cardinality({b \in ActiveTrades : b.day = today})

TodayCount == Cardinality({b \in book : b.logged /\ b.day = today})

Guards == {"sl-mandatory", "sl-geometry", "session", "risk-reward", "breaker",
           "daily-limit", "exposure"}

SoftGuards == {"risk-reward", "breaker", "daily-limit", "exposure"}

Refuses(g, o) ==
  CASE g = "sl-mandatory" -> o.flaw = "bare"
    [] g = "sl-geometry"  -> o.flaw = "tight"
    [] g = "session"      -> o.flaw = "closed"
    [] g = "risk-reward"  -> o.flaw = "poor"
    [] g = "breaker"      -> Halt(eqFile)
    [] g = "daily-limit"  -> TodayCount >= MaxTrades
    [] g = "exposure"     -> ~CanAdd(o.side)

\* Mutant of Blocks: the soft guards never block.
BlocksHardOnly(o) == {g \in Guards : Refuses(g, o)} \ SoftGuards

Blocks(o) == {g \in Guards : Refuses(g, o)} \ (IF Relaxed THEN SoftGuards ELSE {})

-----------------------------------------------------------------------------
(* An order, from its size to its line in the journal                      *)

Size(p, side, base, edge, dist, flaw) ==
  LET o == [n |-> made + 1, side |-> side, flaw |-> flaw,
            risk |-> SizedRisk(base, edge, dist) * balance]
  IN
  /\ desk[p].phase = "idle" /\ made < MaxOrders
  /\ desk' = [desk EXCEPT ![p] = [phase |-> "sized", order |-> {o}]]
  /\ made' = made + 1
  /\ UNCHANGED <<today, balance, eqVars, book, blind, hidden, halted, pastHalt>>

PreflightAllows(p) ==
  /\ desk[p].phase = "sized"
  /\ \A o \in desk[p].order : Blocks(o) = {}
  /\ desk' = [desk EXCEPT ![p].phase = "cleared"]
  /\ blind' = (blind \/ eqFile = {})
  /\ UNCHANGED <<today, balance, eqVars, book, made, hidden, halted, pastHalt>>

\* Refused by the guards, or by the exchange, or killed before it is placed.
Abandon(p) ==
  /\ \/ desk[p].phase = "sized" /\ \E o \in desk[p].order : Blocks(o) # {}
     \/ desk[p].phase = "cleared"
  /\ desk' = [desk EXCEPT ![p] = Idle]
  /\ UNCHANGED <<today, balance, eqVars, book, made, blind, hidden, halted, pastHalt>>

Place(p) ==
  /\ desk[p].phase = "cleared"
  /\ desk' = [desk EXCEPT ![p].phase = "placed"]
  /\ book' = book \cup {[order |-> o, day |-> today, logged |-> FALSE, active |-> TRUE] :
                          o \in desk[p].order}
  /\ halted' = IF Halt(eqFile) THEN halted \cup {p} ELSE halted
  /\ pastHalt' = (pastHalt \/ (Halt(eqFile) /\ p \in halted))
  /\ UNCHANGED <<today, balance, eqVars, made, blind, hidden>>

\* The line carries the day on which it is written.
LogOrder(p) ==
  /\ desk[p].phase = "placed"
  /\ desk' = [desk EXCEPT ![p] = Idle]
  /\ book' = {IF b.order \in desk[p].order THEN [b EXCEPT !.logged = TRUE, !.day = today]
              ELSE b : b \in book}
  /\ UNCHANGED <<today, balance, eqVars, made, blind, hidden, halted, pastHalt>>

\* The command fails, or its process is killed before it.
LogMissed(p) ==
  /\ desk[p].phase = "placed" /\ hidden < MaxHidden
  /\ desk' = [desk EXCEPT ![p] = Idle]
  /\ hidden' = hidden + 1
  /\ UNCHANGED <<today, balance, eqVars, book, made, blind, halted, pastHalt>>

Exit(b) ==
  /\ b.active /\ b.logged
  /\ book' = (book \ {b}) \cup {[b EXCEPT !.active = FALSE]}
  /\ UNCHANGED <<today, balance, eqVars, desk, made, blind, hidden, halted, pastHalt>>

BalanceMoves(bal) ==
  /\ balance # bal /\ balance' = bal
  /\ UNCHANGED <<today, eqVars, desk, book, made, blind, hidden, halted, pastHalt>>

NewDay ==
  /\ today < MaxDays /\ today' = today + 1
  /\ UNCHANGED <<balance, eqVars, desk, book, made, blind, hidden, halted, pastHalt>>

-----------------------------------------------------------------------------
RiskNext ==
  \/ RiskOpens \/ RiskWrites \/ RiskKilled \/ NewDay
  \/ \E bal \in Balances : BalanceMoves(bal)
  \/ \E b \in book : Exit(b)
  \/ \E p \in Desks :
       \/ \E side \in Sides, base \in RiskBase, edge \in Edges, dist \in Distances,
             flaw \in Flaws : Size(p, side, base, edge, dist, flaw)
       \/ PreflightAllows(p) \/ Abandon(p) \/ Place(p) \/ LogOrder(p) \/ LogMissed(p)

RiskSpec == RiskInit /\ [][RiskNext]_riskVars

-----------------------------------------------------------------------------
\* The most that one order may risk: the base risk of its tier, of the equity.
OrderBudget == Max(RiskBase) * Max(Balances)

\* What is on the exchange, logged or not, overshoots a cap by no more than
\* one order per process that checks, and one per order that was never logged
\* - in whatever order processes check, place and log, and whatever the equity
\* does meanwhile (journal.js lines 1167-1203 and 1587-1614; sizing.js lines
\* 20-95: no scale raises the risk).  The caps do not bind in demo, nor once
\* an order has passed while equity.json could not be read.
RiskBounded ==
  ~Relaxed /\ ~blind =>
    LET live == {b \in book : b.active}
        slack == (Cardinality(Desks) + hidden) * OrderBudget
    IN  /\ \A side \in Sides :
             RiskOf({b \in live : b.order.side = side}) <= MaxSideRisk * high + slack
        /\ RiskOf(live) <= MaxTotalRisk * high + slack

\* The quota is passed by no more than the other processes, also across
\* midnight (guards.js lines 132-141).
QuotaBounded ==
  ~Relaxed => Cardinality({b \in book : b.logged /\ b.day = today}) <= MaxTrades + Cardinality(Desks) - 1

\* The limits that the checks of a desk and the lines of the journal give.
WithinLimits == RiskBounded /\ QuotaBounded

\* Once equity.json records a breach, a process places at most the order it
\* had cleared before, until a later `risk` finds the breach gone
\* (journal.js lines 534-552, guards.js lines 118-130).
HaltStops == ~Relaxed /\ ~blind => ~pastHalt
=============================================================================
