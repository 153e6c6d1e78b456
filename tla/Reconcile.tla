------------------------------ MODULE Reconcile ------------------------------
(***************************************************************************)
(* journal.js reconcile: the pass that aligns trades.jsonl with the truth  *)
(* of the exchange.  A pass fetches, one call after the other, the rows of *)
(* closed PnL, the positions and the open orders; it then matches them     *)
(* with the lines of the journal by entry price: two loops claim what      *)
(* a ladder and a scaled-out trade own, a third one gives each remaining   *)
(* line a position, a group of rows or nothing, what nobody claims becomes *)
(* an orphan line, and the leftovers of closed brackets are cancelled.     *)
(*                                                                         *)
(* Meanwhile the market fills, exits and withdraws, the exchange forgets   *)
(* old rows, and other processes place and log trades.                     *)
(*                                                                         *)
(* Abstractions.  Prices are in cents.  A pair is a symbol whose trades    *)
(* all take one side.  The PnL of a line is the set of the exits it        *)
(* counts, so that two sums are equal only if they count the same exits.   *)
(* What one line of the journal causes is one step.  A ladder (a trade     *)
(* with entry_mode "laddered") is a short of two rungs: the second fills   *)
(* while the first is open, and moves its average, or after the first one  *)
(* has been stopped.                                                       *)
(***************************************************************************)
EXTENDS Integers, Sequences, FiniteSets, FiniteSetsExt

CONSTANTS
  Trades,     \* the trades the account may take
  PairOf,     \* the symbol and side of each
  Level,      \* the limit price of its entry
  Units,      \* the number of its take-profit levels: one unit exits at each
  AddUp,      \* what a scale-in, or the second rung, adds to the average entry price
  Ladders,    \* the trades that enter by a ladder
  Logged,     \* the trades that some process logs; the others are manual
  Faults,     \* "orders": a fetch or a cancellation of orders may fail;
              \* "legs": the stop and targets of a trade may outlive it;
              \* "kill": a pass may be killed, or fail, between two steps;
              \* "sync": another process runs `journal.js sync`
  MaxDay      \* bound on the clock

ASSUME ConstantsAssumption ==
  /\ Trades \subseteq Nat /\ Logged \subseteq Trades /\ Ladders \subseteq Trades
  /\ DOMAIN PairOf = Trades /\ Level \in [Trades -> Nat \ {0}]
  /\ Units \in Nat \ {0} /\ AddUp \in Nat /\ MaxDay \in Nat
  /\ Faults \subseteq {"orders", "legs", "kill", "sync"}

Pairs == {PairOf[n] : n \in Trades}

VARIABLES
  (* the exchange *)
  life,     \* of each trade: none, resting, open, flat, withdrawn, between
            \* (flat, but its second rung still rests), shared (it holds a
            \* position that another filled into) or merged (it filled into
            \* that position, or the position is closed)
  avg,      \* its average entry price
  left,     \* its units still open
  legs,     \* does it hold its reduce-only conditional orders, stop and targets?
  exits,    \* every unit that exited
  visible,  \* the exits the exchange still lists
  day,      \* the clock; a day is longer than the tolerance of six hours
  (* the journal *)
  journal,
  (* a pass *)
  pc, rows, positions, orders, lines, usedG, usedP, handled,
  (* history *)
  calm,     \* the passes begun since something last moved, up to 2
  raced     \* some pass was disturbed

exchange == <<life, avg, left, legs, exits, visible, day>>
pass == <<pc, rows, positions, orders, lines, usedG, usedP, handled>>
vars == <<exchange, journal, pass, calm, raced>>

Exit == [no : Nat, trade : Trades, entry : Nat, day : Nat]

\* The id of a line: a trade's own, or one made by a pass from a group or a
\* position; "-partial" children add to the depth.
Id == [kind : {"trade", "closed", "open"}, pair : Pairs, n : Nat, last : Nat, depth : Nat]
Line == [id : Id, status : {"pending", "open", "closed", "cancelled"}, entry : Nat, day : Nat,
         net : SUBSET Exit, size : Nat]

TradeId(n) == [kind |-> "trade", pair |-> PairOf[n], n |-> n, last |-> 0, depth |-> 0]
ChildId(id) == [id EXCEPT !.depth = @ + 1]

-----------------------------------------------------------------------------
(* Matching                                                                *)

Distance(a, b) == IF a < b THEN b - a ELSE a - b

NearWide(e, ref) == 100 * Distance(e, ref) <= 5 * ref

\* reconcile-match.js: within 0.5% of the reference.
Near(e, ref) == 1000 * Distance(e, ref) <= 5 * ref

\* journal.js: within 0.15%, or within one dollar.
MatchPx(e, ref) == Distance(e, ref) < 100 \/ 10000 * Distance(e, ref) < 15 * ref

Stop(t) == Level[t.id.n] + 3 * AddUp

IsLadder(t) == t.id.kind = "trade" /\ t.id.depth = 0 /\ t.id.n \in Ladders

\* ladderEnvelope: from the entry to the stop, and 5% of that more.
InEnvelope(e, t) ==
  LET pad == (Stop(t) - t.entry) \div 20
  IN  t.entry - pad <= e /\ e <= Stop(t) + pad

Reaches(t, e) == IF IsLadder(t) THEN InEnvelope(e, t) ELSE Near(e, t.entry)

\* The rows of one pair and one average entry price are one cycle.
Groups(rs) == {[pair |-> PairOf[x.trade], entry |-> x.entry,
                rows |-> {y \in rs : PairOf[y.trade] = PairOf[x.trade] /\ y.entry = x.entry}] : x \in rs}

RowsOf(gs) == UNION {g.rows : g \in gs}
LastOf(rs) == CHOOSE x \in rs : \A y \in rs : y.no <= x.no
MeanEntry(rs) == MapThenSumSet(LAMBDA x : x.entry, rs) \div Cardinality(rs)
Rounded(px) == (px + 50) \div 100

\* claimLadderFills, claimScaleOutFills: every group in the line's reach and
\* not older than the line, and the position in its reach.
ClaimedGroups(t) ==
  {g \in Groups(rows) \ usedG : /\ g.pair = t.id.pair /\ Reaches(t, g.entry)
                                /\ LastOf(g.rows).day >= t.day}
ClaimedPosition(t) ==
  {p \in positions \ usedP : p.pair = t.id.pair /\ Reaches(t, p.entry)}

-----------------------------------------------------------------------------
(* The journal file                                                        *)

HasLine(id) == \E i \in DOMAIN journal : journal[i].id = id
LineOf(id) == journal[CHOOSE i \in DOMAIN journal : journal[i].id = id]

Counted(x) == \E i \in DOMAIN journal : journal[i].status = "closed" /\ x \in journal[i].net

\* cmd_set and cmd_close: the line with that id is rewritten.
Rewrite(j, new) == [i \in DOMAIN j |-> IF j[i].id = new.id THEN new ELSE j[i]]

\* The elements of s at the indices of S, in their order: SelectSeq, as a
\* recursive function.
Among(s, S) ==
  LET taken[i \in 0..Len(s)] ==
        IF i = 0 THEN <<>> ELSE IF i \in S THEN Append(taken[i - 1], s[i]) ELSE taken[i - 1]
  IN  taken[Len(s)]

Without(j, id) == Among(j, {i \in DOMAIN j : j[i].id # id})
LadderLines(j) == Among(j, {i \in DOMAIN j : IsLadder(j[i])})
OtherLines(j)  == Among(j, {i \in DOMAIN j : ~IsLadder(j[i])})

\* The child of a scaled-out line, recomputed from all its groups.
Child(t, claim) ==
  LET net == RowsOf(claim)
  IN  [id |-> ChildId(t.id), status |-> "closed", entry |-> MeanEntry(net),
       day |-> LastOf(net).day, net |-> net, size |-> Cardinality(net)]

UpsertOnce(j, child) == IF HasLine(child.id) THEN j ELSE Append(j, child)
UpsertAppends(j, child) == Append(j, child)
UpsertAdds(j, child) ==
  IF HasLine(child.id) THEN Rewrite(j, [LineOf(child.id) EXCEPT !.net = child.net, !.size = @ + child.size])
                       ELSE Append(j, child)

\* The child is logged, or set when its PnL changed: its date stays.
Upsert(j, child) ==
  IF ~HasLine(child.id) THEN Append(j, child)
  ELSE IF LineOf(child.id).net = child.net THEN j
  ELSE Rewrite(j, [child EXCEPT !.day = LineOf(child.id).day])

OpenedSameSize(t, p) == [LineOf(t.id) EXCEPT !.status = "open"]

\* The line of t is open, with the size of the position p.
Opened(t, p) == [LineOf(t.id) EXCEPT !.status = "open", !.size = p.size]

-----------------------------------------------------------------------------
Init ==
  /\ life = [n \in Trades |-> "none"] /\ avg = Level
  /\ left = [n \in Trades |-> 0] /\ legs = [n \in Trades |-> FALSE]
  /\ exits = {} /\ visible = {} /\ day = 0
  /\ journal = <<>>
  /\ pc = "idle" /\ rows = {} /\ positions = {} /\ orders = {}
  /\ lines = <<>> /\ usedG = {} /\ usedP = {} /\ handled = {}
  /\ calm = 0 /\ raced = FALSE

-----------------------------------------------------------------------------
(* The exchange, and the processes that trade                              *)

\* A pass under way works from what it fetched before this move.
Moves == calm' = 0 /\ raced' = (raced \/ pc # "idle")

Place(n) ==
  /\ life[n] = "none"
  /\ life' = [life EXCEPT ![n] = "resting"]
  /\ legs' = [legs EXCEPT ![n] = TRUE]
  /\ Moves
  /\ UNCHANGED <<avg, left, exits, visible, day, journal, pass>>

\* The process that placed the trade logs it, as pending.
Log(n) ==
  /\ n \in Logged /\ life[n] # "none" /\ ~HasLine(TradeId(n))
  /\ journal' = Append(journal, [id |-> TradeId(n), status |-> "pending", entry |-> Level[n],
                                 day |-> day, net |-> {}, size |-> Units])
  /\ Moves
  /\ UNCHANGED <<exchange, pass>>

\* The trade under which a position is on the exchange.
Holds(n) == life[n] \in {"open", "shared"}

\* The entry of a pair that is flat.
Fill(n) ==
  /\ life[n] = "resting" /\ \A m \in Trades : PairOf[m] = PairOf[n] => ~Holds(m)
  /\ life' = [life EXCEPT ![n] = "open"]
  /\ left' = [left EXCEPT ![n] = Units]
  /\ Moves
  /\ UNCHANGED <<avg, legs, exits, visible, day, journal, pass>>

\* The account holds one position per pair: the entry of a second trade fills
\* into the position of the first, at the mean of both, and its legs serve
\* that position.  Ladders do not share a pair.
Merge(n, m) ==
  /\ n # m /\ PairOf[n] = PairOf[m] /\ {n, m} \cap Ladders = {}
  /\ life[n] = "resting" /\ Holds(m)
  /\ life' = [life EXCEPT ![n] = "merged", ![m] = "shared"]
  /\ avg' = [avg EXCEPT ![m] = (avg[m] * left[m] + Level[n] * Units) \div (left[m] + Units)]
  /\ left' = [left EXCEPT ![m] = @ + Units]
  /\ legs' = [legs EXCEPT ![n] = FALSE, ![m] = legs[m] \/ legs[n]]
  /\ Moves
  /\ UNCHANGED <<exits, visible, day, journal, pass>>

\* Of two equal rungs, or a position and its scale-in, the second is to come.
SecondToFill(n) == AddUp # 0 /\ avg[n] = Level[n]

\* bybit_scale_in, once, or the fill of the second rung: the position grows
\* and its average entry moves.
ScaleIn(n) ==
  /\ life[n] = "open" /\ SecondToFill(n)
  /\ avg' = [avg EXCEPT ![n] = @ + AddUp]
  /\ left' = [left EXCEPT ![n] = @ + 1]
  /\ Moves
  /\ UNCHANGED <<life, legs, exits, visible, day, journal, pass>>

\* The second rung of a ladder fills after the first has been stopped.
FillSecond(n) ==
  /\ life[n] = "between"
  /\ life' = [life EXCEPT ![n] = "open"]
  /\ avg' = [avg EXCEPT ![n] = @ + 2 * AddUp]
  /\ left' = [left EXCEPT ![n] = Units]
  /\ Moves
  /\ UNCHANGED <<legs, exits, visible, day, journal, pass>>

\* The legs of a trade that ends are not one-cancels-other: some may stay.
Outlive == {"legs" \in Faults, FALSE}

\* What a position that is closed leaves.
Ends(n) ==
  IF life[n] = "shared" THEN {"merged"}
  ELSE {"flat"} \cup {x \in {"between"} : n \in Ladders /\ SecondToFill(n)}

\* One unit exits.
ExitUnit(n) ==
  /\ Holds(n)
  /\ LET x == [no |-> Cardinality(exits) + 1, trade |-> n, entry |-> avg[n], day |-> day]
     IN  exits' = exits \cup {x} /\ visible' = visible \cup {x}
  /\ left' = [left EXCEPT ![n] = @ - 1]
  /\ IF left[n] = 1
       THEN /\ \E end \in Ends(n) : life' = [life EXCEPT ![n] = end]
            /\ \E stay \in Outlive : legs' = [legs EXCEPT ![n] = stay]
       ELSE UNCHANGED <<life, legs>>
  /\ Moves
  /\ UNCHANGED <<avg, day, journal, pass>>

Withdraw(n) ==
  /\ life[n] = "resting"
  /\ life' = [life EXCEPT ![n] = "withdrawn"]
  /\ \E stay \in Outlive : legs' = [legs EXCEPT ![n] = stay]
  /\ Moves
  /\ UNCHANGED <<avg, left, exits, visible, day, journal, pass>>

Unlogged == {n \in Logged : life[n] # "none" /\ ~HasLine(TradeId(n))}

\* Whoever places a trade logs it within the day; a pass takes seconds.
NextDay ==
  /\ day < MaxDay /\ Unlogged = {} /\ pc = "idle"
  /\ day' = day + 1
  /\ UNCHANGED <<life, avg, left, legs, exits, visible, journal, pass, calm, raced>>

\* The exchange lists the closed rows of about a week, a hundred at most: the
\* oldest goes first, whether its position is closed or still open.
Forget(x) ==
  /\ x.day < day /\ \A y \in visible : x.no <= y.no
  /\ visible' = visible \ {x}
  /\ calm' = 0
  /\ raced' = (raced \/ pc # "idle" \/ ~Counted(x))
  /\ UNCHANGED <<life, avg, left, legs, exits, day, journal, pass>>

-----------------------------------------------------------------------------
(* A pass                                                                  *)

FetchRows ==
  /\ pc = "idle"
  /\ pc' = "positions"
  /\ rows' = visible
  /\ calm' = IF calm = 2 THEN 2 ELSE calm + 1
  /\ raced' = (raced \/ Unlogged # {})
  /\ UNCHANGED <<exchange, journal, positions, orders, lines, usedG, usedP, handled>>

FetchPositions ==
  /\ pc = "positions"
  /\ pc' = "orders"
  /\ positions' = {[pair |-> PairOf[n], entry |-> avg[n], size |-> left[n]] :
                     n \in {m \in Trades : Holds(m)}}
  /\ UNCHANGED <<exchange, journal, rows, orders, lines, usedG, usedP, handled, calm, raced>>

\* The open orders of a pair: its entries, and the legs of its trades.
OrdersOf(pair) ==
  {[pair |-> pair, entry |-> Level[n], reduce |-> FALSE] :
     n \in {m \in Trades : PairOf[m] = pair /\ life[m] = "resting"}}
  \cup {[pair |-> pair, entry |-> Level[n] + 2 * AddUp, reduce |-> FALSE] :
          n \in {m \in Ladders : PairOf[m] = pair /\ life[m] \in {"resting", "open", "between"}
                                                 /\ SecondToFill(m)}}
  \cup {[pair |-> pair, entry |-> 0, reduce |-> TRUE] :
          n \in {m \in Trades : PairOf[m] = pair /\ legs[m]}}

\* Regular and conditional orders are fetched apart, and the failure of a
\* fetch is swallowed: the pair seems to have no order of that list.
FetchOrders ==
  /\ pc = "orders"
  /\ pc' = "ladder"
  /\ \E failed \in IF "orders" \in Faults THEN SUBSET (Pairs \X BOOLEAN) ELSE {{}} :
       /\ orders' = {o \in UNION {OrdersOf(pair) : pair \in Pairs} : <<o.pair, o.reduce>> \notin failed}
       /\ calm' = IF failed = {} THEN calm ELSE 0
       /\ raced' = (raced \/ failed # {})
  /\ lines' = LadderLines(journal)
  /\ UNCHANGED <<exchange, journal, rows, positions, usedG, usedP, handled>>

Matchable == {"open", "pending", "closed"}

\* The head of the lines read at the start of the loop.
NextLine(at) == pc \in at /\ lines # <<>> /\ lines' = Tail(lines)


\* A ladder is engaged by any fill, another trade by signs of a scale-out.
Engaged(t) ==
  /\ t.status \in Matchable
  /\ IF IsLadder(t) THEN ClaimedGroups(t) # {} \/ ClaimedPosition(t) # {}
     ELSE /\ ClaimedGroups(t) # {}
          /\ ClaimedPosition(t) # {} \/ Cardinality(ClaimedGroups(t)) >= 2

PrePasses == {"ladder", "scaleout"}

\* What the loop read of t is what it would write of it: it writes nothing.
ReadsOpen(t, p)     == t.status = "open" /\ t.size = p.size
ReadsClosed(t, net) == t.status = "closed" /\ t.net = net

\* A line that is not engaged is left to the main loop.
PrePassNothing ==
  /\ NextLine(PrePasses) /\ ~Engaged(Head(lines))
  /\ UNCHANGED <<exchange, journal, pc, rows, positions, orders, usedG, usedP, handled,
                 calm, raced>>

\* The position is still open: the line is open, and the exits so far go to
\* its child, written or brought up to date.
PrePassOpen ==
  LET t     == Head(lines)
      claim == ClaimedGroups(t)
  IN  /\ NextLine(PrePasses) /\ Engaged(t)
      /\ \E p \in ClaimedPosition(t) :
           /\ ReadsOpen(t, p) \/ HasLine(t.id)
           /\ usedP' = usedP \cup {p}
           /\ LET opened == IF ReadsOpen(t, p) THEN journal ELSE Rewrite(journal, Opened(t, p))
              IN  journal' = IF claim = {} THEN opened ELSE Upsert(opened, Child(t, claim))
      /\ usedG' = usedG \cup claim
      /\ handled' = handled \cup {t.id}
      /\ UNCHANGED <<exchange, pc, rows, positions, orders, calm, raced>>

\* The pair is flat and the line has its groups: they all make one closed
\* line, and the child is dropped.  A ladder keeps its entry, the anchor of
\* its envelope.
PrePassFlat ==
  LET t     == Head(lines)
      claim == ClaimedGroups(t)
      net   == RowsOf(claim)
      done  == [LineOf(t.id) EXCEPT !.status = "closed", !.net = net, !.size = Cardinality(net),
                                    !.entry = IF IsLadder(t) THEN @ ELSE MeanEntry(net)]
  IN  /\ NextLine(PrePasses) /\ Engaged(t) /\ ClaimedPosition(t) = {}
      /\ ReadsClosed(t, net) \/ HasLine(t.id)
      /\ journal' = Without(IF ReadsClosed(t, net) THEN journal
                            ELSE Rewrite(journal, done),
                            ChildId(t.id))
      /\ usedG' = usedG \cup claim
      /\ handled' = handled \cup {t.id}
      /\ UNCHANGED <<exchange, pc, rows, positions, orders, usedP, calm, raced>>

StartScaleOut ==
  /\ pc = "ladder" /\ lines = <<>>
  /\ pc' = "scaleout" /\ lines' = OtherLines(journal)
  /\ UNCHANGED <<exchange, journal, rows, positions, orders, usedG, usedP, handled,
                 calm, raced>>

StartMainLoop ==
  /\ pc = "scaleout" /\ lines = <<>>
  /\ pc' = "main" /\ lines' = journal
  /\ UNCHANGED <<exchange, journal, rows, positions, orders, usedG, usedP, handled,
                 calm, raced>>

FreePositions(t) == {p \in positions \ usedP : p.pair = t.id.pair /\ MatchPx(p.entry, t.entry)}
FreeGroups(t) == {g \in Groups(rows) \ usedG : g.pair = t.id.pair /\ MatchPx(g.entry, t.entry)}
StillRestingIfOpen(t) ==
  t.status = "open" /\ \E o \in orders : ~o.reduce /\ o.pair = t.id.pair /\ MatchPx(o.entry, t.entry)

StillResting(t) ==
  t.status = "pending" /\ \E o \in orders : /\ ~o.reduce /\ o.pair = t.id.pair
                                            /\ MatchPx(o.entry, t.entry)

MainSkips ==
  /\ NextLine({"main"})
  /\ Head(lines).id \in handled \/ Head(lines).status = "cancelled"
  /\ UNCHANGED <<exchange, journal, pc, rows, positions, orders, usedG, usedP, handled,
                 calm, raced>>

Matches(t) == NextLine({"main"}) /\ t.id \notin handled /\ t.status \in Matchable

MainOpens ==
  LET t == Head(lines)
  IN  /\ Matches(t)
      /\ \E p \in FreePositions(t) :
           /\ usedP' = usedP \cup {p}
           /\ journal' = IF ReadsOpen(t, p) THEN journal
                         ELSE Rewrite(journal, [Opened(t, p) EXCEPT !.entry = p.entry])
      /\ UNCHANGED <<exchange, pc, rows, positions, orders, usedG, handled, calm, raced>>

MainCloses ==
  LET t == Head(lines)
  IN  /\ Matches(t) /\ FreePositions(t) = {}
      /\ \E g \in FreeGroups(t) :
           /\ usedG' = usedG \cup {g}
           /\ journal' = IF ReadsClosed(t, g.rows) THEN journal
                         ELSE Rewrite(journal, [LineOf(t.id) EXCEPT !.status = "closed", !.entry = g.entry,
                                                         !.net = g.rows, !.size = Cardinality(g.rows)])
      /\ UNCHANGED <<exchange, pc, rows, positions, orders, usedP, handled, calm, raced>>

MainCancelsClosed ==
  LET t == Head(lines)
  IN  /\ Matches(t) /\ FreePositions(t) = {} /\ FreeGroups(t) = {}
      /\ journal' = IF StillResting(t) THEN journal
                    ELSE Rewrite(journal, [LineOf(t.id) EXCEPT !.status = "cancelled"])
      /\ UNCHANGED <<exchange, pc, rows, positions, orders, usedG, usedP, handled, calm, raced>>

\* Nothing on the exchange: a closed line and a resting entry stay, anything
\* else is cancelled.
MainCancels ==
  LET t == Head(lines)
  IN  /\ Matches(t) /\ FreePositions(t) = {} /\ FreeGroups(t) = {}
      /\ journal' = IF t.status = "closed" \/ StillResting(t) THEN journal
                    ELSE Rewrite(journal, [LineOf(t.id) EXCEPT !.status = "cancelled"])
      /\ UNCHANGED <<exchange, pc, rows, positions, orders, usedG, usedP, handled,
                     calm, raced>>

\* The line a pass writes for a group nobody claimed.
OrphanLine(g) ==
  [id |-> [kind |-> "closed", pair |-> g.pair, n |-> Rounded(g.entry), last |-> LastOf(g.rows).no,
           depth |-> 0],
   status |-> "closed", entry |-> g.entry, day |-> LastOf(g.rows).day, net |-> g.rows,
   size |-> Cardinality(g.rows)]

\* A group nobody claimed becomes a closed line, unless its id is known.
OrphanGroup ==
  /\ pc = "main" /\ lines = <<>>
  /\ \E g \in Groups(rows) \ usedG :
       /\ usedG' = usedG \cup {g}
       /\ journal' = IF HasLine(OrphanLine(g).id) THEN journal ELSE Append(journal, OrphanLine(g))
  /\ UNCHANGED <<exchange, pc, rows, positions, orders, lines, usedP, handled, calm, raced>>

OrphanPosition ==
  /\ pc = "main" /\ lines = <<>> /\ Groups(rows) \subseteq usedG
  /\ \E p \in positions \ usedP :
       LET id == [kind |-> "open", pair |-> p.pair, n |-> Rounded(p.entry), last |-> 0, depth |-> 0]
       IN  /\ usedP' = usedP \cup {p}
           /\ journal' = IF HasLine(id) THEN journal
                         ELSE Append(journal, [id |-> id, status |-> "open", entry |-> p.entry,
                                               day |-> day, net |-> {}, size |-> p.size])
  /\ UNCHANGED <<exchange, pc, rows, positions, orders, lines, usedG, handled, calm, raced>>

\* findOrphanOrders: the pairs with orders but no position, where the journal
\* has no active line, or where no entry is left among the orders.
ActivePairs == {journal[i].id.pair : i \in {j \in DOMAIN journal :
                                              journal[j].status \in {"open", "pending"}}}
OrphanPairs ==
  {o.pair : o \in {q \in orders :
    /\ \A p \in positions : p.pair # q.pair
    /\ q.pair \in ActivePairs =>
         q.reduce /\ ~\E e \in orders : e.pair = q.pair /\ ~e.reduce}}

\* The exchange keeps conditional orders in a list of their own, which a
\* plain cancel-all does not reach: only entries are withdrawn.  The failure
\* of a cancellation is swallowed.
CancelOrphans ==
  \E done \in IF "orders" \in Faults THEN SUBSET OrphanPairs ELSE {OrphanPairs} :
    life' = [n \in Trades |-> IF PairOf[n] \in done /\ life[n] = "resting"
                              THEN "withdrawn"
                              ELSE IF PairOf[n] \in done /\ life[n] = "between" THEN "flat"
                              ELSE life[n]]

Forgets == /\ pc' = "idle" /\ lines' = <<>>
           /\ rows' = {} /\ positions' = {} /\ orders' = {}
           /\ usedG' = {} /\ usedP' = {} /\ handled' = {}

\* Last, the orders of the orphan pairs are cancelled.
EndPass ==
  /\ pc = "main" /\ lines = <<>> /\ Groups(rows) \subseteq usedG /\ positions \subseteq usedP
  /\ CancelOrphans
  /\ Forgets
  /\ UNCHANGED <<avg, left, legs, exits, visible, day, journal, calm, raced>>

\* A child that a pre-pass dropped may still be among the lines its loop has
\* read: cmd_set and cmd_close do not find it and throw.
Throws ==
  LET t == Head(lines)
  IN  /\ pc \in PrePasses /\ lines # <<>> /\ Engaged(t) /\ ~HasLine(t.id)
      /\ IF ClaimedPosition(t) = {} THEN ~ReadsClosed(t, RowsOf(ClaimedGroups(t)))
                                    ELSE \E p \in ClaimedPosition(t) : ~ReadsOpen(t, p)

\* A pass that dies leaves the journal as it is.
Dies ==
  /\ pc # "idle" /\ ("kill" \in Faults \/ Throws)
  /\ Forgets
  /\ calm' = 0
  /\ UNCHANGED <<exchange, journal, raced>>

\* matchClosedRows: of the pair, near the entry, and no older than the line.
SyncRows(t) ==
  {x \in visible : PairOf[x.trade] = t.id.pair /\ Near(x.entry, t.entry) /\ x.day >= t.day}

\* `journal.js sync` closes the active lines that have rows, without a look
\* at the positions.  No row is given to two lines.
SyncLine(t) ==
  /\ "sync" \in Faults /\ t.status \in {"open", "pending"} /\ SyncRows(t) # {}
  /\ journal' = Rewrite(journal, [t EXCEPT !.status = "closed", !.net = SyncRows(t),
                                           !.entry = MeanEntry(SyncRows(t))])
  /\ Moves
  /\ UNCHANGED <<exchange, pass>>

-----------------------------------------------------------------------------
PassStep ==
  \/ FetchRows \/ FetchPositions \/ FetchOrders
  \/ PrePassNothing \/ PrePassOpen \/ PrePassFlat \/ StartScaleOut \/ StartMainLoop
  \/ MainSkips \/ MainOpens \/ MainCloses \/ MainCancels
  \/ OrphanGroup \/ OrphanPosition \/ EndPass

Next ==
  \/ \E n \in Trades : \/ Place(n) \/ Log(n) \/ Fill(n) \/ ScaleIn(n) \/ ExitUnit(n)
                       \/ FillSecond(n) \/ Withdraw(n) \/ \E m \in Trades : Merge(n, m)
  \/ \E x \in visible : Forget(x)
  \/ \E i \in DOMAIN journal : SyncLine(journal[i])
  \/ NextDay \/ Dies
  \/ PassStep

Spec == Init /\ [][Next]_vars

\* The scheduler keeps running passes, and a pass runs to its end.
PassRuns == PassStep \/ (Throws /\ Dies)

-----------------------------------------------------------------------------
(* Properties                                                              *)

\* A pass has just ended, undisturbed.
Fresh == pc = "idle" /\ calm # 0

LinesIn(status) == {i \in DOMAIN journal : journal[i].status = status}

\* Every variable has its type.
TypeOK ==
  /\ life \in [Trades -> {"none", "resting", "open", "between", "flat", "withdrawn", "shared", "merged"}]
  /\ avg \in [Trades -> Nat] /\ left \in [Trades -> Nat]
  /\ legs \in [Trades -> BOOLEAN]
  /\ exits \subseteq Exit /\ visible \subseteq exits
  /\ day \in Nat
  /\ journal \in Seq(Line)
  /\ pc \in {"idle", "positions", "orders", "ladder", "scaleout", "main"}
  /\ rows \subseteq Exit
  /\ positions \subseteq [pair : Pairs, entry : Nat, size : Nat]
  /\ orders \subseteq [pair : Pairs, entry : Nat, reduce : BOOLEAN]
  /\ lines \in Seq(Line)
  /\ usedG \subseteq Groups(rows) /\ usedP \subseteq positions
  /\ handled \subseteq Id
  /\ calm \in 0..2 /\ raced \in BOOLEAN

\* An id names one line, however passes, logs and deaths of a pass
\* interleave: cmd_set and cmd_close find the line they mean.
OneLinePerId == \A i, j \in DOMAIN journal : journal[i].id = journal[j].id => i = j

\* After a quiet pass the open positions are those of the exchange, with
\* their sizes, whatever earlier passes did while the market moved.
PositionsAligned ==
  Fresh => /\ \A n \in Trades : Holds(n) =>
                \E i \in LinesIn("open") : journal[i].id.pair = PairOf[n] /\ journal[i].size = left[n]
           /\ \A i \in LinesIn("open") :
                \E n \in Trades : Holds(n) /\ PairOf[n] = journal[i].id.pair
           /\ \A i, j \in LinesIn("open") : journal[i].id.pair = journal[j].id.pair => i = j

\* After a quiet pass no realised PnL is missing: every exit the exchange
\* lists is counted by a closed line.
NoExitMissed == Fresh => \A x \in visible : Counted(x)

\* ... and an exit counted twice is counted by a line and its own partial
\* child, never by two trades.
CountedOnce ==
  (Fresh /\ ~raced) => \A i, j \in LinesIn("closed") :
    journal[i].net \cap journal[j].net # {} =>
      \/ i = j
      \/ journal[j].id = ChildId(journal[i].id) \/ journal[i].id = ChildId(journal[j].id)

\* This step belongs to a pass over what the previous pass saw.
SeenAgain == calm = 2 /\ calm' = 2 /\ ~raced

\* The line of a trade reads as the trade is on the exchange: a trade that is
\* over is closed with the exits the exchange still lists, or with some of
\* its own once they are all forgotten.
Reads(n) ==
  LET l      == LineOf(TradeId(n))
      mine   == {x \in exits : x.trade = n}
      listed == mine \cap visible
  IN  CASE life[n] = "resting"   -> l.status = "pending"
        [] life[n] = "open"      -> l.status = "open" /\ l.size = left[n]
        [] life[n] \in {"between", "flat"} ->
             l.status = "closed" /\ IF listed # {} THEN l.net = listed ELSE l.net \subseteq mine
        [] life[n] = "withdrawn" -> l.status = "cancelled"
        [] OTHER                 -> FALSE

\* When no pass was ever disturbed, every logged trade reads in the journal
\* as it is on the exchange after a pass (journal.js lines 1029-1076), unless
\* its position is, or was, another trade's too.
Mirrored ==
  (Fresh /\ ~raced) =>
    \A n \in Logged : HasLine(TradeId(n)) /\ life[n] \notin {"shared", "merged"} => Reads(n)

\* The exchange has forgotten x and still listed later exits of its trade
\* when the pass began.
AgedAlone(x) == x \notin rows /\ \E y \in rows : y.trade = x.trade

\* The step opens the line again.
Reopened(t) == \E i \in DOMAIN journal' : journal'[i].id = t.id /\ journal'[i].status = "open"

\* What a closed line counts stays counted by some line, even once the
\* exchange has forgotten the rows: only a pass may drop it that finds some
\* of the rows of its trade, but not all, or a position at the line's entry.
HistoryKept ==
  [][\A i \in LinesIn("closed") : \A x \in journal[i].net :
       raced \/ Counted(x)' \/ AgedAlone(x) \/ Reopened(journal[i])]_vars

\* Two trades of one pair never share an exit, when no pass was disturbed:
\* reconcile-match.js:155, "la tolerance d'entree + le sens + la fenetre temps
\* separent deux trades distincts du meme symbole".
Separated ==
  (Fresh /\ ~raced) => \A i \in LinesIn("closed") : \A x, y \in journal[i].net : x.trade = y.trade

\* After a quiet pass an exit is in one line, or in a parent and the child of
\* it that stayed, and two trades of one pair never mix in a closed line
\* (journal.js lines 986-1022, reconcile-match.js:155).
KeptApart == CountedOnce /\ Separated

\* A pass over what the previous pass saw changes nothing: the child is
\* upserted from what the journal held then (journal.js lines 1005-1017).
\* Lines a pass made itself, from groups nobody claimed, may still be merged
\* by the next one (line 1081).
Idempotent ==
  [][(SeenAgain /\ \A i \in DOMAIN journal : journal[i].id.kind = "trade")
     => UNCHANGED journal]_vars

-----------------------------------------------------------------------------
(* What a comment of the code claims without condition                     *)

\* journal.js:983, "FLAT -> agrege en UN trade": no exit counts twice.
SumIsRight ==
  (Fresh /\ ~raced) => \A i, j \in LinesIn("closed") :
    journal[i].net \cap journal[j].net # {} => i = j
=============================================================================
