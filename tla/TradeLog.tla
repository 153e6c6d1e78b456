------------------------------ MODULE TradeLog ------------------------------
(* What the commands of journal.js promise of the trades they record: each  *)
(* is atomic, and keeps the lines it is not about and what they record.     *)
CONSTANT Removable  \* the ids of the lines that may be taken away again

VARIABLE book       \* the lines of the journal: records with id, trade and marks

Init == book = {}

\* A new trade gets an id that no line bears.
Record(l) ==
  /\ \A k \in book : k.id # l.id /\ k.trade # l.trade
  /\ book' = book \cup {l}

\* Lines change; each keeps its identity and whatever was noted of its trade.
Change(f) ==
  /\ \A l \in book : f[l].id = l.id /\ f[l].trade = l.trade /\ l.marks \subseteq f[l].marks
  /\ book' = {f[l] : l \in book}

\* The fragments of a trade are taken away once the trade counts for them.
Remove(S) ==
  /\ \A l \in S : l.id \in Removable
  /\ book' = book \ S

Next ==
  \/ \E l \in book' : Record(l)
  \/ \E f \in [book -> book'] : Change(f)
  \/ \E S \in SUBSET book : Remove(S)

Spec == Init /\ [][Next]_book
=============================================================================
