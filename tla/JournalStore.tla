---------------------------- MODULE JournalStore ----------------------------
(* trades.jsonl under the commands of several processes: the routine, the    *)
(* radar, a reconcile pass, the monitor, a human.  A command reads the whole *)
(* file (load), computes, truncates the file and writes it whole (saveAll);  *)
(* nothing locks the file.  The lines are a set: nothing depends on their    *)
(* order, which is that of the trades they record.  Of a line only its id,   *)
(* its trade, its status, and what accumulates on it (the snapshots of its   *)
(* timeline, tp_taken, monitor_managed) are kept.                            *)
EXTENDS Naturals, FiniteSets

CONSTANTS
  Procs,      \* the processes that run commands of journal.js
  Wanted,     \* the ids that are asked for when a trade is logged: <<name, 0>>
  Fragments,  \* those of them that are fragments of other trades
  MaxSuffix,  \* bound: the letters appended to an id
  MaxCommands,\* bound: the commands run
  Faults      \* {"kill"} or {}

Ids      == {<<w[1], k>> : w \in Wanted, k \in 0..MaxSuffix}
Statuses == {"pending", "open", "closed", "cancelled"}

ASSUME ConstantsAssumption ==
  /\ \A w \in Wanted : w = <<w[1], 0>>
  /\ Fragments \subseteq Wanted
  /\ MaxSuffix \in Nat /\ MaxCommands \in Nat
  /\ Faults \subseteq {"kill"}

\* trade is the number of the command that logged the line, by that of the
\* last one that assigned its status, marks those of the ones that noted
\* something of it.
Line == [id : Ids, trade : Nat, status : Statuses, by : Nat, marks : SUBSET Nat]

VARIABLES
  file,      \* the lines of trades.jsonl
  pc,        \* idle, loaded (between load and saveAll), or saving
  copy,      \* what a process will write
  todo,      \* for a running sync, the trades it has still to close
  n,         \* the number of commands begun
  effect,    \* history: what each process is recording: <<trade, command>>
  alone,     \* history: no other command has run beside this one
  safe,      \* history: what was recorded by commands that ran alone
  removed,   \* history: the trades whose line was taken away
  disturbed  \* history: overlap, torn (a read or a write during a write), kill

procs == <<pc, copy, todo, effect, alone>>
vars  == <<file, procs, n, safe, removed, disturbed>>

IdsOf(f) == {l.id : l \in f}
Active(p) == pc[p] # "idle"

\* The journal as it stands: what is being written, or the file.
Saving == {p \in Procs : pc[p] = "saving"}
Book == IF Saving = {} THEN file ELSE copy[CHOOSE p \in Saving : TRUE]

Init ==
  /\ file = {}
  /\ pc = [p \in Procs |-> "idle"] /\ copy = [p \in Procs |-> {}]
  /\ todo = [p \in Procs |-> {}]
  /\ n = 0
  /\ effect = [p \in Procs |-> {}] /\ alone = [p \in Procs |-> TRUE]
  /\ safe = {} /\ removed = {} /\ disturbed = {}

-----------------------------------------------------------------------------
(* The commands up to saveAll: what each makes of the lines it has read      *)

\* Loads the file, and will write f, by which this command records e.
Load(p, f, e) ==
  /\ ~Active(p) /\ n < MaxCommands
  /\ n' = n + 1
  /\ pc' = [pc EXCEPT ![p] = "loaded"]
  /\ copy' = [copy EXCEPT ![p] = f]
  /\ effect' = [effect EXCEPT ![p] = e]
  /\ alone' = [q \in Procs |-> IF q = p THEN \A r \in Procs \ {p} : ~Active(r)
                               ELSE alone[q] /\ ~Active(q)]
  /\ disturbed' = disturbed \cup (IF \E r \in Procs : Active(r) THEN {"overlap"} ELSE {})
                            \cup (IF Saving # {} THEN {"torn"} ELSE {})
  /\ UNCHANGED <<file, safe>>

\* Mutant of FreshId: a collision is not looked for.
FreshIdAny(f, wanted, id) == id = wanted

\* The id a trade is logged under: the one asked for, or the first letter
\* after it that is free.
FreshId(f, wanted, id) ==
  IF wanted \notin IdsOf(f) THEN id = wanted
  ELSE /\ id \in {<<wanted[1], k>> : k \in 1..MaxSuffix} \ IdsOf(f)
       /\ \A k \in 1..MaxSuffix : k < id[2] => <<wanted[1], k>> \in IdsOf(f)

\* log: a line is appended.  (reconcile, which logs the fragments, has looked
\* for their id in an earlier read.)
Log(p, wanted, id, status) ==
  /\ todo[p] = {}
  /\ status \in IF wanted \in Fragments THEN {"open", "closed"} ELSE {"pending", "open"}
  /\ FreshId(file, wanted, id)
  /\ Load(p, file \cup {[id |-> id, trade |-> n + 1, status |-> status, by |-> n + 1,
                         marks |-> {}]}, {<<n + 1, 0>>})
  /\ UNCHANGED <<todo, removed>>

Replace(f, l, m) == (f \ {l}) \cup {m}

\* Mutant of Become: the status is taken for that of the account.
BecomeFilled(l, status) ==
  [l EXCEPT !.status = IF status = "closed" THEN "flat" ELSE status, !.by = n + 1]

Become(l, status) == [l EXCEPT !.status = status, !.by = n + 1]

Set(p, l, status) ==
  /\ todo[p] = {}
  /\ Load(p, Replace(file, l, Become(l, status)), {<<l.trade, n + 1>>})
  /\ UNCHANGED <<todo, removed>>

Close(p, l) ==
  /\ todo[p] = {}
  /\ Load(p, Replace(file, l, Become(l, "closed")), {<<l.trade, n + 1>>})
  /\ UNCHANGED <<todo, removed>>

\* Mutant of Noted: what was noted before is replaced.
NotedAnew(l) == [l EXCEPT !.marks = {n + 1}]

Noted(l) == [l EXCEPT !.marks = @ \cup {n + 1}]

\* note, and the end of a monitor tick, which adds to several lines (or to
\* none, when those it banked have gone).
Note(p, S) ==
  /\ todo[p] = {}
  /\ Load(p, (file \ S) \cup {Noted(l) : l \in S}, {<<l.trade, n + 1>> : l \in S})
  /\ UNCHANGED <<todo, removed>>

\* Mutant of Drop: any lines are taken away.
DropAny(p, S) ==
  /\ todo[p] = {}
  /\ Load(p, file \ S, {})
  /\ removed' = removed \cup {l.trade : l \in S}
  /\ UNCHANGED todo

\* reconcile takes one fragment away, defrag one or several.
Drop(p, S) ==
  /\ todo[p] = {} /\ \A l \in S : l.id \in Fragments
  /\ Load(p, file \ S, {})
  /\ removed' = removed \cup {l.trade : l \in S}
  /\ UNCHANGED todo

\* sync lists the trades that have exits, then closes them one by one; a trade
\* whose line has gone meanwhile ends it.
SyncList(p) ==
  /\ ~Active(p) /\ todo[p] = {}
  /\ \E ids \in SUBSET IdsOf({l \in file : l.status \in {"open", "pending"}}) \ {{}} :
       todo' = [todo EXCEPT ![p] = ids]
  /\ UNCHANGED <<file, pc, copy, effect, alone, n, safe, removed, disturbed>>

SyncClose(p, l) ==
  /\ l.id \in todo[p]
  /\ Load(p, Replace(file, l, Become(l, "closed")), {<<l.trade, n + 1>>})
  /\ todo' = [todo EXCEPT ![p] = @ \ {l.id}]
  /\ UNCHANGED removed

SyncThrows(p) ==
  /\ ~Active(p) /\ \E id \in todo[p] : id \notin IdsOf(file)
  /\ todo' = [todo EXCEPT ![p] = {}]
  /\ UNCHANGED <<file, pc, copy, effect, alone, n, safe, removed, disturbed>>

-----------------------------------------------------------------------------
(* saveAll: writeFileSync opens the file, which empties it, and writes       *)

\* The process has ended: nothing of it is left.
Ends(p) ==
  /\ pc' = [pc EXCEPT ![p] = "idle"] /\ copy' = [copy EXCEPT ![p] = {}]
  /\ effect' = [effect EXCEPT ![p] = {}] /\ alone' = [alone EXCEPT ![p] = TRUE]

Truncate(p) ==
  /\ pc[p] = "loaded"
  /\ pc' = [pc EXCEPT ![p] = "saving"]
  /\ file' = {}
  /\ disturbed' = disturbed \cup (IF Saving # {} THEN {"torn"} ELSE {})
  /\ UNCHANGED <<copy, todo, effect, alone, n, safe, removed>>

\* What another process wrote meanwhile is overwritten from its beginning:
\* the lines of its end are left.
Write(p) ==
  /\ pc[p] = "saving"
  /\ \E k \in 0..n : file' = copy[p] \cup {l \in file : l.trade > k}
  /\ Ends(p)
  /\ safe' = IF alone[p] THEN safe \cup effect[p] ELSE safe
  /\ UNCHANGED <<todo, n, removed, disturbed>>

\* A process killed before saveAll changes nothing; during it, it leaves the
\* lines it has written (load skips the one that was cut).
KillLoaded(p) ==
  /\ "kill" \in Faults /\ pc[p] = "loaded"
  /\ Ends(p) /\ todo' = [todo EXCEPT ![p] = {}]
  /\ UNCHANGED <<file, n, safe, removed, disturbed>>

KillSaving(p) ==
  /\ "kill" \in Faults /\ pc[p] = "saving"
  /\ \E k, m \in 0..n : file' = {l \in copy[p] : l.trade <= k} \cup {l \in file : l.trade > m}
  /\ Ends(p) /\ todo' = [todo EXCEPT ![p] = {}]
  /\ disturbed' = disturbed \cup {"kill"}
  /\ UNCHANGED <<n, safe, removed>>

Command(p) ==
  \/ \E w \in Wanted, id \in Ids, status \in Statuses : Log(p, w, id, status)
  \/ \E l \in file :
       \/ \E status \in {"open", "cancelled"} : Set(p, l, status)
       \/ Close(p, l) \/ SyncClose(p, l)
  \/ \E S \in SUBSET file : Note(p, S) \/ (S # {} /\ Drop(p, S))
  \/ SyncList(p) \/ SyncThrows(p)

Next ==
  \E p \in Procs : Command(p) \/ Truncate(p) \/ Write(p) \/ KillLoaded(p) \/ KillSaving(p)

Spec == Init /\ [][Next]_vars

-----------------------------------------------------------------------------
(* Properties                                                               *)

Undisturbed(kinds) == disturbed \cap kinds = {}

TypeOK ==
  /\ file \subseteq Line
  /\ pc \in [Procs -> {"idle", "loaded", "saving"}]
  /\ copy \in [Procs -> SUBSET Line]
  /\ todo \in [Procs -> SUBSET Ids]
  /\ n \in Nat
  /\ effect \in [Procs -> SUBSET (Nat \X Nat)] /\ alone \in [Procs -> BOOLEAN]
  /\ safe \subseteq Nat \X Nat /\ removed \subseteq Nat
  /\ disturbed \subseteq {"overlap", "torn", "kill"}

UniqueIds(f) == \A l, m \in f : l.id = m.id => l = m

\* However commands overlap and are killed, no two lines bear one id, so that
\* set, note and close concern the trade they name (journal.js:121); only two
\* writes at once can mix two copies of the file.
OneLinePerId ==
  Undisturbed({"torn"}) => UniqueIds(file) /\ \A p \in Procs : UniqueIds(copy[p])

\* What e says was recorded of a trade is in f: its line, a note, a status
\* not older than the one that was set.
Holds(f, e) ==
  \E l \in f : l.trade = e[1] /\ (e[2] = 0 \/ e[2] \in l.marks \/ l.by >= e[2])

\* Commands that overlap lose what they record themselves, never what was
\* recorded before them by a command that ran alone: a stale copy is at most
\* as old as the command that bears it.
SafeStays ==
  Undisturbed({"torn", "kill"}) =>
    \A e \in safe : e[1] \in removed \/ Holds(Book, e)

\* As long as no two commands overlap and none is killed while it writes, the
\* file is the journal that the commands promise: each of them is atomic.
Promise == INSTANCE TradeLog WITH book <- Book, Removable <- Fragments

ImplementsTradeLog ==
  Promise!Init /\ [][disturbed' = {} => Promise!Next]_Book
=============================================================================
