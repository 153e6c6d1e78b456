---------------------------- MODULE StoresProofs ----------------------------
(***************************************************************************)
(* What several processes share and no lock protects, for every value of   *)
(* the constants.                                                          *)
(*                                                                         *)
(* The journal (JournalStore): no line of a trade is lost or doubled but   *)
(* by the races that the model names.  The queue of alerts (AlertQueue):   *)
(* every alert that was answered is queued, each source queues it once,    *)
(* and no tick of the radar passes over a line.                            *)
(*                                                                         *)
(* The book of the desks (RiskDesk): whatever their number, the equities,  *)
(* the tiers and the caps, it overshoots a cap by one order for each       *)
(* process that checks and one for each order that was never logged, the   *)
(* quota of the day by the other processes, and a recorded breach stops a  *)
(* desk after one order.  The caps follow from what is owed to each check: *)
(* an order that has been cleared and not yet placed is counted at the     *)
(* most that it may risk, and an order that is not logged too.             *)
(***************************************************************************)
EXTENDS JournalStore, AlertQueue, RiskDesk, Induction

-----------------------------------------------------------------------------
(* The journal: what a command makes of the lines it has read              *)

\* g is f after one step of TradeLog.
Logs(f, g) ==
  \E l \in g : (\A k \in f : k.id # l.id /\ k.trade # l.trade) /\ g = f \cup {l}
Changes(f, g) ==
  \E h \in [f -> g] :
    /\ \A l \in f : h[l].id = l.id /\ h[l].trade = l.trade /\ l.marks \subseteq h[l].marks
    /\ g = {h[l] : l \in f}
Drops(f, g) == \E S \in SUBSET f : (\A l \in S : l.id \in Fragments) /\ g = f \ S
OneStep(f, g) == Logs(f, g) \/ Changes(f, g) \/ Drops(f, g)

NumbersUpTo(f, k) == \A l \in f : l.trade <= k /\ l.by <= k

\* What is known of f, the lines a command will write, when it records e and
\* leaves gone as the trades whose line was taken away.
Computes(f, e, gone) ==
  /\ f \subseteq Line /\ e \subseteq Nat \X Nat
  /\ NumbersUpTo(f, n + 1)
  /\ UniqueIds(file) => UniqueIds(f)
  /\ \A d \in e : Holds(f, d)
  /\ \A d \in Nat \X Nat : Holds(file, d) => Holds(f, d) \/ d[1] \in gone
  /\ OneStep(file, f)

\* A change of some lines that keeps what makes them what they are.
KeepsIdentity(l, m) ==
  /\ m \in Line
  /\ m.id = l.id /\ m.trade = l.trade /\ l.marks \subseteq m.marks
  /\ m.by \in {l.by, n + 1}
  /\ n + 1 \in m.marks \/ m.by = n + 1

LEMMA FreshIdIsFree ==
  ASSUME NEW f, NEW w, NEW id, FreshId(f, w, id)
  PROVE  id \notin IdsOf(f)
BY DEF FreshId

\* A new line, under a free id.
LEMMA LogComputes ==
  ASSUME file \subseteq Line, n \in Nat, NumbersUpTo(file, n),
         NEW l \in Line, l.trade = n + 1, l.by = n + 1, l.id \notin IdsOf(file),
         removed \subseteq Nat
  PROVE  Computes(file \cup {l}, {<<n + 1, 0>>}, removed)
<1> DEFINE f == file \cup {l}
<1>1. f \subseteq Line /\ {<<n + 1, 0>>} \subseteq Nat \X Nat
  OBVIOUS
<1>2. NumbersUpTo(f, n + 1)
  BY DEF NumbersUpTo, Line
<1>3. UniqueIds(file) => UniqueIds(f)
  BY DEF UniqueIds, IdsOf
<1>4. \A d \in {<<n + 1, 0>>} : Holds(f, d)
  BY DEF Holds
<1>5. \A d \in Nat \X Nat : Holds(file, d) => Holds(f, d)
  BY DEF Holds
<1>6. OneStep(file, f)
  <2>1. \A k \in file : k.id # l.id /\ k.trade # l.trade
    BY DEF IdsOf, NumbersUpTo, Line
  <2> QED BY <2>1 DEF OneStep, Logs
<1> QED BY <1>1, <1>2, <1>3, <1>4, <1>5, <1>6 DEF Computes

\* Some lines, each replaced by one that says more of its trade.
LEMMA ChangeComputes ==
  ASSUME file \subseteq Line, n \in Nat, NumbersUpTo(file, n), removed \subseteq Nat,
         NEW S \in SUBSET file, NEW h \in [S -> Line], \A l \in S : KeepsIdentity(l, h[l])
  PROVE  Computes((file \ S) \cup {h[l] : l \in S}, {<<l.trade, n + 1>> : l \in S}, removed)
<1> DEFINE f == (file \ S) \cup {h[l] : l \in S}
<1> DEFINE e == {<<l.trade, n + 1>> : l \in S}
<1>1. f \subseteq Line /\ e \subseteq Nat \X Nat
  BY DEF KeepsIdentity, Line
<1>2. NumbersUpTo(f, n + 1)
  BY DEF NumbersUpTo, KeepsIdentity, Line
<1>3. UniqueIds(file) => UniqueIds(f)
  BY DEF UniqueIds, KeepsIdentity
<1>4. \A d \in e : Holds(f, d)
  <2> SUFFICES ASSUME NEW l \in S PROVE Holds(f, <<l.trade, n + 1>>)
    OBVIOUS
  <2>1. h[l] \in f /\ KeepsIdentity(l, h[l])
    OBVIOUS
  <2> QED BY <2>1 DEF Holds, KeepsIdentity, Line
<1>5. \A d \in Nat \X Nat : Holds(file, d) => Holds(f, d)
  <2> SUFFICES ASSUME NEW d \in Nat \X Nat, Holds(file, d) PROVE Holds(f, d)
    OBVIOUS
  <2>1. PICK l \in file : l.trade = d[1] /\ (d[2] = 0 \/ d[2] \in l.marks \/ l.by >= d[2])
    BY DEF Holds
  <2>2. CASE l \in S
    <3>1. h[l] \in f /\ KeepsIdentity(l, h[l])
      BY <2>2
    <3>2. l.by \in Nat /\ l.by <= n
      BY DEF NumbersUpTo, Line
    <3>3. d[2] \in l.marks => d[2] \in h[l].marks
      BY <3>1 DEF KeepsIdentity
    <3>4. l.by >= d[2] => h[l].by >= d[2]
      BY <3>1, <3>2 DEF KeepsIdentity
    <3>5. h[l].trade = d[1]
      BY <2>1, <3>1 DEF KeepsIdentity
    <3> QED BY <2>1, <3>1, <3>3, <3>4, <3>5 DEF Holds
  <2>3. CASE l \notin S
    BY <2>1, <2>3 DEF Holds
  <2> QED BY <2>2, <2>3
<1>6. OneStep(file, f)
  <2> DEFINE c == [l \in file |-> IF l \in S THEN h[l] ELSE l]
  <2>1. c \in [file -> f]
    OBVIOUS
  <2>2. \A l \in file : c[l].id = l.id /\ c[l].trade = l.trade /\ l.marks \subseteq c[l].marks
    BY DEF KeepsIdentity
  <2>3. f = {c[l] : l \in file}
    OBVIOUS
  <2> QED BY <2>1, <2>2, <2>3 DEF OneStep, Changes
<1> QED BY <1>1, <1>2, <1>3, <1>4, <1>5, <1>6 DEF Computes

\* Some fragments are taken away.
LEMMA DropComputes ==
  ASSUME file \subseteq Line, n \in Nat, NumbersUpTo(file, n),
         NEW S \in SUBSET file, \A l \in S : l.id \in Fragments
  PROVE  Computes(file \ S, {}, removed \cup {l.trade : l \in S})
<1> DEFINE f == file \ S
<1>1. f \subseteq Line /\ NumbersUpTo(f, n + 1) /\ (UniqueIds(file) => UniqueIds(f))
  BY DEF NumbersUpTo, UniqueIds, Line
<1>2. ASSUME NEW d \in Nat \X Nat, Holds(file, d)
      PROVE  Holds(f, d) \/ d[1] \in removed \cup {l.trade : l \in S}
  BY <1>2 DEF Holds
<1>3. OneStep(file, f)
  BY DEF OneStep, Drops
<1> QED BY <1>1, <1>2, <1>3 DEF Computes

LEMMA BecomeKeeps ==
  ASSUME NEW l \in Line, NEW status \in Statuses, n \in Nat
  PROVE  KeepsIdentity(l, Become(l, status))
<1> DEFINE m == [l EXCEPT !.status = status, !.by = n + 1]
<1>1. m \in Line
  <2>1. l \in [id : Ids, trade : Nat, status : Statuses, by : Nat, marks : SUBSET Nat]
    BY DEF Line
  <2>2. n + 1 \in Nat
    OBVIOUS
  <2>3. m \in [id : Ids, trade : Nat, status : Statuses, by : Nat, marks : SUBSET Nat]
    BY <2>1, <2>2
  <2> QED BY <2>3 DEF Line
<1>2. m.id = l.id /\ m.trade = l.trade /\ m.by = n + 1 /\ m.marks = l.marks
  BY DEF Line
<1> QED BY <1>1, <1>2 DEF KeepsIdentity, Become

LEMMA NotedKeeps ==
  ASSUME NEW l \in Line, n \in Nat
  PROVE  KeepsIdentity(l, Noted(l))
<1> DEFINE m == [l EXCEPT !.marks = @ \cup {n + 1}]
<1>1. m \in Line
  BY DEF Line
<1>2. m.id = l.id /\ m.trade = l.trade /\ m.by = l.by /\ m.marks = l.marks \cup {n + 1}
  BY DEF Line
<1> QED BY <1>1, <1>2 DEF KeepsIdentity, Noted

LEMMA BecomeComputes ==
  ASSUME file \subseteq Line, n \in Nat, NumbersUpTo(file, n), removed \subseteq Nat,
         NEW l \in file, NEW status \in Statuses
  PROVE  Computes(Replace(file, l, Become(l, status)), {<<l.trade, n + 1>>}, removed)
<1> DEFINE h == [k \in {l} |-> Become(k, status)]
<1>1. KeepsIdentity(l, Become(l, status))
  BY BecomeKeeps
<1>2. h \in [{l} -> Line] /\ \A k \in {l} : KeepsIdentity(k, h[k])
  BY <1>1 DEF KeepsIdentity
<1>3. Computes((file \ {l}) \cup {h[k] : k \in {l}}, {<<k.trade, n + 1>> : k \in {l}}, removed)
  <2> HIDE DEF h
  <2> QED BY <1>2, ChangeComputes
<1>4. {h[k] : k \in {l}} = {Become(l, status)} /\ {<<k.trade, n + 1>> : k \in {l}} = {<<l.trade, n + 1>>}
  OBVIOUS
<1> QED BY <1>3, <1>4 DEF Replace

LEMMA NotedComputes ==
  ASSUME file \subseteq Line, n \in Nat, NumbersUpTo(file, n), removed \subseteq Nat,
         NEW S \in SUBSET file
  PROVE  Computes((file \ S) \cup {Noted(l) : l \in S}, {<<l.trade, n + 1>> : l \in S}, removed)
<1> DEFINE h == [l \in S |-> Noted(l)]
<1>1. h \in [S -> Line] /\ \A l \in S : KeepsIdentity(l, h[l])
  BY NotedKeeps DEF KeepsIdentity
<1>2. Computes((file \ S) \cup {h[l] : l \in S}, {<<l.trade, n + 1>> : l \in S}, removed)
  <2> HIDE DEF h
  <2> QED BY <1>1, ChangeComputes
<1>3. {h[l] : l \in S} = {Noted(l) : l \in S}
  OBVIOUS
<1> QED BY <1>2, <1>3

-----------------------------------------------------------------------------
(* The steps of a process                                                   *)

\* A command reads the file and computes what it will write.
TakesCopy(p) ==
  \E f, e : Load(p, f, e) /\ Computes(f, e, removed')

\* A sync lists trades, or gives up.
Idles == UNCHANGED <<file, pc, copy, effect, alone, n, safe, removed, disturbed>>

\* Whatever command a process runs, these are its steps.
LEMMA CommandSteps ==
  ASSUME TypeOK, NumbersUpTo(file, n), NEW p \in Procs, Command(p)
  PROVE  /\ TakesCopy(p) \/ Idles
         /\ removed \subseteq removed' /\ removed' \subseteq Nat
         /\ todo' \in [Procs -> SUBSET Ids]
<1> USE DEF TypeOK
<1>1. ASSUME NEW w \in Wanted, NEW id \in Ids, NEW status \in Statuses, Log(p, w, id, status)
      PROVE  TakesCopy(p) /\ removed' = removed /\ todo' = todo
  <2> DEFINE l == [id |-> id, trade |-> n + 1, status |-> status, by |-> n + 1, marks |-> {}]
  <2>1. id \notin IdsOf(file)
    BY <1>1, FreshIdIsFree DEF Log
  <2>2. l \in Line /\ l.trade = n + 1 /\ l.by = n + 1 /\ l.id \notin IdsOf(file)
    BY <2>1 DEF Line
  <2>3. Computes(file \cup {l}, {<<n + 1, 0>>}, removed)
    <3> HIDE DEF l
    <3> QED BY <2>2, LogComputes
  <2> QED BY <1>1, <2>3 DEF Log, TakesCopy
<1>2. ASSUME NEW l \in file, NEW status \in {"open", "cancelled"}, Set(p, l, status)
      PROVE  TakesCopy(p) /\ removed' = removed /\ todo' = todo
  <2>1. status \in Statuses
    BY DEF Statuses
  <2> QED BY <1>2, <2>1, BecomeComputes DEF Set, TakesCopy
<1>3. ASSUME NEW l \in file, Close(p, l)
      PROVE  TakesCopy(p) /\ removed' = removed /\ todo' = todo
  <2>1. "closed" \in Statuses
    BY DEF Statuses
  <2> QED BY <1>3, <2>1, BecomeComputes DEF Close, TakesCopy
<1>4. ASSUME NEW l \in file, SyncClose(p, l)
      PROVE  TakesCopy(p) /\ removed' = removed /\ todo' \in [Procs -> SUBSET Ids]
  <2>1. "closed" \in Statuses
    BY DEF Statuses
  <2> QED BY <1>4, <2>1, BecomeComputes DEF SyncClose, TakesCopy
<1>5. ASSUME NEW S \in SUBSET file, Note(p, S)
      PROVE  TakesCopy(p) /\ removed' = removed /\ todo' = todo
  BY <1>5, NotedComputes DEF Note, TakesCopy
<1>6. ASSUME NEW S \in SUBSET file, Drop(p, S)
      PROVE  TakesCopy(p) /\ removed \subseteq removed' /\ removed' \subseteq Nat /\ todo' = todo
  <2>1. \A l \in S : l.trade \in Nat
    BY DEF Line
  <2> QED BY <1>6, <2>1, DropComputes DEF Drop, TakesCopy
<1>7. ASSUME SyncList(p)
      PROVE  Idles /\ todo' \in [Procs -> SUBSET Ids]
  <2>1. IdsOf({l \in file : l.status \in {"open", "pending"}}) \subseteq Ids
    BY DEF IdsOf, Line
  <2> QED BY <1>7, <2>1 DEF SyncList, Idles
<1>8. ASSUME SyncThrows(p)
      PROVE  Idles /\ todo' \in [Procs -> SUBSET Ids]
  BY <1>8 DEF SyncThrows, Idles
<1>9. Idles => removed' = removed
  BY DEF Idles
<1> QED BY <1>1, <1>2, <1>3, <1>4, <1>5, <1>6, <1>7, <1>8, <1>9 DEF Command

-----------------------------------------------------------------------------
(* Types                                                                    *)

Numbered == NumbersUpTo(file, n) /\ \A p \in Procs : NumbersUpTo(copy[p], n)

\* The two parts that everything else rests on.
JournalTyped == TypeOK /\ Numbered

\* The steps of saveAll and the kills, and a step of no process.
Ending(p) == Write(p) \/ KillLoaded(p) \/ KillSaving(p)

\* A step of the system, by what it does to the file and the copies.
LEMMA NextSteps ==
  ASSUME TypeOK, Numbered, [Next]_vars
  PROVE  \/ \E p \in Procs : TakesCopy(p) \/ Truncate(p) \/ Ending(p)
         \/ Idles
BY CommandSteps DEF Next, Numbered, Ending, Idles, vars, procs

\* What has ended leaves nothing of its own, and nothing of another's.
LEMMA EndsTypes ==
  ASSUME TypeOK, NEW p \in Procs, Ends(p)
  PROVE  /\ pc' \in [Procs -> {"idle", "loaded", "saving"}]
         /\ copy' \in [Procs -> SUBSET Line]
         /\ effect' \in [Procs -> SUBSET (Nat \X Nat)]
         /\ alone' \in [Procs -> BOOLEAN]
         /\ \A q \in Procs : copy'[q] \subseteq copy[q]
         /\ \A q \in Procs : pc'[q] = IF q = p THEN "idle" ELSE pc[q]
         /\ \A q \in Procs : q # p => copy'[q] = copy[q]
         /\ \A q \in Procs : effect'[q] = IF q = p THEN {} ELSE effect[q]
         /\ \A q \in Procs : q # p => alone'[q] = alone[q]
BY DEF TypeOK, Ends

LEMMA LoadTypes ==
  ASSUME TypeOK, NEW p \in Procs, NEW f \in SUBSET Line, NEW e \in SUBSET (Nat \X Nat), Load(p, f, e)
  PROVE  /\ pc' \in [Procs -> {"idle", "loaded", "saving"}]
         /\ copy' \in [Procs -> SUBSET Line]
         /\ effect' \in [Procs -> SUBSET (Nat \X Nat)]
         /\ alone' \in [Procs -> BOOLEAN]
         /\ \A q \in Procs : pc'[q] = IF q = p THEN "loaded" ELSE pc[q]
         /\ \A q \in Procs : copy'[q] = IF q = p THEN f ELSE copy[q]
         /\ \A q \in Procs : effect'[q] = IF q = p THEN e ELSE effect[q]
         /\ \A q \in Procs : alone'[q] = IF q = p THEN \A r \in Procs \ {p} : ~Active(r)
                                          ELSE alone[q] /\ ~Active(q)
         /\ n' = n + 1 /\ file' = file /\ safe' = safe /\ ~Active(p)
         /\ disturbed \subseteq disturbed'
         /\ (\E r \in Procs : Active(r)) => "overlap" \in disturbed'
         /\ Saving # {} => "torn" \in disturbed'
         /\ disturbed' \subseteq disturbed \cup {"overlap", "torn"}
BY DEF TypeOK, Load

LEMMA TypedNext ==
  ASSUME JournalTyped, [Next]_vars
  PROVE  JournalTyped'
<1> USE DEF JournalTyped, TypeOK
<1>1. removed \subseteq removed' /\ removed' \subseteq Nat /\ todo' \in [Procs -> SUBSET Ids]
  BY CommandSteps DEF Next, vars, procs, Numbered, Truncate, Write, KillLoaded, KillSaving
<1>2. ASSUME NEW p \in Procs, TakesCopy(p)
      PROVE  JournalTyped'
  <2>1. PICK f, e : Load(p, f, e) /\ Computes(f, e, removed')
    BY <1>2 DEF TakesCopy
  <2>2. f \in SUBSET Line /\ e \in SUBSET (Nat \X Nat) /\ NumbersUpTo(f, n + 1)
    BY <2>1 DEF Computes
  <2> HIDE DEF TypeOK
  <2>3. /\ pc' \in [Procs -> {"idle", "loaded", "saving"}] /\ copy' \in [Procs -> SUBSET Line]
        /\ effect' \in [Procs -> SUBSET (Nat \X Nat)] /\ alone' \in [Procs -> BOOLEAN]
        /\ n' = n + 1 /\ file' = file /\ safe' = safe
        /\ disturbed' \subseteq disturbed \cup {"overlap", "torn"}
        /\ \A q \in Procs : copy'[q] = IF q = p THEN f ELSE copy[q]
    BY <2>1, <2>2, LoadTypes
  <2>4. TypeOK'
    BY <1>1, <2>3 DEF TypeOK
  <2>5. \A g \in SUBSET Line : NumbersUpTo(g, n) => NumbersUpTo(g, n + 1)
    BY DEF NumbersUpTo, Line, TypeOK
  <2>6. file \in SUBSET Line /\ \A q \in Procs : copy[q] \in SUBSET Line
    BY DEF TypeOK
  <2>7. NumbersUpTo(file, n + 1) /\ \A q \in Procs : NumbersUpTo(copy'[q], n + 1)
    BY <2>2, <2>3, <2>5, <2>6 DEF Numbered
  <2> QED BY <2>3, <2>4, <2>7 DEF Numbered, NumbersUpTo
<1>3. ASSUME NEW p \in Procs, Truncate(p)
      PROVE  JournalTyped'
  <2>1. TypeOK'
    BY <1>1, <1>3 DEF Truncate
  <2>2. file' = {} /\ copy' = copy /\ n' = n
    BY <1>3 DEF Truncate
  <2> QED BY <2>1, <2>2 DEF Numbered, NumbersUpTo
<1>4. ASSUME NEW p \in Procs, Ending(p)
      PROVE  JournalTyped'
  <2>1. Ends(p) /\ n' = n
    BY <1>4 DEF Ending, Write, KillLoaded, KillSaving
  <2>2. file' \subseteq file \cup copy[p]
    BY <1>4 DEF Ending, Write, KillLoaded, KillSaving
  <2>3. safe' \subseteq safe \cup effect[p] /\ disturbed' \subseteq disturbed \cup {"kill"}
    BY <1>4 DEF Ending, Write, KillLoaded, KillSaving
  <2>4. TypeOK'
    BY <1>1, <2>1, <2>2, <2>3, EndsTypes
  <2>5. NumbersUpTo(file', n') /\ \A q \in Procs : NumbersUpTo(copy'[q], n')
    BY <2>1, <2>2, EndsTypes DEF NumbersUpTo, Numbered
  <2> QED BY <2>4, <2>5 DEF Numbered, NumbersUpTo
<1>5. CASE Idles
  <2>1. TypeOK'
    BY <1>1, <1>5 DEF Idles
  <2> QED BY <2>1, <1>5 DEF Idles, Numbered, NumbersUpTo
<1> QED BY <1>2, <1>3, <1>4, <1>5, NextSteps

LEMMA TypedInit == Init => JournalTyped
BY DEF Init, JournalTyped, TypeOK, Numbered, NumbersUpTo

\* In every state the variables have their types.
THEOREM Types == Spec => []TypeOK
<1>1. Init => JournalTyped
  BY TypedInit
<1>2. JournalTyped /\ [Next]_vars => JournalTyped'
  BY TypedNext
<1>3. JournalTyped => TypeOK
  BY DEF JournalTyped
<1> QED BY <1>1, <1>2, <1>3, PTL DEF Spec

-----------------------------------------------------------------------------
(* Ids                                                                      *)

\* Only two writes at once, or a read during one, find anything but an empty
\* file while it is written.
OneSaver ==
  Undisturbed({"torn"}) =>
    /\ \A p, q \in Procs : pc[p] = "saving" /\ pc[q] = "saving" => p = q
    /\ Saving # {} => file = {}

LEMMA OneSaverNext ==
  ASSUME JournalTyped, [Next]_vars, OneSaver
  PROVE  OneSaver'
<1> SUFFICES ASSUME Undisturbed({"torn"})'
             PROVE  /\ \A p, q \in Procs : pc'[p] = "saving" /\ pc'[q] = "saving" => p = q
                    /\ Saving' # {} => file' = {}
  BY DEF OneSaver
<1> USE DEF JournalTyped
<1>1. ASSUME NEW p \in Procs, TakesCopy(p)
      PROVE  OneSaver'
  <2>1. PICK f, e : Load(p, f, e) /\ Computes(f, e, removed')
    BY <1>1 DEF TakesCopy
  <2>2. f \in SUBSET Line /\ e \in SUBSET (Nat \X Nat)
    BY <2>1 DEF Computes
  <2>3. /\ \A q \in Procs : pc'[q] = IF q = p THEN "loaded" ELSE pc[q]
        /\ file' = file /\ disturbed \subseteq disturbed' /\ (Saving # {} => "torn" \in disturbed')
    BY <2>1, <2>2, LoadTypes
  <2>4. Saving' = {}
    BY <2>3 DEF Saving, Undisturbed
  <2> QED BY <2>4 DEF Saving, OneSaver
<1>2. ASSUME NEW p \in Procs, Truncate(p)
      PROVE  OneSaver'
  <2>1. Saving = {} /\ file' = {}
    BY <1>2 DEF Truncate, Undisturbed
  <2>2. \A q \in Procs : pc'[q] = "saving" => q = p
    BY <1>2, <2>1 DEF Truncate, Saving, TypeOK
  <2> QED BY <2>1, <2>2 DEF OneSaver
<1>3. ASSUME NEW p \in Procs, Ending(p)
      PROVE  OneSaver'
  <2>1. Ends(p) /\ Undisturbed({"torn"})
    BY <1>3 DEF Ending, Write, KillLoaded, KillSaving, Undisturbed
  <2>2. \A q \in Procs : pc'[q] = IF q = p THEN "idle" ELSE pc[q]
    BY <2>1, EndsTypes
  <2>3. CASE pc[p] = "saving"
    <3>1. Saving' = {}
      BY <2>1, <2>2, <2>3 DEF OneSaver, Saving
    <3> QED BY <3>1 DEF OneSaver, Saving
  <2>4. CASE pc[p] # "saving"
    <3>1. file' = file
      BY <1>3, <2>4 DEF Ending, Write, KillLoaded, KillSaving
    <3>2. Saving' = Saving
      BY <2>2, <2>4 DEF Saving
    <3> QED BY <2>1, <2>2, <3>1, <3>2 DEF OneSaver
  <2> QED BY <2>3, <2>4
<1>4. CASE Idles
  BY <1>4 DEF Idles, OneSaver, Saving, Undisturbed
<1> QED BY <1>1, <1>2, <1>3, <1>4, NextSteps DEF OneSaver

\* What disturbed the journal stays on record.
LEMMA DisturbedGrows ==
  ASSUME [Next]_vars
  PROVE  disturbed \subseteq disturbed'
<1>1. ASSUME NEW p \in Procs, Command(p) PROVE disturbed \subseteq disturbed'
  BY <1>1 DEF Command, Log, Set, Close, Note, Drop, SyncList, SyncClose, SyncThrows, Load
<1>2. ASSUME NEW p \in Procs, Truncate(p) \/ Write(p) \/ KillLoaded(p) \/ KillSaving(p)
      PROVE  disturbed \subseteq disturbed'
  BY <1>2 DEF Truncate, Write, KillLoaded, KillSaving
<1>3. CASE UNCHANGED vars
  BY <1>3 DEF vars
<1> QED BY <1>1, <1>2, <1>3 DEF Next

LEMMA OneLinePerIdNext ==
  ASSUME JournalTyped, [Next]_vars, OneSaver, OneLinePerId
  PROVE  OneLinePerId'
<1> SUFFICES ASSUME Undisturbed({"torn"})'
             PROVE  UniqueIds(file') /\ \A p \in Procs : UniqueIds(copy'[p])
  BY DEF OneLinePerId, UniqueIds
<1> USE DEF JournalTyped
<1>1. Undisturbed({"torn"}) /\ UniqueIds(file) /\ \A p \in Procs : UniqueIds(copy[p])
  <2>1. disturbed \subseteq disturbed'
    BY DisturbedGrows
  <2> QED BY <2>1 DEF OneLinePerId, Undisturbed
<1>2. ASSUME NEW p \in Procs, TakesCopy(p)
      PROVE  UniqueIds(file') /\ \A q \in Procs : UniqueIds(copy'[q])
  <2>1. PICK f, e : Load(p, f, e) /\ Computes(f, e, removed')
    BY <1>2 DEF TakesCopy
  <2>2. f \in SUBSET Line /\ e \in SUBSET (Nat \X Nat) /\ UniqueIds(f)
    BY <1>1, <2>1 DEF Computes
  <2>3. file' = file /\ \A q \in Procs : copy'[q] = IF q = p THEN f ELSE copy[q]
    BY <2>1, <2>2, LoadTypes
  <2> QED BY <1>1, <2>2, <2>3
<1>3. ASSUME NEW p \in Procs, Truncate(p)
      PROVE  UniqueIds(file') /\ \A q \in Procs : UniqueIds(copy'[q])
  BY <1>1, <1>3 DEF Truncate, UniqueIds
<1>4. ASSUME NEW p \in Procs, Ending(p)
      PROVE  UniqueIds(file') /\ \A q \in Procs : UniqueIds(copy'[q])
  <2>1. Ends(p)
    BY <1>4 DEF Ending, Write, KillLoaded, KillSaving
  <2>2. \A q \in Procs : copy'[q] \subseteq copy[q]
    BY <2>1, EndsTypes
  <2>3. file' \subseteq file \/ file' \subseteq copy[p]
    BY <1>1, <1>4 DEF Ending, Write, KillLoaded, KillSaving, OneSaver, Saving
  <2> QED BY <1>1, <2>2, <2>3 DEF UniqueIds
<1>5. CASE Idles
  BY <1>1, <1>5 DEF Idles
<1> QED BY <1>2, <1>3, <1>4, <1>5, NextSteps

\* However commands overlap and are killed, no two lines bear one id, as long
\* as no two write at once (journal.js:121).
THEOREM OneLine == Spec => []OneLinePerId
<1> DEFINE I == JournalTyped /\ OneSaver /\ OneLinePerId
<1>1. Init => I
  BY TypedInit DEF Init, OneSaver, OneLinePerId, Saving, UniqueIds
<1>2. I /\ [Next]_vars => I'
  BY TypedNext, OneSaverNext, OneLinePerIdNext
<1>3. I => OneLinePerId
  OBVIOUS
<1> QED BY <1>1, <1>2, <1>3, PTL DEF Spec

-----------------------------------------------------------------------------
(* Refinement                                                               *)

\* Undisturbed, one command runs at a time, and what it will write is one
\* step of TradeLog away from the file.
Atomic ==
  disturbed = {} =>
    /\ \A p, q \in Procs : Active(p) /\ Active(q) => p = q
    /\ \A p \in Procs : pc[p] = "loaded" => OneStep(file, copy[p])

LEMMA AtomicNext ==
  ASSUME JournalTyped, [Next]_vars, Atomic
  PROVE  Atomic'
<1> SUFFICES ASSUME disturbed' = {}
             PROVE  /\ \A p, q \in Procs : Active(p)' /\ Active(q)' => p = q
                    /\ \A p \in Procs : pc'[p] = "loaded" => OneStep(file', copy'[p])
  BY DEF Atomic, OneStep, Logs, Changes, Drops
<1> USE DEF JournalTyped
<1>1. /\ \A p, q \in Procs : Active(p) /\ Active(q) => p = q
      /\ \A p \in Procs : pc[p] = "loaded" => OneStep(file, copy[p])
  BY DisturbedGrows DEF Atomic
<1> DEFINE Goal == /\ \A p, q \in Procs : Active(p)' /\ Active(q)' => p = q
                   /\ \A p \in Procs : pc'[p] = "loaded" => OneStep(file', copy'[p])
<1>2. ASSUME NEW p \in Procs, TakesCopy(p)
      PROVE  Goal
  <2>1. PICK f, e : Load(p, f, e) /\ Computes(f, e, removed')
    BY <1>2 DEF TakesCopy
  <2>2. f \in SUBSET Line /\ e \in SUBSET (Nat \X Nat) /\ OneStep(file, f)
    BY <2>1 DEF Computes
  <2>3. /\ \A q \in Procs : ~Active(q) /\ pc'[q] = IF q = p THEN "loaded" ELSE pc[q]
        /\ file' = file /\ copy'[p] = f
    BY <2>1, <2>2, LoadTypes
  <2>4. \A q \in Procs : pc'[q] # "idle" => q = p
    BY <2>3 DEF Active
  <2> QED BY <2>2, <2>3, <2>4 DEF Active
<1>3. ASSUME NEW p \in Procs, Truncate(p)
      PROVE  Goal
  <2>1. \A q \in Procs : pc'[q] = (IF q = p THEN "saving" ELSE pc[q]) /\ pc[p] = "loaded"
    BY <1>3 DEF Truncate, TypeOK
  <2>2. \A q \in Procs : pc'[q] # "idle" => q = p
    BY <1>1, <2>1 DEF Active
  <2> QED BY <2>1, <2>2 DEF Active
<1>4. ASSUME NEW p \in Procs, Ending(p)
      PROVE  Goal
  <2>1. Ends(p) /\ Active(p)
    BY <1>4 DEF Ending, Write, KillLoaded, KillSaving, Active
  <2>2. \A q \in Procs : pc'[q] = "idle"
    BY <1>1, <2>1, EndsTypes DEF Active
  <2> QED BY <2>2 DEF Active
<1>5. CASE Idles
  BY <1>1, <1>5 DEF Idles, Active
<1> QED BY <1>2, <1>3, <1>4, <1>5, NextSteps

LEMMA OneStepIsNext ==
  ASSUME OneStep(Book, Book')
  PROVE  Promise!Next
<1>1. CASE Logs(Book, Book')
  BY <1>1 DEF Logs, Promise!Next, Promise!Record
<1>2. CASE Changes(Book, Book')
  BY <1>2 DEF Changes, Promise!Next, Promise!Change
<1>3. CASE Drops(Book, Book')
  BY <1>3 DEF Drops, Promise!Next, Promise!Remove
<1> QED BY <1>1, <1>2, <1>3 DEF OneStep

LEMMA BookIs ==
  ASSUME OneSaver, Undisturbed({"torn"})
  PROVE  /\ Saving = {} => Book = file
         /\ \A p \in Procs : pc[p] = "saving" => Book = copy[p] /\ Saving = {p} /\ file = {}
<1> SUFFICES ASSUME NEW p \in Procs, pc[p] = "saving"
             PROVE  Book = copy[p] /\ Saving = {p} /\ file = {}
  BY DEF Book
<1>1. Saving = {p} /\ file = {}
  BY DEF OneSaver, Saving
<1> QED BY <1>1 DEF Book

LEMMA StepRefines ==
  ASSUME JournalTyped, [Next]_vars, OneSaver, Atomic
  PROVE  [disturbed' = {} => Promise!Next]_Book
<1> SUFFICES ASSUME disturbed' = {}
             PROVE  Promise!Next \/ Book' = Book
  OBVIOUS
<1> USE DEF JournalTyped
<1>1. /\ \A p, q \in Procs : Active(p) /\ Active(q) => p = q
      /\ \A p \in Procs : pc[p] = "loaded" => OneStep(file, copy[p])
      /\ Undisturbed({"torn"})
  BY DisturbedGrows DEF Atomic, Undisturbed
<1>2. ASSUME NEW p \in Procs, TakesCopy(p)
      PROVE  Book' = Book
  <2>1. PICK f, e : Load(p, f, e) /\ Computes(f, e, removed')
    BY <1>2 DEF TakesCopy
  <2>2. f \in SUBSET Line /\ e \in SUBSET (Nat \X Nat)
    BY <2>1 DEF Computes
  <2>3. /\ \A q \in Procs : ~Active(q) /\ pc'[q] = IF q = p THEN "loaded" ELSE pc[q]
        /\ file' = file
    BY <2>1, <2>2, LoadTypes
  <2>4. Saving = {} /\ Saving' = {}
    BY <2>3 DEF Saving, Active
  <2> QED BY <2>3, <2>4 DEF Book
<1>3. ASSUME NEW p \in Procs, Truncate(p)
      PROVE  Promise!Next
  <2>1. Saving = {} /\ pc[p] = "loaded" /\ copy' = copy
    BY <1>3 DEF Truncate
  <2>2. Saving' = {p}
    BY <1>3, <2>1 DEF Truncate, Saving, TypeOK
  <2>3. Book = file /\ Book' = copy[p]
    BY <2>1, <2>2 DEF Book
  <2>4. OneStep(Book, Book')
    BY <1>1, <2>1, <2>3
  <2> QED BY <2>4, OneStepIsNext
<1>4. ASSUME NEW p \in Procs, Ending(p)
      PROVE  Book' = Book
  <2>1. Ends(p) /\ Active(p)
    BY <1>4 DEF Ending, Write, KillLoaded, KillSaving, Active
  <2>2. Saving' = {}
    BY <1>1, <2>1, EndsTypes DEF Active, Saving
  <2>3. Book' = file'
    BY <2>2 DEF Book
  <2>4. CASE Write(p)
    <3>1. Book = copy[p] /\ file = {}
      BY <1>1, <2>4, BookIs DEF Write
    <3>2. file' = copy[p]
      BY <2>4, <3>1 DEF Write
    <3> QED BY <2>3, <3>1, <3>2
  <2>5. CASE KillLoaded(p)
    <3>1. Saving = {} /\ file' = file
      BY <1>1, <2>5 DEF KillLoaded, Saving, Active
    <3> QED BY <2>3, <3>1 DEF Book
  <2>6. ~KillSaving(p)
    BY DEF KillSaving
  <2> QED BY <1>4, <2>4, <2>5, <2>6 DEF Ending
<1>5. CASE Idles
  BY <1>5 DEF Idles, Book, Saving
<1> QED BY <1>2, <1>3, <1>4, <1>5, NextSteps

\* As long as no two commands overlap and none is killed while it writes, the
\* commands on the file implement the atomic ones of TradeLog.
THEOREM Implements == Spec => ImplementsTradeLog
<1> DEFINE I == JournalTyped /\ OneSaver /\ Atomic
<1>1. Init => I
  BY TypedInit DEF Init, OneSaver, Atomic, Saving, Active
<1>2. I /\ [Next]_vars => I'
  BY TypedNext, OneSaverNext, AtomicNext
<1>3. I /\ [Next]_vars => [disturbed' = {} => Promise!Next]_Book
  BY StepRefines
<1>4. Init => Promise!Init
  BY DEF Init, Promise!Init, Book, Saving
<1> QED BY <1>1, <1>2, <1>3, <1>4, PTL DEF Spec, ImplementsTradeLog

-----------------------------------------------------------------------------
(* What was recorded stays                                                  *)

\* A command that is alone is the only one.
Alone ==
  \A p, q \in Procs : Active(q) /\ alone[q] /\ Active(p) => p = q

\* A command has in its copy what it is recording.
Recording ==
  \A p \in Procs : \A e \in effect[p] : Holds(copy[p], e)

\* What is safe is in the journal and in every copy that will replace it.
Kept ==
  Undisturbed({"torn", "kill"}) =>
    \A e \in safe :
      \/ e[1] \in removed
      \/ Holds(Book, e) /\ \A p \in Procs : pc[p] = "loaded" => Holds(copy[p], e)

LEMMA AloneNext ==
  ASSUME JournalTyped, [Next]_vars, Alone
  PROVE  Alone'
<1> USE DEF JournalTyped
<1>1. ASSUME NEW p \in Procs, TakesCopy(p)
      PROVE  Alone'
  <2>1. PICK f, e : Load(p, f, e) /\ Computes(f, e, removed')
    BY <1>1 DEF TakesCopy
  <2>2. f \in SUBSET Line /\ e \in SUBSET (Nat \X Nat)
    BY <2>1 DEF Computes
  <2>3. /\ \A q \in Procs : pc'[q] = IF q = p THEN "loaded" ELSE pc[q]
        /\ \A q \in Procs : alone'[q] = IF q = p THEN \A r \in Procs \ {p} : ~Active(r)
                                         ELSE alone[q] /\ ~Active(q)
    BY <2>1, <2>2, LoadTypes
  <2>4. \A q \in Procs \ {p} : pc'[q] # "idle" => ~alone'[q] /\ ~alone'[p]
    BY <2>3 DEF Active
  <2> QED BY <2>4 DEF Alone, Active
<1>2. ASSUME NEW p \in Procs, Truncate(p)
      PROVE  Alone'
  BY <1>2 DEF Truncate, Alone, Active, TypeOK
<1>3. ASSUME NEW p \in Procs, Ending(p)
      PROVE  Alone'
  <2>1. Ends(p)
    BY <1>3 DEF Ending, Write, KillLoaded, KillSaving
  <2>2. \A q \in Procs : pc'[q] # "idle" => Active(q) /\ alone'[q] = alone[q]
    BY <2>1, EndsTypes DEF Active
  <2> QED BY <2>2 DEF Alone, Active
<1>4. CASE Idles
  BY <1>4 DEF Idles, Alone, Active
<1> QED BY <1>1, <1>2, <1>3, <1>4, NextSteps

LEMMA RecordingNext ==
  ASSUME JournalTyped, [Next]_vars, Recording
  PROVE  Recording'
<1> USE DEF JournalTyped
<1> SUFFICES \A q \in Procs : \A d \in effect'[q] : Holds(copy'[q], d)
  BY DEF Recording, Holds
<1>1. ASSUME NEW p \in Procs, TakesCopy(p)
      PROVE  \A q \in Procs : \A d \in effect'[q] : Holds(copy'[q], d)
  <2>1. PICK f, e : Load(p, f, e) /\ Computes(f, e, removed')
    BY <1>1 DEF TakesCopy
  <2>2. f \in SUBSET Line /\ e \in SUBSET (Nat \X Nat) /\ \A d \in e : Holds(f, d)
    BY <2>1 DEF Computes
  <2>3. /\ \A q \in Procs : copy'[q] = IF q = p THEN f ELSE copy[q]
        /\ \A q \in Procs : effect'[q] = IF q = p THEN e ELSE effect[q]
    BY <2>1, <2>2, LoadTypes
  <2> QED BY <2>2, <2>3 DEF Recording
<1>2. ASSUME NEW p \in Procs, Truncate(p)
      PROVE  \A q \in Procs : \A d \in effect'[q] : Holds(copy'[q], d)
  BY <1>2 DEF Truncate, Recording
<1>3. ASSUME NEW p \in Procs, Ending(p)
      PROVE  \A q \in Procs : \A d \in effect'[q] : Holds(copy'[q], d)
  <2>1. Ends(p)
    BY <1>3 DEF Ending, Write, KillLoaded, KillSaving
  <2>2. \A q \in Procs : effect'[q] = (IF q = p THEN {} ELSE effect[q]) /\ (q # p => copy'[q] = copy[q])
    BY <2>1, EndsTypes
  <2> QED BY <2>2 DEF Recording
<1>4. CASE Idles
  BY <1>4 DEF Idles, Recording
<1> QED BY <1>1, <1>2, <1>3, <1>4, NextSteps

LEMMA KeptNext ==
  ASSUME JournalTyped, [Next]_vars, OneSaver, Alone, Recording, Kept
  PROVE  Kept'
<1> DEFINE Safe(d) ==
      \/ d[1] \in removed'
      \/ Holds(Book', d) /\ \A p \in Procs : pc'[p] = "loaded" => Holds(copy'[p], d)
<1> SUFFICES ASSUME Undisturbed({"torn", "kill"})', NEW d \in safe'
             PROVE  Safe(d)
  BY DEF Kept, Holds
<1> USE DEF JournalTyped
<1>1. Undisturbed({"torn"}) /\ Undisturbed({"torn", "kill"}) /\ removed \subseteq removed'
  <2>1. removed \subseteq removed'
    BY CommandSteps DEF Next, vars, procs, Numbered, Truncate, Write, KillLoaded, KillSaving
  <2> QED BY <2>1, DisturbedGrows DEF Undisturbed
<1>2. ASSUME d \in safe
      PROVE  \/ d[1] \in removed'
             \/ Holds(Book, d) /\ \A p \in Procs : pc[p] = "loaded" => Holds(copy[p], d)
  BY <1>1, <1>2 DEF Kept
<1>3. ASSUME NEW p \in Procs, TakesCopy(p)
      PROVE  Safe(d)
  <2>1. PICK f, e : Load(p, f, e) /\ Computes(f, e, removed')
    BY <1>3 DEF TakesCopy
  <2>2. /\ f \in SUBSET Line /\ e \in SUBSET (Nat \X Nat)
        /\ \A c \in Nat \X Nat : Holds(file, c) => Holds(f, c) \/ c[1] \in removed'
    BY <2>1 DEF Computes
  <2>3. /\ \A q \in Procs : pc'[q] = IF q = p THEN "loaded" ELSE pc[q]
        /\ \A q \in Procs : copy'[q] = IF q = p THEN f ELSE copy[q]
        /\ file' = file /\ safe' = safe /\ (Saving # {} => "torn" \in disturbed')
    BY <2>1, <2>2, LoadTypes
  <2>4. Saving = {} /\ Saving' = {}
    BY <2>3 DEF Saving, Undisturbed
  <2>5. Book = file /\ Book' = file
    BY <2>3, <2>4 DEF Book
  <2>6. d \in safe /\ d \in Nat \X Nat
    BY <2>3 DEF TypeOK
  <2> QED BY <1>2, <2>2, <2>3, <2>5, <2>6
<1>4. ASSUME NEW p \in Procs, Truncate(p)
      PROVE  Safe(d)
  <2>1. Saving = {} /\ pc[p] = "loaded" /\ copy' = copy /\ safe' = safe
    BY <1>4 DEF Truncate, Undisturbed
  <2>2. \A q \in Procs : pc'[q] = IF q = p THEN "saving" ELSE pc[q]
    BY <1>4 DEF Truncate, TypeOK
  <2>3. Saving' = {p}
    BY <2>1, <2>2 DEF Saving
  <2>4. Book' = copy[p]
    BY <2>1, <2>3 DEF Book
  <2> QED BY <1>2, <2>1, <2>2, <2>4
<1>5. ASSUME NEW p \in Procs, Ending(p)
      PROVE  Safe(d)
  <2>1. Ends(p)
    BY <1>5 DEF Ending, Write, KillLoaded, KillSaving
  <2>2. /\ \A q \in Procs : pc'[q] = IF q = p THEN "idle" ELSE pc[q]
        /\ \A q \in Procs : q # p => copy'[q] = copy[q]
    BY <2>1, EndsTypes
  <2>3. CASE Write(p)
    <3>1. pc[p] = "saving" /\ Book = copy[p] /\ Saving = {p} /\ file = {}
      BY <1>1, <2>3, BookIs DEF Write
    <3>2. Saving' = {} /\ file' = copy[p]
      BY <2>2, <2>3, <3>1 DEF Saving, Write
    <3>3. Book' = Book
      BY <3>1, <3>2 DEF Book
    <3>4. CASE d \in safe
      BY <1>2, <2>2, <3>3, <3>4
    <3>5. CASE d \notin safe
      <4>1. alone[p] /\ d \in effect[p]
        BY <2>3, <3>5 DEF Write
      <4>2. Holds(Book', d)
        BY <3>1, <3>3, <4>1 DEF Recording
      <4>3. \A q \in Procs : pc'[q] = "idle"
        BY <2>2, <3>1, <4>1 DEF Alone, Active
      <4> QED BY <4>2, <4>3
    <3> QED BY <3>4, <3>5
  <2>4. CASE KillLoaded(p)
    <3>1. pc[p] = "loaded" /\ file' = file /\ safe' = safe
      BY <2>4 DEF KillLoaded
    <3>2. Saving' = Saving /\ \A q \in Saving : copy'[q] = copy[q]
      BY <2>2, <3>1 DEF Saving
    <3>3. Book' = Book
      <4>1. CASE Saving = {}
        BY <3>1, <3>2, <4>1 DEF Book
      <4>2. ASSUME NEW q \in Saving
            PROVE  Book' = Book
        <5>1. Saving = {q} /\ Book = copy[q]
          BY <1>1, <4>2, BookIs DEF Saving
        <5> QED BY <3>2, <5>1 DEF Book
      <4> QED BY <4>1, <4>2
    <3> QED BY <1>2, <2>2, <3>1, <3>3
  <2>5. ~KillSaving(p)
    BY DEF KillSaving, Undisturbed
  <2> QED BY <1>5, <2>3, <2>4, <2>5 DEF Ending
<1>6. CASE Idles
  <2>1. Book' = Book
    BY <1>6 DEF Idles, Book, Saving
  <2> QED BY <1>2, <1>6, <2>1 DEF Idles
<1> QED BY <1>3, <1>4, <1>5, <1>6, NextSteps

\* What a command that ran alone recorded is never lost, however the later
\* ones overlap, as long as no write meets another or is cut short.
THEOREM NothingSafeIsLost == Spec => []SafeStays
<1> DEFINE I == JournalTyped /\ OneSaver /\ Alone /\ Recording /\ Kept
<1>1. Init => I
  BY TypedInit DEF Init, OneSaver, Saving, Alone, Active, Recording, Kept
<1>2. I /\ [Next]_vars => I'
  BY TypedNext, OneSaverNext, AloneNext, RecordingNext, KeptNext
<1>3. I => SafeStays
  BY DEF Kept, SafeStays
<1> QED BY <1>1, <1>2, <1>3, PTL DEF Spec

-----------------------------------------------------------------------------
(* The queue of alerts                                                     *)

\* What the listener and the signal tick remember about the lines they wrote.
MemoryHolds ==
  /\ seen \subseteq QueuedIds \cup dropped
  /\ \A i \in DOMAIN queue :
       /\ queue[i].by \in 0..restarts \cup {Self}
       /\ queue[i].by = restarts => queue[i].id \in seen
       /\ queue[i].by = Self => queue[i].id \notin fresh

\* A tick about to save an offset holds every line below it that nothing
\* covers yet.
HandsFull ==
  \A r \in Readers : at[r] \in {"read", "emptied"} =>
    \A i \in 1..next[r] : i \in hand[r] \/ Covered(i)

\* The inductive invariant.
QueueInv == QueueTypeOK /\ MemoryHolds /\ HandsFull /\ AlertsKept

-----------------------------------------------------------------------------
(* Lines appended                                                          *)

\* Adding lines to a sequence of lines leaves the old ones in their places.
LEMMA Appended ==
  ASSUME NEW q \in Seq(AlertLine), NEW more \in Seq(AlertLine)
  PROVE  /\ q \o more \in Seq(AlertLine)
         /\ Len(q \o more) = Len(q) + Len(more)
         /\ \A i \in DOMAIN q : (q \o more)[i] = q[i] /\ i \in DOMAIN (q \o more)
         /\ \A i \in DOMAIN (q \o more) :
              \/ i \in DOMAIN q /\ (q \o more)[i] = q[i]
              \/ i - Len(q) \in DOMAIN more /\ (q \o more)[i] = more[i - Len(q)]
  OBVIOUS

\* One line appended.
LEMMA AppendedOne ==
  ASSUME NEW q \in Seq(AlertLine), NEW l \in AlertLine
  PROVE  /\ Append(q, l) \in Seq(AlertLine)
         /\ Len(Append(q, l)) = Len(q) + 1
         /\ DOMAIN Append(q, l) = DOMAIN q \cup {Len(q) + 1}
         /\ \A i \in DOMAIN q : Append(q, l)[i] = q[i]
         /\ Append(q, l)[Len(q) + 1] = l
         /\ Len(q) + 1 \notin DOMAIN q
  OBVIOUS

-----------------------------------------------------------------------------
LEMMA TypeInit == QueueInit => QueueTypeOK
<1> SUFFICES ASSUME QueueInit PROVE QueueTypeOK
  OBVIOUS
<1>1. queue \in Seq(AlertLine)
  BY DEF QueueInit
<1>2. at \in [Readers -> {"idle", "read", "emptied", "saved"}] /\ next \in [Readers -> Nat]
  BY DEF QueueInit
<1>3. hand \in [Readers -> SUBSET Nat]
  BY DEF QueueInit
<1>4. offset \in Nat /\ restarts \in 0..MaxRestarts /\ kills \in Nat
  BY QueueAssumption DEF QueueInit
<1>5. scanning \in BOOLEAN
  BY DEF QueueInit
<1>q. QED  BY <1>1, <1>2, <1>3, <1>4, <1>5 DEF QueueInit, QueueTypeOK

LEMMA FreshFinite == QueueTypeOK => Cardinality(fresh) \in Nat
<1>1. IsFiniteSet(PostedIds \cup ScannedIds)
  BY QueueAssumption
<1>2. QueueTypeOK => fresh \in SUBSET (PostedIds \cup ScannedIds)
  BY DEF QueueTypeOK
<1>3. QueueTypeOK => IsFiniteSet(fresh)
  BY <1>1, <1>2, FS_Subset
<1>q. QED  BY <1>3, FS_CardinalityType

\* What the lines of a signal tick are.
LEMMA Written ==
  ASSUME QueueTypeOK,
         NEW lines \in [1..Cardinality(fresh) -> [id : fresh, by : {Self}]]
  PROVE  lines \in Seq(AlertLine)
<1>1. Cardinality(fresh) \in Nat
  BY FreshFinite
<1>2. [id : fresh, by : {Self}] \subseteq AlertLine
  BY QueueAssumption DEF AlertLine, QueueTypeOK, Self
<1>q. QED  BY <1>1, <1>2

LEMMA TypeStep == ASSUME QueueTypeOK, [QueueNext]_queueVars PROVE QueueTypeOK'
<1>0. Self \in Nat /\ MaxRestarts \in Nat
  BY QueueAssumption DEF Self
<1>1. ASSUME NEW id \in PostedIds, Post(id) PROVE QueueTypeOK'
  <2> DEFINE l == [id |-> id, by |-> restarts]
  <2>1. l \in AlertLine
    BY <1>0 DEF AlertLine, QueueTypeOK, Self
  <2>2. queue' = Append(queue, l) \/ queue' = queue
    BY <1>1 DEF Post, QueuePost
  <2> HIDE DEF l
  <2>3. queue' \in Seq(AlertLine)
    BY <2>1, <2>2, AppendedOne DEF QueueTypeOK
  <2>q. QED  BY <1>1, <2>3 DEF Post, QueuePost, Remember, QueueTypeOK, scanner, readers
<1>2. ASSUME NEW id \in PostedIds, PostDuplicate(id) PROVE QueueTypeOK'
  BY <1>2 DEF PostDuplicate, QueueTypeOK, scanner, readers
<1>3. ASSUME Restart PROVE QueueTypeOK'
  BY <1>0, <1>3 DEF Restart, QueueTypeOK, scanner, readers
<1>4. ASSUME ScanBar PROVE QueueTypeOK'
  BY <1>4 DEF ScanBar, SignalsFromScans, QueueTypeOK, listener, readers
<1>5. ASSUME AppendSignals PROVE QueueTypeOK'
  <2>1. PICK lines \in [1..Cardinality(fresh) -> [id : fresh, by : {Self}]] : queue' = queue \o lines
    BY <1>5 DEF AppendSignals
  <2>2. queue' \in Seq(AlertLine)
    BY <2>1, Written, Appended DEF QueueTypeOK
  <2>q. QED  BY <1>5, <2>2 DEF AppendSignals, QueueTypeOK, listener, readers
<1>6. ASSUME AppendSignalsFails PROVE QueueTypeOK'
  BY <1>6 DEF AppendSignalsFails, QueueTypeOK, listener, readers
<1>7. ASSUME NEW r \in Readers, ReaderStep(r) PROVE QueueTypeOK'
  <2>1. CASE ReadNewAlerts(r)
    BY <2>1 DEF ReadNewAlerts, NewLines, QueueTypeOK, listener, scanner
  <2>2. CASE EmptyOffset(r)
    BY <2>2 DEF EmptyOffset, QueueTypeOK, listener, scanner
  <2>4. CASE SaveOffset(r)
    BY <2>4 DEF SaveOffset, QueueTypeOK, listener, scanner
  <2>5. CASE SaveOffsetFails(r)
    BY <2>5 DEF SaveOffsetFails, QueueTypeOK, listener, scanner
  <2>3. CASE WakeSetups(r)
    BY <2>3 DEF WakeSetups, QueueTypeOK, listener, scanner
  <2>q. QED  BY <1>7, <2>1, <2>2, <2>3, <2>4, <2>5 DEF ReaderStep
<1>8. ASSUME NEW r \in Readers, KillReader(r) PROVE QueueTypeOK'
  <2>1. wasted' = wasted \/ wasted' = wasted \cup hand[r]
    BY <1>8 DEF KillReader
  <2>2. wasted' \subseteq Nat
    BY <2>1 DEF QueueTypeOK
  <2>q. QED  BY <1>8, <2>2 DEF KillReader, QueueTypeOK, listener, scanner
<1>9. CASE UNCHANGED queueVars
  BY <1>9 DEF queueVars, listener, scanner, readers, QueueTypeOK
<1>q. QED
  BY <1>1, <1>2, <1>3, <1>4, <1>5, <1>6, <1>7, <1>8, <1>9 DEF QueueNext

-----------------------------------------------------------------------------
(* The listener and the signal tick: MemoryHolds, AnsweredIsQueued and      *)
(* QueuedOnce                                                               *)

Memory == MemoryHolds /\ AnsweredIsQueued /\ QueuedOnce

\* A line appended by the listener bears an id that its run had not seen.
LEMMA MemoryPost ==
  ASSUME QueueTypeOK, Memory, NEW id \in PostedIds, Post(id) PROVE Memory'
<1>0. restarts \in Nat /\ restarts # Self /\ MaxRestarts \in Nat
  BY QueueAssumption DEF Self, QueueTypeOK
<1>1. CASE queue' = Append(queue, [id |-> id, by |-> restarts])
  <2> DEFINE l == [id |-> id, by |-> restarts]
  <2>1. l \in AlertLine /\ l.id = id /\ l.by = restarts
    BY <1>0, QueueAssumption DEF AlertLine, QueueTypeOK, Self
  <2>2. queue \in Seq(AlertLine) /\ queue' = Append(queue, l)
    BY <1>1 DEF QueueTypeOK
  <2> HIDE DEF l
  <2>3. /\ DOMAIN queue' = DOMAIN queue \cup {Len(queue) + 1}
        /\ \A i \in DOMAIN queue : queue'[i] = queue[i]
        /\ queue'[Len(queue) + 1] = l
        /\ Len(queue) + 1 \notin DOMAIN queue
    BY <2>1, <2>2, AppendedOne
  <2>4. QueuedIds' = QueuedIds \cup {id}
    BY <2>1, <2>3 DEF QueuedIds
  <2>5. /\ id \notin seen /\ seen' = seen \cup {id}
        /\ \/ acked' = acked \cup {id} /\ dropped' = dropped
           \/ acked' = acked /\ dropped' = dropped \cup {id}
        /\ restarts' = restarts /\ fresh' = fresh
    BY DEF Post, QueuePost, Remember, scanner
  <2>6. MemoryHolds'
    BY <1>0, <2>1, <2>3, <2>4, <2>5 DEF Memory, MemoryHolds
  <2>7. AnsweredIsQueued'
    BY <2>4, <2>5 DEF Memory, AnsweredIsQueued
  <2>8. QueuedOnce'
    BY <2>1, <2>3, <2>5 DEF Memory, MemoryHolds, QueuedOnce
  <2>q. QED  BY <2>6, <2>7, <2>8 DEF Memory
<1>2. CASE queue' = queue /\ dropped' = dropped \cup {id} /\ acked' = acked
  <2>1. /\ QueuedIds' = QueuedIds /\ seen' = seen \cup {id} /\ restarts' = restarts /\ fresh' = fresh
    BY <1>2 DEF Post, Remember, scanner, QueuedIds
  <2>q. QED  BY <1>2, <2>1 DEF Memory, MemoryHolds, AnsweredIsQueued, QueuedOnce
<1>q. QED  BY <1>1, <1>2 DEF Post, QueuePost

\* The lines appended by a signal tick bear ids that no signal tick wrote.
LEMMA MemoryAppend ==
  ASSUME QueueTypeOK, Memory, AppendSignals PROVE Memory'
<1>0. restarts \in Nat /\ restarts # Self
  BY QueueAssumption DEF Self, QueueTypeOK
<1>1. PICK lines \in [1..Cardinality(fresh) -> [id : fresh, by : {Self}]] :
         /\ {lines[i].id : i \in DOMAIN lines} = fresh
         /\ \A i, j \in DOMAIN lines : lines[i].id = lines[j].id => i = j
         /\ queue' = queue \o lines
  BY DEF AppendSignals
<1>2. lines \in Seq(AlertLine) /\ queue \in Seq(AlertLine)
  BY Written DEF QueueTypeOK
<1>3. \A i \in DOMAIN lines : lines[i].id \in fresh /\ lines[i].by = Self
  BY <1>1
<1>4. /\ \A i \in DOMAIN queue : queue'[i] = queue[i] /\ i \in DOMAIN queue'
      /\ \A i \in DOMAIN queue' :
           \/ i \in DOMAIN queue /\ queue'[i] = queue[i]
           \/ i - Len(queue) \in DOMAIN lines /\ queue'[i] = lines[i - Len(queue)]
  <2> DEFINE new == queue \o lines
  <2>1. /\ \A i \in DOMAIN queue : new[i] = queue[i] /\ i \in DOMAIN new
        /\ \A i \in DOMAIN new :
             \/ i \in DOMAIN queue /\ new[i] = queue[i]
             \/ i - Len(queue) \in DOMAIN lines /\ new[i] = lines[i - Len(queue)]
    BY <1>2, Appended
  <2>2. queue' = new
    BY <1>1
  <2> HIDE DEF new
  <2> QED BY <2>1, <2>2
<1>5. QueuedIds \subseteq QueuedIds'
  BY <1>4 DEF QueuedIds
<1>6. /\ seen' = seen /\ acked' = acked /\ dropped' = dropped /\ restarts' = restarts /\ fresh' = {}
  BY DEF AppendSignals, listener
<1>7. MemoryHolds'
  BY <1>0, <1>3, <1>4, <1>5, <1>6 DEF Memory, MemoryHolds
<1>8. AnsweredIsQueued'
  BY <1>5, <1>6 DEF Memory, AnsweredIsQueued
<1>9. QueuedOnce'
  <2> SUFFICES ASSUME NEW i \in DOMAIN queue', NEW j \in DOMAIN queue',
                      queue'[i].id = queue'[j].id, queue'[i].by = queue'[j].by
               PROVE  i = j
    BY DEF QueuedOnce
  <2>1. CASE i \in DOMAIN queue /\ j \in DOMAIN queue
    BY <1>4, <2>1 DEF Memory, QueuedOnce
  <2>2. CASE i \notin DOMAIN queue /\ j \notin DOMAIN queue
    <3>1. i \in Nat /\ j \in Nat /\ Len(queue) \in Nat
      <4>1. queue' \in Seq(AlertLine)
        BY <1>1, <1>2, Appended
      <4>q. QED  BY <1>2, <4>1
    <3>2. i - Len(queue) = j - Len(queue)
      BY <1>1, <1>4, <2>2
    <3>q. QED  BY <3>1, <3>2
  <2>3. CASE i \in DOMAIN queue /\ j \notin DOMAIN queue
    BY <1>3, <1>4, <2>3 DEF Memory, MemoryHolds
  <2>4. CASE i \notin DOMAIN queue /\ j \in DOMAIN queue
    BY <1>3, <1>4, <2>4 DEF Memory, MemoryHolds
  <2>q. QED  BY <2>1, <2>2, <2>3, <2>4
<1>q. QED  BY <1>7, <1>8, <1>9 DEF Memory

LEMMA MemoryStep ==
  ASSUME QueueTypeOK, Memory, [QueueNext]_queueVars PROVE Memory'
<1>0. restarts \in Nat /\ restarts # Self /\ MaxRestarts \in Nat
  BY QueueAssumption DEF Self, QueueTypeOK
<1>1. ASSUME NEW id \in PostedIds, Post(id) PROVE Memory'
  BY <1>1, MemoryPost
<1>2. ASSUME NEW id \in PostedIds, PostDuplicate(id) PROVE Memory'
  BY <1>2 DEF PostDuplicate, Memory, MemoryHolds, AnsweredIsQueued, QueuedOnce, QueuedIds, scanner, readers
<1>3. ASSUME Restart PROVE Memory'
  <2>1. /\ restarts' = restarts + 1 /\ restarts + 1 # Self /\ seen' = {}
        /\ queue' = queue /\ acked' = acked /\ dropped' = dropped /\ fresh' = fresh
    BY <1>0, <1>3 DEF Restart, Self, scanner
  <2>2. \A i \in DOMAIN queue : queue[i].by \in 0..(restarts + 1) \cup {Self} /\ queue[i].by # restarts + 1
    BY <1>0, <2>1 DEF Memory, MemoryHolds
  <2>q. QED  BY <2>1, <2>2 DEF Memory, MemoryHolds, AnsweredIsQueued, QueuedOnce, QueuedIds
<1>4. ASSUME ScanBar PROVE Memory'
  <2>1. /\ fresh' \cap QueuedIds = {} /\ queue' = queue /\ acked' = acked /\ dropped' = dropped
        /\ seen' = seen /\ restarts' = restarts
    BY <1>4 DEF ScanBar, SignalsFromScans, listener
  <2>2. \A i \in DOMAIN queue : queue[i].id \notin fresh'
    BY <2>1 DEF QueuedIds
  <2>q. QED  BY <2>1, <2>2 DEF Memory, MemoryHolds, AnsweredIsQueued, QueuedOnce, QueuedIds
<1>5. ASSUME AppendSignals PROVE Memory'
  BY <1>5, MemoryAppend
<1>6. ASSUME AppendSignalsFails PROVE Memory'
  BY <1>6 DEF AppendSignalsFails, listener, Memory, MemoryHolds, AnsweredIsQueued, QueuedOnce, QueuedIds
<1>7. ASSUME NEW r \in Readers, ReaderStep(r) \/ KillReader(r) PROVE Memory'
  BY <1>7 DEF ReaderStep, ReadNewAlerts, EmptyOffset, SaveOffset, SaveOffsetFails, WakeSetups, KillReader,
              listener, scanner, Memory, MemoryHolds, AnsweredIsQueued, QueuedOnce, QueuedIds
<1>8. CASE UNCHANGED queueVars
  BY <1>8 DEF queueVars, listener, scanner, readers, Memory, MemoryHolds, AnsweredIsQueued, QueuedOnce, QueuedIds
<1>q. QED
  BY <1>1, <1>2, <1>3, <1>4, <1>5, <1>6, <1>7, <1>8 DEF QueueNext

-----------------------------------------------------------------------------
(* The ticks of the radar: HandsFull and NothingSkipped                     *)

Reading == HandsFull /\ NothingSkipped

\* A line that is covered stays covered.
LEMMA StaysCovered ==
  ASSUME QueueTypeOK, NEW r \in Readers, ReaderStep(r) \/ KillReader(r), NEW i, Covered(i)
  PROVE  Covered(i)'
<1>1. CASE i \in heard \cup wasted
  BY <1>1 DEF ReaderStep, ReadNewAlerts, EmptyOffset, SaveOffset, SaveOffsetFails, WakeSetups, KillReader, Covered
<1>2. CASE \E s \in Readers : at[s] = "saved" /\ i \in hand[s]
  <2>1. PICK s \in Readers : at[s] = "saved" /\ i \in hand[s]
    BY <1>2
  <2>2. CASE s # r
    BY <2>1, <2>2 DEF ReaderStep, ReadNewAlerts, EmptyOffset, SaveOffset, SaveOffsetFails, WakeSetups,
                      KillReader, Covered, QueueTypeOK
  <2>3. CASE s = r
    BY <2>1, <2>3 DEF ReaderStep, ReadNewAlerts, EmptyOffset, SaveOffset, SaveOffsetFails, WakeSetups,
                      KillReader, Covered, QueueTypeOK
  <2>q. QED  BY <2>2, <2>3
<1>q. QED  BY <1>1, <1>2 DEF Covered

LEMMA ReadingTick ==
  ASSUME QueueTypeOK, Reading, NEW r \in Readers, ReaderStep(r) \/ KillReader(r)
  PROVE  Reading'
<1>0. \A i : Covered(i) => Covered(i)'
  BY StaysCovered
<1>1. ASSUME NEW s \in Readers, s # r, at'[s] \in {"read", "emptied"}, NEW i \in 1..next'[s]
      PROVE  i \in hand'[s] \/ Covered(i)'
  <2>1. at'[s] = at[s] /\ next'[s] = next[s] /\ hand'[s] = hand[s]
    BY <1>1 DEF ReaderStep, ReadNewAlerts, EmptyOffset, SaveOffset, SaveOffsetFails, WakeSetups,
                KillReader, QueueTypeOK
  <2>q. QED  BY <1>0, <1>1, <2>1 DEF Reading, HandsFull
<1>2. CASE ReadNewAlerts(r)
  <2>1. /\ hand'[r] = offset + 1 .. Len(queue) /\ next'[r] = Len(queue) /\ offset' = offset
        /\ offset \in Nat /\ Len(queue) \in Nat
    BY <1>2 DEF ReadNewAlerts, NewLines, QueueTypeOK
  <2>2. \A i \in 1..next'[r] : i \in hand'[r] \/ Covered(i)'
    BY <1>0, <2>1 DEF Reading, NothingSkipped
  <2>q. QED  BY <1>0, <1>1, <2>1, <2>2 DEF Reading, HandsFull, NothingSkipped
<1>3. CASE EmptyOffset(r)
  <2>1. /\ at[r] = "read" /\ hand' = hand /\ next' = next /\ offset' = 0
    BY <1>3 DEF EmptyOffset
  <2>2. \A i \in 1..next'[r] : i \in hand'[r] \/ Covered(i)'
    BY <1>0, <2>1 DEF Reading, HandsFull
  <2>q. QED  BY <1>0, <1>1, <2>1, <2>2 DEF Reading, HandsFull, NothingSkipped
<1>4. CASE SaveOffset(r)
  <2>1. /\ at[r] = "emptied" /\ hand' = hand /\ offset' = next[r] /\ at'[r] = "saved"
    BY <1>4 DEF SaveOffset, QueueTypeOK
  <2>2. \A i \in 1..offset' : Covered(i)'
    BY <1>0, <2>1 DEF Reading, HandsFull, Covered
  <2>q. QED  BY <1>1, <2>1, <2>2 DEF Reading, HandsFull, NothingSkipped
<1>5. CASE SaveOffsetFails(r) \/ WakeSetups(r) \/ KillReader(r)
  <2>1. at'[r] \notin {"read", "emptied"} /\ offset' = offset
    BY <1>5 DEF SaveOffsetFails, WakeSetups, KillReader, QueueTypeOK
  <2>q. QED  BY <1>0, <1>1, <2>1 DEF Reading, HandsFull, NothingSkipped
<1>q. QED  BY <1>2, <1>3, <1>4, <1>5 DEF ReaderStep

LEMMA ReadingStep ==
  ASSUME QueueTypeOK, Reading, [QueueNext]_queueVars PROVE Reading'
<1>1. ASSUME NEW r \in Readers, ReaderStep(r) \/ KillReader(r) PROVE Reading'
  BY <1>1, ReadingTick
<1>2. CASE UNCHANGED readers
  BY <1>2 DEF readers, Reading, HandsFull, NothingSkipped, Covered
<1>q. QED
  BY <1>1, <1>2 DEF QueueNext, Post, PostDuplicate, Restart, ScanBar, AppendSignals, AppendSignalsFails, queueVars

-----------------------------------------------------------------------------
LEMMA InvInit == QueueInit => QueueInv
<1>1. QueueInit => MemoryHolds
  BY DEF QueueInit, MemoryHolds, QueuedIds
<1>2. QueueInit => HandsFull /\ AlertsKept
  BY DEF QueueInit, HandsFull, AlertsKept, AnsweredIsQueued, NothingSkipped, QueuedOnce
<1>q. QED  BY <1>1, <1>2, TypeInit DEF QueueInv

\* Every variable of AlertQueue keeps its type, whatever the sources, readers
\* and bounds.
THEOREM QueueTypes == QueueSpec => []QueueTypeOK
<1>1. QueueTypeOK /\ [QueueNext]_queueVars => QueueTypeOK'
  BY TypeStep
<1>q. QED  BY TypeInit, <1>1, PTL DEF QueueSpec

\* What the sources remember and the readers hold: the inductive invariant.
THEOREM QueueInductive == QueueSpec => []QueueInv
<1>1. QueueInv /\ [QueueNext]_queueVars => QueueInv'
  BY TypeStep, MemoryStep, ReadingStep DEF QueueInv, Memory, Reading, AlertsKept
<1>q. QED  BY InvInit, <1>1, PTL DEF QueueSpec

\* An alert answered 200 is in the queue unless its append failed, a source
\* queues it once, and no line is passed over by ticks that overlap or die
\* (tv-listener.js lines 43-77, entry-radar.js lines 161-207).
THEOREM AlertsAreKept == QueueSpec => []AlertsKept
<1>1. QueueInv => AlertsKept
  BY DEF QueueInv
<1>q. QED  BY <1>1, QueueInductive, PTL

-----------------------------------------------------------------------------
(* The book of the desks: numbers                                          *)

LEMMA ProductGrows ==
  \A a, b, c, d \in Nat : a <= b /\ c <= d => a * c <= b * d /\ a * c \in Nat
<1> SUFFICES ASSUME NEW a \in Nat, NEW b \in Nat, NEW c \in Nat, NEW d \in Nat, a <= b, c <= d
             PROVE  a * c <= b * d /\ a * c \in Nat
  OBVIOUS
<1>1. a * c <= b * c /\ a * c \in Nat /\ b * c \in Nat
  <2>1. b * c = a * c + (b - a) * c /\ b - a \in Nat
    OBVIOUS
  <2>2. (b - a) * c \in Nat /\ a * c \in Nat
    BY <2>1
  <2>q. QED  BY <2>1, <2>2
<1>2. b * c <= b * d /\ b * d \in Nat
  <2>1. b * d = b * c + b * (d - c) /\ d - c \in Nat
    OBVIOUS
  <2>2. b * (d - c) \in Nat /\ b * c \in Nat
    BY <2>1
  <2>q. QED  BY <2>1, <2>2
<1>q. QED  BY <1>1, <1>2

LEMMA ProductType == \A a, b \in Nat : a * b \in Nat
OBVIOUS

LEMMA ProductOfSum == \A a, b, c \in Nat : (a + b) * c = a * c + b * c
OBVIOUS

LEMMA MaxOfFinite ==
  ASSUME NEW S \in SUBSET Nat, IsFiniteSet(S), S # {}
  PROVE  Max(S) \in S /\ \A k \in S : k <= Max(S)
<1>1. \E m \in S : \A k \in S : m >= k
  BY GreatestOfFinite
<1>q. QED  BY <1>1 DEF Max

LEMMA LargerOfTwo ==
  ASSUME NEW a \in Int, NEW b \in Int
  PROVE  Max({a, b}) \in {a, b} /\ a <= Max({a, b}) /\ b <= Max({a, b})
<1>1. \E m \in {a, b} : \A k \in {a, b} : m >= k
  <2>1. CASE a >= b
    BY <2>1
  <2>2. CASE b >= a
    BY <2>2
  <2>q. QED  BY <2>1, <2>2
<1>q. QED  BY <1>1 DEF Max

LEMMA SmallerOfTwo ==
  ASSUME NEW a \in Int, NEW b \in Int
  PROVE  Min({a, b}) \in {a, b} /\ Min({a, b}) <= a /\ Min({a, b}) <= b
<1>1. \E m \in {a, b} : \A k \in {a, b} : m <= k
  <2>1. CASE a >= b
    BY <2>1
  <2>2. CASE b >= a
    BY <2>2
  <2>q. QED  BY <2>1, <2>2
<1>q. QED  BY <1>1 DEF Min

-----------------------------------------------------------------------------
(* What one order may risk                                                 *)

LEMMA Budget ==
  /\ OrderBudget \in Nat
  /\ \A risk, bal \in Nat : risk <= Max(RiskBase) /\ bal <= Max(Balances) => risk * bal <= OrderBudget
<1>1. Max(RiskBase) \in Nat /\ Max(Balances) \in Nat
  <2>1. /\ RiskBase \in SUBSET Nat /\ IsFiniteSet(RiskBase) /\ RiskBase # {}
        /\ Balances \in SUBSET Nat /\ IsFiniteSet(Balances) /\ Balances # {}
    BY RiskAssumption
  <2>2. Max(RiskBase) \in RiskBase /\ Max(Balances) \in Balances
    BY <2>1, MaxOfFinite
  <2>q. QED  BY <2>1, <2>2
<1>2. OrderBudget \in Nat
  BY <1>1, ProductType DEF OrderBudget
<1>q. QED  BY <1>1, <1>2, ProductGrows DEF OrderBudget

\* No scale is above one.
LEMMA EdgeScaleBounds == \A edge \in Nat : EdgeScale(edge) \in 400..1000
<1> SUFFICES ASSUME NEW edge \in Nat PROVE EdgeScale(edge) \in 400..1000
  OBVIOUS
<1> DEFINE r == Rounded(edge * 1000, 120)
           m == Min({1000, r})
<1>1. r \in Int
  BY DEF Rounded
<1> HIDE DEF r
<1>2. m \in Int /\ m <= 1000
  <2>1. m \in {1000, r} /\ m <= 1000
    BY <1>1, SmallerOfTwo
  <2> HIDE DEF m
  <2>q. QED  BY <1>1, <2>1
<1> HIDE DEF m
<1>3. Max({400, m}) \in 400..1000
  <2>1. Max({400, m}) \in {400, m} /\ 400 <= Max({400, m})
    BY <1>2, LargerOfTwo
  <2>q. QED  BY <1>2, <2>1
<1>q. QED  BY <1>3 DEF EdgeScale, m, r

LEMMA DrawdownScaleBounds == \A dd \in Int : DrawdownScale(dd) \in 400..1000
BY DEF DrawdownScale, MaxDrawdown, Rounded

LEMMA TargetBounds ==
  \A base, edge, dd \in Nat :
    edge <= 1000 /\ dd <= 1000 =>
      Rounded(base * edge * dd, 1000000) \in Nat /\ Rounded(base * edge * dd, 1000000) <= base
<1> SUFFICES ASSUME NEW base \in Nat, NEW edge \in Nat, NEW dd \in Nat, edge <= 1000, dd <= 1000
             PROVE  /\ Rounded(base * edge * dd, 1000000) \in Nat
                    /\ Rounded(base * edge * dd, 1000000) <= base
  OBVIOUS
<1> DEFINE x == base * edge * dd
<1>1. x \in Nat /\ x <= base * 1000000
  <2>1. base * edge <= base * 1000 /\ base * edge \in Nat /\ base * 1000 \in Nat
    BY ProductGrows, ProductType
  <2>2. base * edge * dd <= (base * 1000) * 1000 /\ base * edge * dd \in Nat
    <3> DEFINE a == base * edge
               b == base * 1000
    <3>1. a \in Nat /\ b \in Nat /\ a <= b
      BY <2>1
    <3> HIDE DEF a, b
    <3>2. a * dd <= b * 1000 /\ a * dd \in Nat
      BY <3>1, ProductGrows
    <3>q. QED  BY <3>2 DEF a, b
  <2>3. (base * 1000) * 1000 = base * 1000000
    OBVIOUS
  <2>q. QED  BY <2>2, <2>3
<1> HIDE DEF x
<1>2. (2 * x + 1000000) \div (2 * 1000000) \in Nat /\ (2 * x + 1000000) \div (2 * 1000000) <= base
  BY <1>1
<1>q. QED  BY <1>2 DEF Rounded, x

\* No cap on the leverage raises the risk, and a stop at the entry ends it.
LEMMA ComputeSizeBounds ==
  \A target, dist \in Nat : ComputeSize(target, dist) \in Nat /\ ComputeSize(target, dist) <= target
<1> SUFFICES ASSUME NEW target \in Nat, NEW dist \in Nat
             PROVE  ComputeSize(target, dist) \in Nat /\ ComputeSize(target, dist) <= target
  OBVIOUS
<1>1. MaxLeverage * dist \in Nat
  BY RiskAssumption, ProductType
<1>2. Min({target, MaxLeverage * dist}) \in Nat /\ Min({target, MaxLeverage * dist}) <= target
  <2> DEFINE cap == MaxLeverage * dist
  <2> HIDE DEF cap
  <2>1. cap \in Nat
    BY <1>1 DEF cap
  <2>2. Min({target, cap}) \in {target, cap} /\ Min({target, cap}) <= target
    BY <2>1, SmallerOfTwo
  <2>q. QED  BY <2>1, <2>2 DEF cap
<1>q. QED  BY <1>2 DEF ComputeSize

-----------------------------------------------------------------------------
(* Types                                                                   *)

Phases == {"idle", "sized", "cleared", "placed"}
Seats == [phase : Phases, order : SUBSET Order]

LEMMA RiskTypes ==
  ASSUME RiskTypeOK
  PROVE  /\ today \in 0..MaxDays /\ balance \in Balances /\ high \in Nat
         /\ eqFile \subseteq EqState /\ eqNew \subseteq EqState
         /\ (\A s, t \in eqFile : s = t) /\ (\A s, t \in eqNew : s = t)
         /\ desk \in [Desks -> Seats] /\ book \subseteq Entry
         /\ made \in Nat /\ hidden \in Nat
BY RiskAssumption DEF RiskTypeOK, Seats, Phases

LEMMA Highest ==
  ASSUME NEW stored \in SUBSET EqState, NEW h \in Nat
  PROVE  LET S == {st.high : st \in stored} \cup {h}
         IN  Max(S) \in S /\ Max(S) \in Nat /\ \A k \in S : k <= Max(S)
<1> DEFINE S == {st.high : st \in stored} \cup {h}
<1>1. {st.high : st \in stored} \subseteq Balances
  BY DEF EqState
<1>2. S \in SUBSET Nat /\ S # {}
  BY <1>1, RiskAssumption
<1>3. IsFiniteSet(S)
  <2>1. IsFiniteSet({st.high : st \in stored})
    BY <1>1, RiskAssumption, FS_Subset
  <2>q. QED  BY <2>1, FS_AddElement
<1> HIDE DEF S
<1>4. Max(S) \in S /\ \A k \in S : k <= Max(S)
  BY <1>2, <1>3, MaxOfFinite
<1>q. QED  BY <1>2, <1>4 DEF S

\* An order is sized within its budget.
LEMMA SizeBounds ==
  ASSUME RiskTypeOK, NEW base \in RiskBase, NEW edge \in Edges, NEW dist \in Distances
  PROVE  /\ SizedRisk(base, edge, dist) * balance \in Nat
         /\ SizedRisk(base, edge, dist) * balance <= OrderBudget
<1>1. base \in Nat /\ edge \in Nat /\ dist \in Nat /\ balance \in Nat \ {0} /\ Balances \subseteq Nat
  BY RiskAssumption, RiskTypes
<1>2. SizeDrawdown \in Int
  <2> DEFINE h == Max({st.high : st \in eqFile} \cup {balance})
  <2>1. h \in Nat /\ balance <= h
    BY <1>1, Highest, RiskTypes
  <2> HIDE DEF h
  <2>2. Rounded((h - balance) * 10000, h) \in Int
    BY <1>1, <2>1 DEF Rounded
  <2>q. QED  BY <2>2 DEF SizeDrawdown, h
<1>3. EdgeScale(edge) \in 400..1000 /\ DrawdownScale(SizeDrawdown) \in 400..1000
  BY <1>1, <1>2, EdgeScaleBounds, DrawdownScaleBounds
<1> DEFINE target == Rounded(base * EdgeScale(edge) * DrawdownScale(SizeDrawdown), 1000000)
<1>4. target \in Nat /\ target <= base
  <2> DEFINE e == EdgeScale(edge)
             d == DrawdownScale(SizeDrawdown)
  <2>1. e \in Nat /\ d \in Nat /\ e <= 1000 /\ d <= 1000
    BY <1>3
  <2> HIDE DEF e, d
  <2>2. Rounded(base * e * d, 1000000) \in Nat /\ Rounded(base * e * d, 1000000) <= base
    BY <1>1, <2>1, TargetBounds
  <2>q. QED  BY <2>2 DEF e, d
<1> HIDE DEF target
<1>5. SizedRisk(base, edge, dist) \in Nat /\ SizedRisk(base, edge, dist) <= base
  <2>1. ComputeSize(target, dist) \in Nat /\ ComputeSize(target, dist) <= target
    BY <1>1, <1>4, ComputeSizeBounds
  <2>2. SizedRisk(base, edge, dist) = ComputeSize(target, dist)
    BY DEF SizedRisk, target
  <2>q. QED  BY <1>1, <1>4, <2>1, <2>2
<1>6. base <= Max(RiskBase) /\ balance <= Max(Balances) /\ Max(RiskBase) \in Nat
  <2>1. /\ RiskBase \in SUBSET Nat /\ IsFiniteSet(RiskBase) /\ RiskBase # {}
        /\ Balances \in SUBSET Nat /\ IsFiniteSet(Balances) /\ Balances # {}
    BY RiskAssumption
  <2>q. QED  BY <2>1, MaxOfFinite, RiskTypes
<1> DEFINE r == SizedRisk(base, edge, dist)
<1> HIDE DEF r
<1>7. r \in Nat /\ r <= Max(RiskBase)
  BY <1>1, <1>5, <1>6 DEF r
<1>8. r * balance \in Nat /\ r * balance <= OrderBudget
  BY <1>1, <1>6, <1>7, Budget, ProductType
<1>q. QED  BY <1>8 DEF r

\* equity.json keeps a last balance that its high-water mark covers.
LEMMA NextEqType ==
  ASSUME RiskTypeOK
  PROVE  NextEqState \in EqState /\ NextEqState.last <= NextEqState.high
<1>1. today \in Nat /\ balance \in Balances /\ \A bal \in Balances : bal \in Nat /\ bal \in Int
  BY RiskTypes, RiskAssumption
<1>2. CASE eqFile = {}
  BY <1>1, <1>2 DEF NextEqState, EqState
<1>3. CASE eqFile # {}
  <2> DEFINE st == CHOOSE s \in eqFile : TRUE
  <2>1. st \in EqState
    BY <1>3, RiskTypes
  <2> HIDE DEF st
  <2>2. st.start \in Balances /\ st.high \in Balances
    BY <2>1 DEF EqState
  <2> DEFINE top == st.high
             m == Max({top, balance})
  <2>3. top \in Balances /\ top \in Int /\ balance \in Int
    BY <1>1, <2>2
  <2> HIDE DEF top
  <2>4. m \in {top, balance} /\ balance <= m
    BY <2>3, LargerOfTwo
  <2> HIDE DEF m
  <2>5. NextEqState = [day   |-> today,
                       start |-> IF st.day # today THEN balance ELSE st.start,
                       high  |-> m,
                       last  |-> balance]
    BY <1>3 DEF NextEqState, st, m, top
  <2>q. QED  BY <1>1, <2>2, <2>3, <2>4, <2>5 DEF EqState
<1>q. QED  BY <1>2, <1>3

LEMMA RiskTypeInit == RiskInit => RiskTypeOK
<1> SUFFICES ASSUME RiskInit PROVE RiskTypeOK
  OBVIOUS
<1>1. Max(Balances) \in Balances /\ Balances \subseteq Nat
  <2>1. Balances \in SUBSET Nat /\ IsFiniteSet(Balances) /\ Balances # {}
    BY RiskAssumption
  <2>q. QED  BY <2>1, MaxOfFinite
<1>2. Idle \in Seats
  BY DEF Idle, Seats, Phases
<1>3. desk \in [Desks -> Seats]
  BY <1>2 DEF RiskInit
<1>4. balance \in Balances /\ balance \in Nat
  BY <1>1 DEF RiskInit
<1>5. eqFile \subseteq EqState /\ \A s, t \in eqFile : s = t
  BY <1>4 DEF RiskInit, EqState
<1>6. 0 \in 0..MaxDays /\ 0 \in 0..MaxOrders /\ 0 \in 0..MaxHidden
  BY RiskAssumption
<1>q. QED  BY <1>3, <1>4, <1>5, <1>6 DEF RiskInit, RiskTypeOK, Seats, Phases

\* The step of one desk: the others keep their seats.
LEMMA SeatType ==
  ASSUME RiskTypeOK, NEW p \in Desks, NEW r \in Seats, desk' = [desk EXCEPT ![p] = r]
  PROVE  desk' \in [Desks -> Seats]
BY RiskTypes

LEMMA PhaseType ==
  ASSUME RiskTypeOK, NEW p \in Desks, NEW ph \in Phases, desk' = [desk EXCEPT ![p].phase = ph]
  PROVE  /\ desk' \in [Desks -> Seats] /\ desk'[p] = [phase |-> ph, order |-> desk[p].order]
         /\ desk' = [desk EXCEPT ![p] = [phase |-> ph, order |-> desk[p].order]]
<1>1. desk \in [Desks -> Seats] /\ desk[p] \in Seats
  BY RiskTypes
<1>2. [desk[p] EXCEPT !.phase = ph] = [phase |-> ph, order |-> desk[p].order]
  BY <1>1 DEF Seats
<1>3. desk' = [desk EXCEPT ![p] = [phase |-> ph, order |-> desk[p].order]]
  BY <1>2
<1>4. [phase |-> ph, order |-> desk[p].order] \in Seats
  BY <1>1 DEF Seats
<1>q. QED  BY <1>1, <1>3, <1>4

\* The line of an order: what the book becomes when it is written.
LineLogged(p) == {IF b.order \in desk[p].order THEN [b EXCEPT !.logged = TRUE, !.day = today]
               ELSE b : b \in book}

LEMMA LineType ==
  ASSUME RiskTypeOK, NEW b \in Entry
  PROVE  LET c == [b EXCEPT !.logged = TRUE, !.day = today]
         IN  /\ c \in Entry /\ c.order = b.order /\ c.active = b.active /\ c.logged /\ c.day = today
BY RiskTypes DEF Entry

LEMMA ClosedType ==
  ASSUME NEW b \in Entry
  PROVE  LET c == [b EXCEPT !.active = FALSE]
         IN  /\ c \in Entry /\ c.order = b.order /\ c.logged = b.logged /\ c.day = b.day /\ ~c.active
BY DEF Entry

LEMMA RiskTypeStep == RiskTypeOK /\ [RiskNext]_riskVars => RiskTypeOK'
<1> SUFFICES ASSUME RiskTypeOK, [RiskNext]_riskVars PROVE RiskTypeOK'
  OBVIOUS
<1>1. CASE UNCHANGED riskVars
  BY <1>1 DEF riskVars, eqVars, RiskTypeOK
<1>2. CASE RiskOpens
  <2>1. eqNew' = {NextEqState} /\ eqFile' = {} /\ eqCut' = TRUE
        /\ UNCHANGED <<today, balance, high, desk, book, made, blind, hidden, halted, pastHalt>>
    BY <1>2 DEF RiskOpens
  <2>2. eqNew' \subseteq EqState /\ \A s, t \in eqNew' : s = t
    BY <2>1, NextEqType
  <2>q. QED  BY <2>1, <2>2 DEF RiskTypeOK
<1>3. CASE RiskWrites
  <2>1. high' \in Nat
    <3>1. high' = Max({st.high : st \in eqNew} \cup {high})
      BY <1>3 DEF RiskWrites
    <3>q. QED  BY <3>1, Highest, RiskTypes
  <2>2. halted' \subseteq Desks
    BY <1>3 DEF RiskWrites, RiskTypeOK
  <2>3. /\ eqFile' = eqNew /\ eqCut' = FALSE /\ eqNew' = {}
        /\ UNCHANGED <<today, balance, desk, book, made, blind, hidden, pastHalt>>
    BY <1>3 DEF RiskWrites
  <2>q. QED  BY <2>1, <2>2, <2>3 DEF RiskTypeOK
<1>4. CASE RiskKilled
  BY <1>4 DEF RiskKilled, RiskTypeOK
<1>5. CASE NewDay
  BY <1>5, RiskAssumption DEF NewDay, RiskTypeOK, eqVars
<1>6. ASSUME NEW bal \in Balances, BalanceMoves(bal) PROVE RiskTypeOK'
  BY <1>6 DEF BalanceMoves, RiskTypeOK, eqVars
<1>7. ASSUME NEW b \in book, Exit(b) PROVE RiskTypeOK'
  <2>1. /\ book' = (book \ {b}) \cup {[b EXCEPT !.active = FALSE]}
        /\ UNCHANGED <<today, balance, eqVars, desk, made, blind, hidden, halted, pastHalt>>
    BY <1>7 DEF Exit
  <2>2. book' \subseteq Entry
    BY <2>1, ClosedType, RiskTypes
  <2>q. QED  BY <2>1, <2>2 DEF RiskTypeOK, eqVars
<1>8. ASSUME NEW p \in Desks, NEW side \in Sides, NEW base \in RiskBase, NEW edge \in Edges,
             NEW dist \in Distances, NEW flaw \in Flaws, Size(p, side, base, edge, dist, flaw)
      PROVE  RiskTypeOK'
  <2> DEFINE o == [n |-> made + 1, side |-> side, flaw |-> flaw,
                   risk |-> SizedRisk(base, edge, dist) * balance]
  <2>1. /\ desk' = [desk EXCEPT ![p] = [phase |-> "sized", order |-> {o}]]
        /\ made < MaxOrders /\ made' = made + 1
        /\ UNCHANGED <<today, balance, eqVars, book, blind, hidden, halted, pastHalt>>
    BY <1>8 DEF Size
  <2>2. o \in Order
    BY SizeBounds, RiskTypes, RiskAssumption DEF Order
  <2> HIDE DEF o
  <2>3. [phase |-> "sized", order |-> {o}] \in Seats
    BY <2>2 DEF Seats, Phases
  <2>4. desk' \in [Desks -> Seats]
    BY <2>1, <2>3, SeatType
  <2>5. made' \in 0..MaxOrders
    BY <2>1, RiskAssumption DEF RiskTypeOK
  <2>q. QED  BY <2>1, <2>4, <2>5 DEF RiskTypeOK, eqVars, Seats, Phases
<1>9. ASSUME NEW p \in Desks, PreflightAllows(p) PROVE RiskTypeOK'
  <2>1. /\ desk' = [desk EXCEPT ![p].phase = "cleared"] /\ blind' = (blind \/ eqFile = {})
        /\ UNCHANGED <<today, balance, eqVars, book, made, hidden, halted, pastHalt>>
    BY <1>9 DEF PreflightAllows
  <2>2. desk' \in [Desks -> Seats]
    BY <2>1, PhaseType DEF Phases
  <2>q. QED  BY <2>1, <2>2 DEF RiskTypeOK, eqVars, Seats, Phases
<1>10. ASSUME NEW p \in Desks, Abandon(p) \/ LogMissed(p) PROVE RiskTypeOK'
  <2>1. /\ desk' = [desk EXCEPT ![p] = Idle] /\ hidden' \in 0..MaxHidden
        /\ UNCHANGED <<today, balance, eqVars, book, made, blind, halted, pastHalt>>
    BY <1>10, RiskAssumption DEF Abandon, LogMissed, RiskTypeOK
  <2>2. desk' \in [Desks -> Seats]
    BY <2>1, SeatType DEF Idle, Seats, Phases
  <2>q. QED  BY <2>1, <2>2 DEF RiskTypeOK, eqVars, Seats, Phases
<1>11. ASSUME NEW p \in Desks, Place(p) PROVE RiskTypeOK'
  <2>1. /\ desk' = [desk EXCEPT ![p].phase = "placed"]
        /\ book' = book \cup {[order |-> o, day |-> today, logged |-> FALSE, active |-> TRUE] :
                                o \in desk[p].order}
        /\ UNCHANGED <<today, balance, eqVars, made, blind, hidden>>
    BY <1>11 DEF Place
  <2>2. desk' \in [Desks -> Seats]
    BY <2>1, PhaseType DEF Phases
  <2>3. book' \subseteq Entry
    <3>1. desk[p].order \subseteq Order /\ today \in 0..MaxDays
      BY RiskTypes DEF Seats
    <3>2. ASSUME NEW o \in desk[p].order
          PROVE  [order |-> o, day |-> today, logged |-> FALSE, active |-> TRUE] \in Entry
      BY <3>1 DEF Entry
    <3>q. QED  BY <2>1, <3>2, RiskTypes
  <2>4. halted' \subseteq Desks /\ pastHalt' \in BOOLEAN
    BY <1>11 DEF Place, RiskTypeOK
  <2>q. QED  BY <2>1, <2>2, <2>3, <2>4 DEF RiskTypeOK, eqVars, Seats, Phases
<1>12. ASSUME NEW p \in Desks, LogOrder(p) PROVE RiskTypeOK'
  <2>1. /\ desk' = [desk EXCEPT ![p] = Idle] /\ book' = LineLogged(p)
        /\ UNCHANGED <<today, balance, eqVars, made, blind, hidden, halted, pastHalt>>
    BY <1>12 DEF LogOrder, LineLogged
  <2>2. desk' \in [Desks -> Seats]
    BY <2>1, SeatType DEF Idle, Seats, Phases
  <2>3. book' \subseteq Entry
    BY <2>1, LineType, RiskTypes DEF LineLogged
  <2>q. QED  BY <2>1, <2>2, <2>3 DEF RiskTypeOK, eqVars, Seats, Phases
<1>q. QED
  BY <1>1, <1>2, <1>3, <1>4, <1>5, <1>6, <1>7, <1>8, <1>9, <1>10, <1>11, <1>12 DEF RiskNext

\* The files, the book and the desks stay what they are.
THEOREM RiskDeskTypes == RiskSpec => []RiskTypeOK
BY RiskTypeInit, RiskTypeStep, PTL DEF RiskSpec

-----------------------------------------------------------------------------
(* Orders                                                                  *)

\* An order is on a desk, in the book, or in both: placed and not yet logged.
\* It keeps its number and its budget on the way.
Orders ==
  /\ IsFiniteSet(book)
  /\ \A p \in Desks : desk[p].phase = "idle" <=> desk[p].order = {}
  /\ \A p \in Desks : \A o \in desk[p].order : o.n <= made /\ o.risk <= OrderBudget
  /\ \A p, q \in Desks : \A o \in desk[p].order, u \in desk[q].order : o.n = u.n => p = q /\ o = u
  /\ \A p \in Desks : \A o, u \in desk[p].order : o = u
  /\ \A b \in book : b.order.n <= made /\ b.order.risk <= OrderBudget
  /\ \A b, c \in book : b.order.n = c.order.n => b = c
  /\ \A p \in Desks : \A o \in desk[p].order : \A b \in book :
       b.order.n = o.n => desk[p].phase = "placed" /\ b.order = o /\ ~b.logged
  /\ \A p \in Desks : \A o \in desk[p].order :
       desk[p].phase = "placed" => \E b \in book : b.order = o

\* A line of the book is replaced by another of the same order.
Swaps(b, c) == c.order = b.order /\ book' = (book \ {b}) \cup {c}

LEMMA LogSwaps ==
  ASSUME RiskTypeOK, Orders, NEW p \in Desks, LogOrder(p)
  PROVE  \E b \in book, c \in Entry :
           /\ Swaps(b, c) /\ b.order \in desk[p].order /\ ~b.logged
           /\ c.logged /\ c.day = today /\ c.active = b.active
<1>1. desk[p].phase = "placed" /\ book' = LineLogged(p)
  BY DEF LogOrder, LineLogged
<1>2. PICK o \in desk[p].order : TRUE
  BY <1>1 DEF Orders
<1>3. PICK b \in book : b.order = o
  BY <1>1, <1>2 DEF Orders
<1>4. b \in Entry /\ ~b.logged
  BY <1>2, <1>3, RiskTypes DEF Orders
<1>5. \A d \in book : d.order \in desk[p].order <=> d = b
  BY <1>2, <1>3 DEF Orders
<1> DEFINE c == [b EXCEPT !.logged = TRUE, !.day = today]
<1>6. c \in Entry /\ c.order = b.order /\ c.active = b.active /\ c.logged /\ c.day = today
  BY <1>4, LineType
<1>7. book' = (book \ {b}) \cup {c}
  <2> DEFINE Relogged(d) == IF d.order \in desk[p].order THEN [d EXCEPT !.logged = TRUE, !.day = today] ELSE d
  <2>1. book' = {Relogged(d) : d \in book}
    BY <1>1 DEF LineLogged
  <2>2. Relogged(b) = c /\ \A d \in book : d # b => Relogged(d) = d
    BY <1>5
  <2> HIDE DEF Relogged, c
  <2>q. QED  BY <1>3, <2>1, <2>2
<1> HIDE DEF c
<1>q. QED  BY <1>2, <1>3, <1>4, <1>6, <1>7 DEF Swaps

LEMMA ExitSwaps ==
  ASSUME RiskTypeOK, NEW b \in book, Exit(b)
  PROVE  \E c \in Entry :
           /\ Swaps(b, c) /\ b.logged /\ b.active
           /\ c.logged /\ c.day = b.day /\ ~c.active
<1> DEFINE c == [b EXCEPT !.active = FALSE]
<1>1. b.active /\ b.logged /\ book' = (book \ {b}) \cup {c}
  BY DEF Exit
<1>2. c \in Entry /\ c.order = b.order /\ c.logged = b.logged /\ c.day = b.day /\ ~c.active
  BY ClosedType, RiskTypes
<1> HIDE DEF c
<1>q. QED  BY <1>1, <1>2 DEF Swaps

\* What placing an order puts in the book.
LEMMA PlaceAdds ==
  ASSUME RiskTypeOK, Orders, NEW p \in Desks, Place(p)
  PROVE  \E c \in Entry :
           /\ c.order \in desk[p].order /\ ~c.logged /\ c.active /\ c.day = today
           /\ book' = book \cup {c} /\ c \notin book
<1>1. /\ desk[p].phase = "cleared"
      /\ book' = book \cup {[order |-> o, day |-> today, logged |-> FALSE, active |-> TRUE] :
                              o \in desk[p].order}
  BY DEF Place
<1>2. PICK o \in desk[p].order : TRUE
  BY <1>1 DEF Orders
<1>3. desk[p].order = {o} /\ o \in Order
  BY <1>2, RiskTypes DEF Orders, Seats
<1> DEFINE c == [order |-> o, day |-> today, logged |-> FALSE, active |-> TRUE]
<1>4. c \in Entry /\ c.order = o /\ ~c.logged /\ c.active /\ c.day = today
  BY <1>3, RiskTypes DEF Entry
<1>5. book' = book \cup {c}
  BY <1>1, <1>3
<1> HIDE DEF c
<1>6. c \notin book
  BY <1>1, <1>2, <1>4 DEF Orders
<1>q. QED  BY <1>2, <1>4, <1>5, <1>6

LEMMA FiniteSwap == ASSUME Orders, NEW b, NEW c, Swaps(b, c) PROVE IsFiniteSet(book')
<1>1. IsFiniteSet(book \ {b})
  BY FS_Subset DEF Orders
<1>q. QED  BY <1>1, FS_AddElement DEF Swaps

LEMMA OrdersInit == RiskInit => Orders
<1> SUFFICES ASSUME RiskInit PROVE Orders
  OBVIOUS
<1>1. book = {} /\ IsFiniteSet(book)
  BY FS_EmptySet DEF RiskInit
<1>2. \A p \in Desks : desk[p].phase = "idle" /\ desk[p].order = {}
  BY DEF RiskInit, Idle
<1>q. QED  BY <1>1, <1>2 DEF Orders

LEMMA OrdersStep == RiskTypeOK /\ Orders /\ [RiskNext]_riskVars => Orders'
<1> SUFFICES ASSUME RiskTypeOK, Orders, [RiskNext]_riskVars PROVE Orders'
  OBVIOUS
<1>0. desk \in [Desks -> Seats] /\ made \in Nat /\ book \subseteq Entry
  BY RiskTypes
<1>1. CASE RiskOpens \/ RiskWrites \/ RiskKilled \/ NewDay \/ UNCHANGED riskVars
           \/ \E bal \in Balances : BalanceMoves(bal)
  <2>1. UNCHANGED <<desk, book, made>>
    BY <1>1 DEF RiskOpens, RiskWrites, RiskKilled, NewDay, BalanceMoves, riskVars
  <2>q. QED  BY <2>1 DEF Orders
<1>2. ASSUME NEW b \in book, Exit(b) PROVE Orders'
  <2>1. PICK c \in Entry : Swaps(b, c) /\ b.logged /\ c.logged
    BY <1>2, ExitSwaps
  <2>2. UNCHANGED <<desk, made>>
    BY <1>2 DEF Exit
  <2>3. IsFiniteSet(book')
    BY <2>1, FiniteSwap
  <2>q. QED  BY <2>1, <2>2, <2>3 DEF Orders, Swaps
<1>3. ASSUME NEW p \in Desks, NEW side \in Sides, NEW base \in RiskBase, NEW edge \in Edges,
             NEW dist \in Distances, NEW flaw \in Flaws, Size(p, side, base, edge, dist, flaw)
      PROVE  Orders'
  <2> DEFINE o == [n |-> made + 1, side |-> side, flaw |-> flaw,
                   risk |-> SizedRisk(base, edge, dist) * balance]
  <2>1. /\ desk[p].phase = "idle" /\ desk' = [desk EXCEPT ![p] = [phase |-> "sized", order |-> {o}]]
        /\ made' = made + 1 /\ book' = book
    BY <1>3 DEF Size
  <2>2. o.n = made + 1 /\ o.risk <= OrderBudget
    BY SizeBounds
  <2> HIDE DEF o
  <2>3. desk'[p].phase = "sized" /\ desk'[p].order = {o} /\ \A q \in Desks : q # p => desk'[q] = desk[q]
    BY <1>0, <2>1
  <2>4. \A q \in Desks : \A u \in desk[q].order : u \in Order /\ u.n \in Nat
    BY <1>0 DEF Seats, Order
  <2>5. \A b \in book : b.order.n \in Nat
    BY <1>0 DEF Entry, Order
  <2>q. QED  BY <1>0, <2>1, <2>2, <2>3, <2>4, <2>5 DEF Orders
<1>4. ASSUME NEW p \in Desks, PreflightAllows(p) PROVE Orders'
  <2>1. /\ desk[p].phase = "sized" /\ desk' = [desk EXCEPT ![p].phase = "cleared"]
        /\ UNCHANGED <<book, made>>
    BY <1>4 DEF PreflightAllows
  <2>2. desk'[p] = [phase |-> "cleared", order |-> desk[p].order]
    BY <2>1, PhaseType DEF Phases
  <2>3. \A q \in Desks : q # p => desk'[q] = desk[q]
    BY <1>0, <2>1
  <2>q. QED  BY <2>1, <2>2, <2>3 DEF Orders
<1>5. ASSUME NEW p \in Desks, Abandon(p) \/ LogMissed(p) PROVE Orders'
  <2>1. desk' = [desk EXCEPT ![p] = Idle] /\ UNCHANGED <<book, made>>
    BY <1>5 DEF Abandon, LogMissed
  <2>2. desk'[p].phase = "idle" /\ desk'[p].order = {} /\ \A q \in Desks : q # p => desk'[q] = desk[q]
    BY <1>0, <2>1 DEF Idle
  <2>q. QED  BY <2>1, <2>2 DEF Orders
<1>6. ASSUME NEW p \in Desks, Place(p) PROVE Orders'
  <2>1. PICK c \in Entry : /\ c.order \in desk[p].order /\ ~c.logged
                           /\ book' = book \cup {c} /\ c \notin book
    BY <1>6, PlaceAdds
  <2>2. desk[p].phase = "cleared" /\ desk' = [desk EXCEPT ![p].phase = "placed"] /\ made' = made
    BY <1>6 DEF Place
  <2>3. desk'[p] = [phase |-> "placed", order |-> desk[p].order]
    BY <2>2, PhaseType DEF Phases
  <2>4. \A q \in Desks : q # p => desk'[q] = desk[q]
    BY <1>0, <2>2
  <2>5. IsFiniteSet(book')
    BY <2>1, FS_AddElement DEF Orders
  <2>q. QED  BY <2>1, <2>2, <2>3, <2>4, <2>5 DEF Orders
<1>7. ASSUME NEW p \in Desks, LogOrder(p) PROVE Orders'
  <2>1. PICK b \in book, c \in Entry : Swaps(b, c) /\ b.order \in desk[p].order /\ c.logged
    BY <1>7, LogSwaps
  <2>2. desk' = [desk EXCEPT ![p] = Idle] /\ made' = made
    BY <1>7 DEF LogOrder
  <2>3. desk'[p].phase = "idle" /\ desk'[p].order = {} /\ \A q \in Desks : q # p => desk'[q] = desk[q]
    BY <1>0, <2>2 DEF Idle
  <2>4. IsFiniteSet(book')
    BY <2>1, FiniteSwap
  <2>q. QED  BY <2>1, <2>2, <2>3, <2>4 DEF Orders, Swaps
<1>q. QED  BY <1>1, <1>2, <1>3, <1>4, <1>5, <1>6, <1>7 DEF RiskNext

-----------------------------------------------------------------------------
(* The breaker                                                             *)

Strict == ~Relaxed /\ ~blind

\* Who placed since a breach was recorded has nothing cleared, and nothing
\* clears while the breach stands.
HaltHolds ==
  Strict => /\ ~pastHalt
            /\ \A p \in halted : desk[p].phase # "cleared"
            /\ halted # {} /\ eqFile # {} => Halt(eqFile)

LEMMA BlocksMeans ==
  ASSUME ~Relaxed, NEW o, Blocks(o) = {}
  PROVE  ~Halt(eqFile) /\ ~(TodayCount >= MaxTrades) /\ CanAdd(o.side)
<1>1. Blocks(o) = {g \in Guards : Refuses(g, o)}
  BY DEF Blocks
<1>2. ~Refuses("breaker", o) /\ ~Refuses("daily-limit", o) /\ ~Refuses("exposure", o)
  BY <1>1 DEF Guards
<1>3. Refuses("breaker", o) = Halt(eqFile)
  BY DEF Refuses
<1>4. Refuses("daily-limit", o) = (TodayCount >= MaxTrades)
  BY DEF Refuses
<1>5. Refuses("exposure", o) = ~CanAdd(o.side)
  BY DEF Refuses
<1>q. QED  BY <1>2, <1>3, <1>4, <1>5

\* What a process that passes the preflight knows.
LEMMA PreflightMeans ==
  ASSUME RiskTypeOK, Orders, NEW p \in Desks, PreflightAllows(p), Strict'
  PROVE  /\ Strict /\ eqFile # {} /\ ~Halt(eqFile) /\ ~(TodayCount >= MaxTrades)
         /\ \A o \in desk[p].order : CanAdd(o.side)
<1>1. /\ desk[p].phase = "sized" /\ \A o \in desk[p].order : Blocks(o) = {}
      /\ blind' = (blind \/ eqFile = {})
  BY DEF PreflightAllows
<1>2. Strict /\ eqFile # {}
  BY <1>1 DEF Strict
<1>3. PICK o \in desk[p].order : TRUE
  BY <1>1 DEF Orders
<1>q. QED  BY <1>1, <1>2, <1>3, BlocksMeans DEF Strict

LEMMA HaltInit == RiskInit => HaltHolds
BY DEF RiskInit, HaltHolds

LEMMA HaltStep == RiskTypeOK /\ Orders /\ HaltHolds /\ [RiskNext]_riskVars => HaltHolds'
<1> SUFFICES ASSUME RiskTypeOK, Orders, HaltHolds, [RiskNext]_riskVars, Strict' PROVE HaltHolds'
  BY DEF HaltHolds
<1>0. desk \in [Desks -> Seats] /\ halted \subseteq Desks
  BY RiskTypes DEF RiskTypeOK
<1>1. CASE NewDay \/ UNCHANGED riskVars \/ (\E bal \in Balances : BalanceMoves(bal))
           \/ \E b \in book : Exit(b)
  <2>1. UNCHANGED <<desk, eqFile, blind, halted, pastHalt>>
    BY <1>1 DEF NewDay, BalanceMoves, Exit, riskVars, eqVars
  <2>q. QED  BY <2>1 DEF HaltHolds, Strict, Halt
<1>2. CASE RiskOpens
  BY <1>2 DEF RiskOpens, HaltHolds, Strict
<1>3. CASE RiskKilled
  <2>1. halted' = {} /\ UNCHANGED <<desk, blind, pastHalt>>
    BY <1>3 DEF RiskKilled
  <2>q. QED  BY <2>1 DEF HaltHolds, Strict
<1>4. CASE RiskWrites
  <2>1. /\ eqFile' = eqNew /\ halted' = (IF Halt(eqNew) THEN halted ELSE {})
        /\ UNCHANGED <<desk, blind, pastHalt>>
    BY <1>4 DEF RiskWrites
  <2>2. halted' # {} => halted' = halted /\ Halt(eqFile)'
    BY <2>1 DEF Halt, DayBreach, DrawdownBreach
  <2>q. QED  BY <2>1, <2>2 DEF HaltHolds, Strict
<1>5. ASSUME NEW p \in Desks, NEW side \in Sides, NEW base \in RiskBase, NEW edge \in Edges,
             NEW dist \in Distances, NEW flaw \in Flaws, Size(p, side, base, edge, dist, flaw)
      PROVE  HaltHolds'
  <2>1. UNCHANGED <<eqFile, blind, halted, pastHalt>>
    BY <1>5 DEF Size, eqVars
  <2>2. \A q \in Desks : desk'[q].phase = "cleared" => desk[q].phase = "cleared"
    BY <1>0, <1>5 DEF Size
  <2>q. QED  BY <1>0, <2>1, <2>2 DEF HaltHolds, Strict, Halt
<1>6. ASSUME NEW p \in Desks, Abandon(p) \/ LogMissed(p) \/ LogOrder(p) PROVE HaltHolds'
  <2>1. UNCHANGED <<eqFile, blind, halted, pastHalt>> /\ desk' = [desk EXCEPT ![p] = Idle]
    BY <1>6 DEF Abandon, LogMissed, LogOrder, eqVars
  <2>2. \A q \in Desks : desk'[q].phase = "cleared" => desk[q].phase = "cleared"
    BY <1>0, <2>1 DEF Idle
  <2>q. QED  BY <1>0, <2>1, <2>2 DEF HaltHolds, Strict, Halt
<1>7. ASSUME NEW p \in Desks, PreflightAllows(p) PROVE HaltHolds'
  <2>1. Strict /\ eqFile # {} /\ ~Halt(eqFile)
    BY <1>7, PreflightMeans
  <2>2. halted = {} /\ ~pastHalt
    BY <2>1 DEF HaltHolds
  <2>3. UNCHANGED <<eqFile, halted, pastHalt>>
    BY <1>7 DEF PreflightAllows, eqVars
  <2>q. QED  BY <2>2, <2>3 DEF HaltHolds
<1>8. ASSUME NEW p \in Desks, Place(p) PROVE HaltHolds'
  <2>1. /\ desk[p].phase = "cleared" /\ desk' = [desk EXCEPT ![p].phase = "placed"]
        /\ halted' = (IF Halt(eqFile) THEN halted \cup {p} ELSE halted)
        /\ pastHalt' = (pastHalt \/ (Halt(eqFile) /\ p \in halted))
        /\ UNCHANGED <<eqFile, blind>>
    BY <1>8 DEF Place, eqVars
  <2>2. Strict
    BY <2>1 DEF Strict
  <2>3. ~pastHalt' /\ (halted' # {} /\ eqFile' # {} => Halt(eqFile)')
    <3>1. Halt(eqFile)' = Halt(eqFile)
      BY <2>1 DEF Halt, DayBreach, DrawdownBreach
    <3>q. QED  BY <2>1, <2>2, <3>1 DEF HaltHolds
  <2>4. desk'[p] = [phase |-> "placed", order |-> desk[p].order] /\ \A q \in Desks : q # p => desk'[q] = desk[q]
    <3>1. desk'[p] = [phase |-> "placed", order |-> desk[p].order]
      BY <2>1, PhaseType DEF Phases
    <3>q. QED  BY <1>0, <2>1, <3>1
  <2>5. \A q \in halted' : desk'[q].phase # "cleared"
    BY <1>0, <2>1, <2>2, <2>4 DEF HaltHolds
  <2>q. QED  BY <2>3, <2>5 DEF HaltHolds
<1>q. QED  BY <1>1, <1>2, <1>3, <1>4, <1>5, <1>6, <1>7, <1>8 DEF RiskNext

-----------------------------------------------------------------------------
(* The quota of the day                                                    *)

DesksAt(phases) == {p \in Desks : desk[p].phase \in phases}
Count(phases) == Cardinality(DesksAt(phases))
Today == {b \in book : b.logged /\ b.day = today}

\* Who has passed its check and not yet logged counts as logged.
QuotaHolds ==
  /\ \A b \in book : b.day <= today
  /\ ~Relaxed => /\ Cardinality(Today) + Count({"cleared", "placed"}) <= MaxTrades + Cardinality(Desks) - 1
                 /\ MaxTrades = 0 => DesksAt({"cleared", "placed"}) = {}

LEMMA DesksCount == Cardinality(Desks) \in Nat /\ Cardinality(Desks) >= 1 /\ IsFiniteSet(Desks)
BY RiskAssumption, FS_CardinalityType, FS_EmptySet

\* One desk more or one less among those that are counted.
LEMMA OneMoves ==
  ASSUME NEW S \in SUBSET Desks, NEW T \in SUBSET Desks, NEW p \in Desks,
         \A q \in Desks : q # p => (q \in S <=> q \in T)
  PROVE  /\ Cardinality(S) \in Nat /\ Cardinality(T) \in Nat
         /\ (p \in S <=> p \in T) => Cardinality(T) = Cardinality(S)
         /\ p \notin S /\ p \in T => Cardinality(T) = Cardinality(S) + 1
         /\ p \in S /\ p \notin T => Cardinality(S) = Cardinality(T) + 1
<1>1. IsFiniteSet(S) /\ IsFiniteSet(T)
  BY DesksCount, FS_Subset
<1>2. Cardinality(S) \in Nat /\ Cardinality(T) \in Nat
  BY <1>1, FS_CardinalityType
<1>3. (p \in S <=> p \in T) => T = S
  OBVIOUS
<1>4. ASSUME p \notin S, p \in T PROVE Cardinality(T) = Cardinality(S) + 1
  <2>1. T = S \cup {p}
    BY <1>4
  <2>q. QED  BY <1>1, <1>4, <2>1, FS_AddElement
<1>5. ASSUME p \in S, p \notin T PROVE Cardinality(S) = Cardinality(T) + 1
  <2>1. S = T \cup {p}
    BY <1>5
  <2>q. QED  BY <1>1, <1>5, <2>1, FS_AddElement
<1>q. QED  BY <1>2, <1>3, <1>4, <1>5

\* A desk goes from a phase to another.
LEMMA CountMoves ==
  ASSUME RiskTypeOK, NEW p \in Desks, NEW r, desk' = [desk EXCEPT ![p] = r], NEW phases
  PROVE  /\ Count(phases) \in Nat /\ Count(phases)' \in Nat
         /\ (desk[p].phase \in phases <=> r.phase \in phases) => Count(phases)' = Count(phases)
         /\ desk[p].phase \notin phases /\ r.phase \in phases => Count(phases)' = Count(phases) + 1
         /\ desk[p].phase \in phases /\ r.phase \notin phases => Count(phases) = Count(phases)' + 1
<1> DEFINE S == DesksAt(phases)
           T == DesksAt(phases)'
<1>1. S \in SUBSET Desks /\ T \in SUBSET Desks /\ (p \in S <=> desk[p].phase \in phases)
  BY DEF DesksAt
<1>2. p \in T <=> r.phase \in phases
  BY RiskTypes DEF DesksAt
<1>3. \A q \in Desks : q # p => (q \in S <=> q \in T)
  BY RiskTypes DEF DesksAt
<1>4. Count(phases) = Cardinality(S) /\ Count(phases)' = Cardinality(T)
  BY DEF Count
<1> HIDE DEF S, T
<1>q. QED  BY <1>1, <1>2, <1>3, <1>4, OneMoves

LEMMA CountIdle ==
  ASSUME RiskTypeOK, NEW p \in Desks, desk' = [desk EXCEPT ![p] = Idle], NEW phases, "idle" \notin phases
  PROVE  /\ Count(phases) \in Nat /\ Count(phases)' \in Nat
         /\ desk[p].phase \notin phases => Count(phases)' = Count(phases)
         /\ desk[p].phase \in phases => Count(phases) = Count(phases)' + 1
<1> DEFINE r == Idle
<1>1. r.phase = "idle" /\ desk' = [desk EXCEPT ![p] = r]
  BY DEF Idle
<1> HIDE DEF r
<1>2. r.phase \notin phases
  BY <1>1
<1>q. QED  BY <1>1, <1>2, CountMoves

LEMMA CountPhase ==
  ASSUME RiskTypeOK, NEW p \in Desks, NEW ph \in Phases, desk' = [desk EXCEPT ![p].phase = ph], NEW phases
  PROVE  /\ Count(phases) \in Nat /\ Count(phases)' \in Nat
         /\ (desk[p].phase \in phases <=> ph \in phases) => Count(phases)' = Count(phases)
         /\ desk[p].phase \notin phases /\ ph \in phases => Count(phases)' = Count(phases) + 1
         /\ desk[p].phase \in phases /\ ph \notin phases => Count(phases) = Count(phases)' + 1
<1>1. desk' = [desk EXCEPT ![p] = [phase |-> ph, order |-> desk[p].order]]
  BY PhaseType
<1> DEFINE r == [phase |-> ph, order |-> desk[p].order]
<1>2. r.phase = ph /\ desk' = [desk EXCEPT ![p] = r]
  BY <1>1
<1> HIDE DEF r
<1>q. QED  BY <1>2, CountMoves

LEMMA TodayType == ASSUME Orders PROVE IsFiniteSet(Today) /\ Cardinality(Today) \in Nat
<1>1. IsFiniteSet(Today)
  BY FS_Subset DEF Orders, Today
<1>q. QED  BY <1>1, FS_CardinalityType

\* A line that replaces another adds at most itself.
LEMMA TodaySwap ==
  ASSUME RiskTypeOK, Orders, NEW b \in book, NEW c \in Entry, Swaps(b, c), today' = today
  PROVE  /\ Cardinality(Today') <= Cardinality(Today) + 1 /\ Cardinality(Today') \in Nat
         /\ b.logged /\ b.day = c.day => Cardinality(Today') <= Cardinality(Today)
<1>1. Today' \subseteq (Today \ {b}) \cup {c}
  BY DEF Today, Swaps
<1>2. IsFiniteSet(Today) /\ IsFiniteSet(Today \ {b}) /\ Cardinality(Today) \in Nat
  BY TodayType, FS_Subset
<1>3. /\ IsFiniteSet((Today \ {b}) \cup {c})
      /\ Cardinality((Today \ {b}) \cup {c}) <= Cardinality(Today \ {b}) + 1
      /\ Cardinality(Today \ {b}) \in Nat /\ Cardinality(Today \ {b}) <= Cardinality(Today)
      /\ b \in Today => Cardinality(Today \ {b}) = Cardinality(Today) - 1
  BY <1>2, FS_AddElement, FS_CardinalityType, FS_Subset, FS_RemoveElement
<1>4. /\ IsFiniteSet(Today') /\ Cardinality(Today') \in Nat
      /\ Cardinality(Today') <= Cardinality((Today \ {b}) \cup {c})
  BY <1>1, <1>3, FS_Subset, FS_CardinalityType
<1>5. Cardinality((Today \ {b}) \cup {c}) \in Nat
  BY <1>3, FS_CardinalityType
<1>6. ASSUME b.logged, b.day = c.day PROVE Cardinality(Today') <= Cardinality(Today)
  <2>1. CASE b \in Today
    BY <1>2, <1>3, <1>4, <1>5, <2>1
  <2>2. CASE b \notin Today
    <3>1. Today' \subseteq Today
      BY <1>6, <2>2 DEF Today, Swaps
    <3>q. QED  BY <1>2, <3>1, FS_Subset
  <2>q. QED  BY <2>1, <2>2
<1>q. QED  BY <1>2, <1>3, <1>4, <1>5, <1>6

LEMMA QuotaInit == RiskInit => QuotaHolds
<1> SUFFICES ASSUME RiskInit PROVE QuotaHolds
  OBVIOUS
<1>1. book = {} /\ Today = {}
  BY DEF RiskInit, Today
<1>2. DesksAt({"cleared", "placed"}) = {}
  BY DEF RiskInit, DesksAt, Idle
<1>3. Cardinality(Today) = 0 /\ Count({"cleared", "placed"}) = 0
  BY <1>1, <1>2, FS_EmptySet DEF Count
<1>q. QED  BY <1>1, <1>2, <1>3, DesksCount, RiskAssumption DEF QuotaHolds

Busy == {"cleared", "placed"}

LEMMA QuotaStep == RiskTypeOK /\ Orders /\ QuotaHolds /\ [RiskNext]_riskVars => QuotaHolds'
<1> SUFFICES ASSUME RiskTypeOK, Orders, QuotaHolds, [RiskNext]_riskVars PROVE QuotaHolds'
  OBVIOUS
<1>0. /\ desk \in [Desks -> Seats] /\ book \subseteq Entry /\ today \in Nat /\ MaxTrades \in Nat
      /\ Cardinality(Desks) \in Nat /\ Cardinality(Desks) >= 1 /\ IsFiniteSet(Desks)
      /\ \A b \in Entry : b.day \in Nat
  BY RiskTypes, RiskAssumption, DesksCount DEF Entry
<1>1. CASE RiskOpens \/ RiskWrites \/ RiskKilled \/ UNCHANGED riskVars
           \/ \E bal \in Balances : BalanceMoves(bal)
  <2>1. UNCHANGED <<desk, book, today>>
    BY <1>1 DEF RiskOpens, RiskWrites, RiskKilled, BalanceMoves, riskVars
  <2>q. QED  BY <2>1 DEF QuotaHolds, Today, Count, DesksAt
<1>2. CASE NewDay
  <2>1. today' = today + 1 /\ UNCHANGED <<desk, book>>
    BY <1>2 DEF NewDay
  <2>2. \A b \in book : b.day <= today /\ b.day \in Nat
    BY <1>0 DEF QuotaHolds
  <2>3. Today' = {} /\ \A b \in book : b.day <= today'
    BY <1>0, <2>1, <2>2 DEF Today
  <2>4. Cardinality(Today') = 0
    BY <2>3, FS_EmptySet
  <2>5. DesksAt({"cleared", "placed"})' = DesksAt({"cleared", "placed"})
    BY <2>1 DEF DesksAt
  <2>6. Count(Busy) \in Nat /\ Count(Busy) <= Cardinality(Desks) /\ (DesksAt(Busy) = {} => Count(Busy) = 0)
    <3>1. DesksAt(Busy) \subseteq Desks
      BY DEF DesksAt
    <3>q. QED  BY <1>0, <3>1, FS_Subset, FS_CardinalityType, FS_EmptySet DEF Count
  <2>7. Count(Busy)' = Count(Busy)
    BY <2>5 DEF Busy, Count
  <2>8. ~Relaxed => Cardinality(Today') + Count(Busy)' <= MaxTrades + Cardinality(Desks) - 1
    <3>1. CASE MaxTrades = 0
      BY <1>0, <2>4, <2>6, <2>7, <3>1 DEF QuotaHolds, Busy
    <3>2. CASE MaxTrades # 0
      BY <1>0, <2>4, <2>6, <2>7, <3>2
    <3>q. QED  BY <3>1, <3>2
  <2>q. QED  BY <2>1, <2>3, <2>5, <2>8 DEF QuotaHolds, Busy
<1>3. ASSUME NEW b \in book, Exit(b) PROVE QuotaHolds'
  <2>1. UNCHANGED <<desk, today>>
    BY <1>3 DEF Exit
  <2>2. PICK c \in Entry : Swaps(b, c) /\ b.logged /\ c.logged /\ c.day = b.day
    BY <1>3, ExitSwaps
  <2>3. Cardinality(Today') <= Cardinality(Today) /\ Cardinality(Today') \in Nat
    BY <2>1, <2>2, TodaySwap
  <2>4. DesksAt(Busy)' = DesksAt(Busy) /\ Count(Busy)' = Count(Busy)
    BY <2>1 DEF DesksAt, Count
  <2>5. \A d \in book' : d.day <= today'
    BY <2>1, <2>2 DEF QuotaHolds, Swaps
  <2>6. Cardinality(Today) \in Nat /\ Count(Busy) \in Nat
    <3>1. DesksAt(Busy) \subseteq Desks
      BY DEF DesksAt
    <3>q. QED  BY <1>0, <3>1, TodayType, FS_Subset, FS_CardinalityType DEF Count
  <2>q. QED  BY <1>0, <2>3, <2>4, <2>5, <2>6 DEF QuotaHolds, Busy
<1>4. ASSUME NEW p \in Desks, NEW side \in Sides, NEW base \in RiskBase, NEW edge \in Edges,
             NEW dist \in Distances, NEW flaw \in Flaws, Size(p, side, base, edge, dist, flaw)
      PROVE  QuotaHolds'
  <2>1. desk[p].phase = "idle" /\ UNCHANGED <<book, today>>
    BY <1>4 DEF Size
  <2> DEFINE o == [n |-> made + 1, side |-> side, flaw |-> flaw,
                   risk |-> SizedRisk(base, edge, dist) * balance]
             r == [phase |-> "sized", order |-> {o}]
  <2>2. desk' = [desk EXCEPT ![p] = r] /\ r.phase = "sized"
    BY <1>4 DEF Size
  <2> HIDE DEF o, r
  <2>3. DesksAt(Busy)' = DesksAt(Busy)
    BY <1>0, <2>1, <2>2 DEF DesksAt, Busy
  <2>q. QED  BY <2>1, <2>3 DEF QuotaHolds, Today, Count, Busy
<1>5. ASSUME NEW p \in Desks, PreflightAllows(p) PROVE QuotaHolds'
  <2>1. /\ desk[p].phase = "sized" /\ desk' = [desk EXCEPT ![p].phase = "cleared"]
        /\ UNCHANGED <<book, today>> /\ \A o \in desk[p].order : Blocks(o) = {}
    BY <1>5 DEF PreflightAllows
  <2>2. PICK o \in desk[p].order : TRUE
    BY <2>1 DEF Orders
  <2>3. ~Relaxed => ~(Cardinality(Today) >= MaxTrades)
    BY <2>1, <2>2, BlocksMeans DEF TodayCount, Today
  <2>4. Cardinality(Today) \in Nat /\ Today' = Today
    BY <2>1, TodayType DEF Today
  <2>5. Count(Busy)' \in Nat /\ Count(Busy)' <= Cardinality(Desks)
    <3>1. DesksAt(Busy)' \subseteq Desks
      BY DEF DesksAt
    <3>q. QED  BY <1>0, <3>1, FS_Subset, FS_CardinalityType DEF Count
  <2>6. \A d \in book' : d.day <= today'
    BY <2>1 DEF QuotaHolds
  <2>7. ~Relaxed => MaxTrades # 0 /\ Cardinality(Today) <= MaxTrades - 1
    BY <1>0, <2>3, <2>4
  <2>8. Cardinality(Today') = Cardinality(Today)
    BY <2>4
  <2>q. QED  BY <1>0, <2>4, <2>5, <2>6, <2>7, <2>8 DEF QuotaHolds, Busy
<1>6. ASSUME NEW p \in Desks, Abandon(p) \/ LogMissed(p) PROVE QuotaHolds'
  <2>1. desk' = [desk EXCEPT ![p] = Idle] /\ UNCHANGED <<book, today>>
    BY <1>6 DEF Abandon, LogMissed
  <2>2. DesksAt(Busy)' \subseteq DesksAt(Busy)
    BY <1>0, <2>1 DEF DesksAt, Busy, Idle
  <2>3. Count(Busy)' \in Nat /\ Count(Busy) \in Nat /\ Count(Busy)' <= Count(Busy)
    <3>1. "idle" \notin Busy
      BY DEF Busy
    <3>2. CASE desk[p].phase \in Busy
      <4>1. Count(Busy) = Count(Busy)' + 1 /\ Count(Busy)' \in Nat
        BY <2>1, <3>1, <3>2, CountIdle
      <4>q. QED  BY <4>1
    <3>3. CASE desk[p].phase \notin Busy
      <4>1. Count(Busy)' = Count(Busy) /\ Count(Busy) \in Nat
        BY <2>1, <3>1, <3>3, CountIdle
      <4>q. QED  BY <4>1
    <3>q. QED  BY <3>2, <3>3
  <2>4. Cardinality(Today) \in Nat /\ Today' = Today
    BY <2>1, TodayType DEF Today
  <2>5. Cardinality(Today') = Cardinality(Today)
    BY <2>4
  <2>q. QED  BY <1>0, <2>1, <2>2, <2>3, <2>4, <2>5 DEF QuotaHolds, Busy
<1>7. ASSUME NEW p \in Desks, Place(p) PROVE QuotaHolds'
  <2>1. desk[p].phase = "cleared" /\ desk' = [desk EXCEPT ![p].phase = "placed"] /\ today' = today
    BY <1>7 DEF Place
  <2>2. PICK c \in Entry : ~c.logged /\ c.day = today /\ book' = book \cup {c}
    BY <1>7, PlaceAdds
  <2>3. Today' = Today
    BY <2>1, <2>2 DEF Today
  <2>4. Count(Busy)' = Count(Busy)
    <3>1. "placed" \in Phases /\ "placed" \in Busy /\ "cleared" \in Busy
      BY DEF Phases, Busy
    <3>q. QED  BY <2>1, <3>1, CountPhase
  <2>5. p \in DesksAt(Busy)
    BY <2>1 DEF DesksAt, Busy
  <2>6. \A d \in book' : d.day <= today'
    <3>1. c.day <= today
      BY <1>0, <2>2
    <3>q. QED  BY <2>1, <2>2, <3>1 DEF QuotaHolds
  <2>7. Cardinality(Today') = Cardinality(Today)
    BY <2>3
  <2>q. QED  BY <2>4, <2>5, <2>6, <2>7 DEF QuotaHolds, Busy
<1>8. ASSUME NEW p \in Desks, LogOrder(p) PROVE QuotaHolds'
  <2>1. desk[p].phase = "placed" /\ desk' = [desk EXCEPT ![p] = Idle] /\ today' = today
    BY <1>8 DEF LogOrder
  <2>2. PICK b \in book, c \in Entry : Swaps(b, c) /\ c.day = today
    BY <1>8, LogSwaps
  <2>3. Cardinality(Today') <= Cardinality(Today) + 1 /\ Cardinality(Today') \in Nat
    BY <2>1, <2>2, TodaySwap
  <2>4. Count(Busy) = Count(Busy)' + 1 /\ Count(Busy)' \in Nat
    <3>1. "idle" \notin Busy /\ "placed" \in Busy
      BY DEF Busy
    <3>q. QED  BY <2>1, <3>1, CountIdle
  <2>5. p \in DesksAt(Busy) /\ Cardinality(Today) \in Nat
    BY <2>1, TodayType DEF DesksAt, Busy
  <2>6. \A d \in book' : d.day <= today'
    BY <1>0, <2>1, <2>2 DEF QuotaHolds, Swaps
  <2>q. QED  BY <1>0, <2>3, <2>4, <2>5, <2>6 DEF QuotaHolds, Busy
<1>q. QED  BY <1>1, <1>2, <1>3, <1>4, <1>5, <1>6, <1>7, <1>8 DEF RiskNext

-----------------------------------------------------------------------------
(* The caps on the risk                                                    *)

EntryRisk == [b \in Entry |-> b.order.risk]
Total(S) == SumFunctionOnSet(EntryRisk, S)

\* The orders on the exchange for some sides, and the desks that have cleared
\* one more for them.
LiveOf(sides) == {b \in book : b.active /\ b.order.side \in sides}
ClearedOf(sides) == {p \in Desks : desk[p].phase = "cleared" /\ \E o \in desk[p].order : o.side \in sides}

\* What is on the exchange, or may be without a further check.
Weight(sides) == Total(LiveOf(sides)) + Cardinality(ClearedOf(sides)) * OrderBudget

Room(cap) == cap * high + (Cardinality(Desks) + hidden) * OrderBudget

Unlogged == {b \in book : ~b.logged}

CapsHold ==
  /\ \A st \in eqFile : st.last <= high
  /\ \A st \in eqNew : st.last <= st.high
  /\ Cardinality(Unlogged) <= Count({"placed"}) + hidden
  /\ Strict => /\ \A side \in Sides : Weight({side}) <= Room(MaxSideRisk)
               /\ Weight(Sides) <= Room(MaxTotalRisk)

LEMMA RiskType ==
  ASSUME NEW S \in SUBSET Entry, IsFiniteSet(S)
  PROVE  Weighs(EntryRisk, S) /\ Total(S) \in Nat /\ RiskOf(S) = Total(S)
<1>1. \A b \in S : EntryRisk[b] = b.order.risk /\ b.order.risk \in Nat
  BY DEF EntryRisk, Entry, Order
<1>2. Weighs(EntryRisk, S)
  BY <1>1 DEF Weighs
<1> DEFINE f == [b \in S |-> b.order.risk]
<1>3. Weighs(f, S) /\ \A b \in S : f[b] = EntryRisk[b]
  BY <1>1 DEF Weighs
<1>4. RiskOf(S) = SumFunctionOnSet(f, S)
  BY DEF RiskOf
<1> HIDE DEF f
<1>5. SumFunctionOnSet(f, S) = SumFunctionOnSet(EntryRisk, S)
  BY <1>3, SumSame
<1>q. QED  BY <1>2, <1>4, <1>5, SumType DEF Total

LEMMA TotalOfSubset ==
  ASSUME NEW S \in SUBSET Entry, IsFiniteSet(S), NEW T \in SUBSET S
  PROVE  Total(T) <= Total(S) /\ Total(T) \in Nat /\ Total(S) \in Nat /\ IsFiniteSet(T)
<1>1. IsFiniteSet(T) /\ T \in SUBSET Entry
  BY FS_Subset
<1>q. QED  BY <1>1, RiskType, SumOfSubset DEF Total

\* One order more adds its budget at most; one in the place of another of
\* the same risk adds nothing.
LEMMA TotalAdd ==
  ASSUME NEW S \in SUBSET Entry, IsFiniteSet(S), NEW c \in Entry
  PROVE  /\ Total(S \cup {c}) <= Total(S) + c.order.risk
         /\ Total(S \cup {c}) \in Nat /\ Total(S) \in Nat /\ c.order.risk \in Nat
<1>1. /\ IsFiniteSet({c}) /\ IsFiniteSet(S \cup {c}) /\ {c} \in SUBSET Entry
      /\ S \cup {c} \in SUBSET Entry
  BY FS_Singleton, FS_AddElement
<1>2. Weighs(EntryRisk, S \cup {c}) /\ Total(S \cup {c}) \in Nat /\ Total(S) \in Nat
  BY <1>1, RiskType
<1>3. EntryRisk[c] = c.order.risk /\ c.order.risk \in Nat
  BY DEF EntryRisk, Entry, Order
<1>4. SumFunctionOnSet(EntryRisk, {c}) = c.order.risk
  BY <1>3, SumOfOne
<1>5. SumFunctionOnSet(EntryRisk, S \cup {c}) <= SumFunctionOnSet(EntryRisk, S) + SumFunctionOnSet(EntryRisk, {c})
  BY <1>1, <1>2, SumOfUnion
<1>q. QED  BY <1>2, <1>3, <1>4, <1>5 DEF Total

LEMMA TotalSwap ==
  ASSUME NEW S \in SUBSET Entry, IsFiniteSet(S), NEW b \in S, NEW c \in Entry,
         c.order.risk = b.order.risk
  PROVE  Total((S \ {b}) \cup {c}) <= Total(S)
<1> DEFINE R == S \ {b}
<1>1. IsFiniteSet(R) /\ R \in SUBSET Entry
  BY FS_Subset
<1>2. Weighs(EntryRisk, S) /\ EntryRisk[b] = b.order.risk
  BY RiskType DEF EntryRisk
<1>3. Total(S) = b.order.risk + Total(R)
  BY <1>2, SumOfOneLess DEF Total
<1> HIDE DEF R
<1>4. Total(R \cup {c}) <= Total(R) + c.order.risk /\ Total(R) \in Nat /\ c.order.risk \in Nat
  BY <1>1, TotalAdd
<1>5. Total(R \cup {c}) <= Total(S)
  BY <1>3, <1>4
<1>q. QED  BY <1>5 DEF R

LEMMA LiveType ==
  ASSUME RiskTypeOK, Orders, NEW sides
  PROVE  LiveOf(sides) \in SUBSET Entry /\ IsFiniteSet(LiveOf(sides)) /\ Total(LiveOf(sides)) \in Nat
<1>1. LiveOf(sides) \in SUBSET Entry /\ IsFiniteSet(LiveOf(sides))
  BY RiskTypes, FS_Subset DEF LiveOf, Orders
<1>q. QED  BY <1>1, RiskType

LEMMA PendingType ==
  ASSUME NEW sides
  PROVE  /\ ClearedOf(sides) \in SUBSET Desks /\ IsFiniteSet(ClearedOf(sides))
         /\ Cardinality(ClearedOf(sides)) \in Nat
<1>1. ClearedOf(sides) \in SUBSET Desks
  BY DEF ClearedOf
<1>q. QED  BY <1>1, DesksCount, FS_Subset, FS_CardinalityType

LEMMA WeightType ==
  ASSUME RiskTypeOK, Orders, NEW sides
  PROVE  Weight(sides) \in Nat /\ Cardinality(ClearedOf(sides)) * OrderBudget \in Nat
<1>1. Cardinality(ClearedOf(sides)) * OrderBudget \in Nat
  BY PendingType, Budget, ProductType
<1>q. QED  BY <1>1, LiveType DEF Weight

LEMMA RoomType ==
  ASSUME RiskTypeOK, NEW cap \in Nat PROVE Room(cap) \in Nat
<1>1. cap * high \in Nat /\ Cardinality(Desks) + hidden \in Nat
  BY RiskTypes, DesksCount, ProductType
<1>2. (Cardinality(Desks) + hidden) * OrderBudget \in Nat
  BY <1>1, Budget, ProductType
<1>q. QED  BY <1>1, <1>2 DEF Room

LEMMA SlackGrows ==
  ASSUME NEW cap \in Nat, NEW h1 \in Nat, NEW h2 \in Nat, NEW cnt \in Nat,
         NEW d1 \in Nat, NEW d2 \in Nat, NEW budget \in Nat, h1 <= h2, d1 <= d2
  PROVE  cap * h1 + (cnt + d1) * budget <= cap * h2 + (cnt + d2) * budget
<1> DEFINE a == cnt + d1
           b == cnt + d2
<1>1. a \in Nat /\ b \in Nat /\ a <= b
  OBVIOUS
<1> HIDE DEF a, b
<1>2. cap * h1 <= cap * h2 /\ cap * h1 \in Nat /\ cap * h2 \in Nat
  BY ProductGrows, ProductType
<1>3. a * budget <= b * budget /\ a * budget \in Nat /\ b * budget \in Nat
  BY <1>1, ProductGrows, ProductType
<1> DEFINE x == cap * h1
           y == cap * h2
           u == a * budget
           v == b * budget
<1>4. x \in Nat /\ y \in Nat /\ u \in Nat /\ v \in Nat /\ x <= y /\ u <= v
  BY <1>2, <1>3
<1> HIDE DEF x, y, u, v
<1>5. x + u <= y + v
  BY <1>4
<1>q. QED  BY <1>5 DEF x, y, u, v, a, b

\* More equity on record, or an order that will never be logged, gives room.
LEMMA RoomGrows ==
  ASSUME RiskTypeOK, RiskTypeOK', high <= high', hidden <= hidden', NEW cap \in Nat
  PROVE  Room(cap) <= Room(cap)'
<1>1. /\ high \in Nat /\ high' \in Nat /\ hidden \in Nat /\ hidden' \in Nat
      /\ Cardinality(Desks) \in Nat /\ OrderBudget \in Nat
  BY RiskTypes, DesksCount, RiskAssumption, Budget DEF RiskTypeOK
<1>q. QED  BY <1>1, SlackGrows DEF Room

\* Every step but a check leaves the weight, or lowers it.
LEMMA WeightSame ==
  ASSUME UNCHANGED <<desk, book>>, NEW sides PROVE Weight(sides)' = Weight(sides)
BY DEF Weight, LiveOf, ClearedOf

\* The orders stay, or one is closed or logged; the cleared desks stay.
LEMMA WeightSwap ==
  ASSUME RiskTypeOK, RiskTypeOK', Orders, Orders', NEW sides, ClearedOf(sides)' = ClearedOf(sides),
         NEW b \in book, NEW c \in Entry, Swaps(b, c), c.active => b.active
  PROVE  Weight(sides)' <= Weight(sides)
<1>1. LiveOf(sides) \in SUBSET Entry /\ IsFiniteSet(LiveOf(sides)) /\ Total(LiveOf(sides)) \in Nat
  BY LiveType
<1>2. Total(LiveOf(sides)') <= Total(LiveOf(sides)) /\ Total(LiveOf(sides)') \in Nat
  <2>1. CASE c \in LiveOf(sides)' /\ b \in LiveOf(sides)
    <3>1. LiveOf(sides)' = (LiveOf(sides) \ {b}) \cup {c}
      BY <2>1 DEF LiveOf, Swaps
    <3>2. c.order.risk = b.order.risk
      BY DEF Swaps
    <3>3. Total((LiveOf(sides) \ {b}) \cup {c}) <= Total(LiveOf(sides))
      BY <1>1, <2>1, <3>2, TotalSwap
    <3>4. LiveOf(sides)' \in SUBSET Entry /\ IsFiniteSet(LiveOf(sides)')
      <4>1. IsFiniteSet(LiveOf(sides) \ {b})
        BY <1>1, FS_Subset
      <4>q. QED  BY <1>1, <3>1, <4>1, FS_AddElement
    <3>q. QED  BY <3>1, <3>3, <3>4, RiskType
  <2>2. CASE ~(c \in LiveOf(sides)' /\ b \in LiveOf(sides))
    <3>1. LiveOf(sides)' \subseteq LiveOf(sides)
      BY <2>2 DEF LiveOf, Swaps
    <3>q. QED  BY <1>1, <3>1, TotalOfSubset
  <2>q. QED  BY <2>1, <2>2
<1> DEFINE k == Cardinality(ClearedOf(sides)) * OrderBudget
<1>3. k \in Nat /\ Weight(sides) = Total(LiveOf(sides)) + k
  BY WeightType DEF Weight
<1>4. Weight(sides)' = Total(LiveOf(sides)') + k
  <2>1. Total(LiveOf(sides))' = Total(LiveOf(sides)')
    BY DEF Total, EntryRisk
  <2>q. QED  BY <2>1 DEF Weight
<1> HIDE DEF k
<1>q. QED  BY <1>1, <1>2, <1>3, <1>4

\* A desk that gives up what it had cleared.
LEMMA WeightDrops ==
  ASSUME book' = book, NEW sides, ClearedOf(sides)' \subseteq ClearedOf(sides), RiskTypeOK, Orders
  PROVE  Weight(sides)' <= Weight(sides)
<1>1. LiveOf(sides)' = LiveOf(sides)
  BY DEF LiveOf
<1> DEFINE a == Cardinality(ClearedOf(sides))
           b == Cardinality(ClearedOf(sides)')
<1>2. a \in Nat /\ b \in Nat /\ b <= a
  BY PendingType, FS_Subset, FS_CardinalityType
<1>3. Weight(sides) = Total(LiveOf(sides)) + a * OrderBudget
  BY DEF Weight
<1>4. Weight(sides)' = Total(LiveOf(sides)) + b * OrderBudget
  BY <1>1 DEF Weight, Total, EntryRisk
<1> HIDE DEF a, b
<1>5. b * OrderBudget <= a * OrderBudget /\ a * OrderBudget \in Nat /\ b * OrderBudget \in Nat
  BY <1>2, Budget, ProductGrows, ProductType
<1> DEFINE x == a * OrderBudget
           y == b * OrderBudget
<1>6. x \in Nat /\ y \in Nat /\ y <= x
  BY <1>5
<1> HIDE DEF x, y
<1>7. Total(LiveOf(sides)) + y <= Total(LiveOf(sides)) + x
  BY <1>6, LiveType
<1>q. QED  BY <1>3, <1>4, <1>7 DEF x, y

\* A desk places what it had cleared.
LEMMA WeightPlaced ==
  ASSUME RiskTypeOK, Orders, NEW p \in Desks, Place(p), NEW sides
  PROVE  Weight(sides)' <= Weight(sides)
<1>1. PICK c \in Entry : c.order \in desk[p].order /\ c.active /\ book' = book \cup {c} /\ c \notin book
  BY PlaceAdds
<1>2. desk[p].phase = "cleared" /\ desk' = [desk EXCEPT ![p].phase = "placed"]
  BY DEF Place
<1>3. desk'[p] = [phase |-> "placed", order |-> desk[p].order] /\ \A q \in Desks : q # p => desk'[q] = desk[q]
  <2>1. desk'[p] = [phase |-> "placed", order |-> desk[p].order]
    BY <1>2, PhaseType DEF Phases
  <2>q. QED  BY <1>2, <2>1, RiskTypes
<1>4. \A o \in desk[p].order : o = c.order
  BY <1>1 DEF Orders
<1>5. c.order.risk <= OrderBudget /\ c.order.risk \in Nat
  BY <1>1 DEF Orders, Entry, Order
<1>6. CASE c.order.side \in sides
  <2>1. LiveOf(sides)' = LiveOf(sides) \cup {c}
    BY <1>1, <1>6 DEF LiveOf
  <2> DEFINE P == ClearedOf(sides)
             Q == ClearedOf(sides)'
  <2>2. P \in SUBSET Desks /\ Q \in SUBSET Desks /\ p \in P /\ p \notin Q
        /\ \A q \in Desks : q # p => (q \in P <=> q \in Q)
    BY <1>1, <1>2, <1>3, <1>6 DEF ClearedOf
  <2>3. Weight(sides) = Total(LiveOf(sides)) + Cardinality(P) * OrderBudget
    BY DEF Weight
  <2>4. Weight(sides)' = Total(LiveOf(sides) \cup {c}) + Cardinality(Q) * OrderBudget
    BY <2>1 DEF Weight, Total, EntryRisk
  <2> HIDE DEF P, Q
  <2>5. Cardinality(P) = Cardinality(Q) + 1 /\ Cardinality(Q) \in Nat
    BY <2>2, OneMoves
  <2>6. Cardinality(P) * OrderBudget = Cardinality(Q) * OrderBudget + OrderBudget
    <3>1. \A cnt \in Nat : (cnt + 1) * OrderBudget = cnt * OrderBudget + OrderBudget
      BY Budget
    <3>q. QED  BY <2>5, <3>1
  <2>7. /\ Total(LiveOf(sides) \cup {c}) <= Total(LiveOf(sides)) + c.order.risk
        /\ Total(LiveOf(sides) \cup {c}) \in Nat /\ Total(LiveOf(sides)) \in Nat
    BY LiveType, TotalAdd
  <2> DEFINE y == Cardinality(Q) * OrderBudget
  <2>8. y \in Nat /\ Cardinality(P) * OrderBudget = y + OrderBudget
    BY <2>5, <2>6, Budget, ProductType
  <2> HIDE DEF y
  <2>9. Total(LiveOf(sides) \cup {c}) + y <= Total(LiveOf(sides)) + (y + OrderBudget)
    BY <1>5, <2>7, <2>8, Budget
  <2>q. QED  BY <2>3, <2>4, <2>8, <2>9 DEF y
<1>7. CASE c.order.side \notin sides
  <2>1. LiveOf(sides)' = LiveOf(sides)
    BY <1>1, <1>7 DEF LiveOf
  <2>2. ClearedOf(sides)' = ClearedOf(sides)
    BY <1>1, <1>2, <1>3, <1>4, <1>7 DEF ClearedOf
  <2>3. Weight(sides)' = Weight(sides)
    BY <2>1, <2>2 DEF Weight, Total, EntryRisk
  <2>q. QED  BY <2>3, WeightType
<1>q. QED  BY <1>6, <1>7

-----------------------------------------------------------------------------
\* A check makes room for the order that it clears.
LEMMA CheckArithmetic ==
  ASSUME NEW cap \in Nat, NEW last \in Nat, NEW h \in Nat, NEW pl \in Nat, NEW hid \in Nat,
         NEW pend \in Nat, NEW cnt \in Nat, NEW budget \in Nat, NEW lines \in Nat,
         NEW t \in Nat, NEW logd \in Nat, NEW rest \in Nat,
         t <= logd + rest, logd < cap * last, last <= h, rest <= lines * budget,
         lines <= pl + hid, pl + pend <= cnt
  PROVE  t + pend * budget <= cap * h + (cnt + hid) * budget
<1>1. cap * last <= cap * h /\ cap * last \in Nat /\ cap * h \in Nat
  BY ProductGrows, ProductType
<1> DEFINE s == pl + hid
<1>2. s \in Nat /\ lines <= s
  OBVIOUS
<1>3. lines * budget <= s * budget /\ lines * budget \in Nat /\ s * budget \in Nat
  <2> HIDE DEF s
  <2>q. QED  BY <1>2, ProductGrows, ProductType
<1> DEFINE u == s + pend
           v == cnt + hid
<1>4. u \in Nat /\ v \in Nat /\ u <= v
  OBVIOUS
<1>5. u * budget = s * budget + pend * budget
  BY <1>2, ProductOfSum
<1>6. u * budget <= v * budget /\ v * budget \in Nat /\ pend * budget \in Nat
  <2> HIDE DEF u, v
  <2>q. QED  BY <1>4, ProductGrows, ProductType
<1> DEFINE a == cap * last
           b == cap * h
           c == lines * budget
           d == s * budget
           e == pend * budget
           f == v * budget
<1>7. /\ a \in Nat /\ b \in Nat /\ c \in Nat /\ d \in Nat /\ e \in Nat /\ f \in Nat
      /\ a <= b /\ c <= d /\ d + e <= f /\ logd < a /\ rest <= c
  <2>1. d + e <= f
    BY <1>5, <1>6
  <2>q. QED  BY <1>1, <1>3, <1>6, <2>1
<1> HIDE DEF a, b, c, d, e, f
<1>8. t + e <= b + f
  BY <1>7
<1>q. QED  BY <1>8 DEF b, e, f, v

LEMMA CheckedWeight ==
  ASSUME RiskTypeOK, Orders, CapsHold, NEW p \in Desks, PreflightAllows(p),
         NEW sides, NEW cap \in Nat, NEW st \in eqFile,
         Total({b \in ActiveTrades : b.order.side \in sides}) < cap * st.last
  PROVE  Weight(sides)' <= Room(cap)'
<1>1. /\ desk[p].phase = "sized" /\ desk' = [desk EXCEPT ![p].phase = "cleared"]
      /\ UNCHANGED <<book, high, hidden>>
  BY DEF PreflightAllows, eqVars
<1> DEFINE A == {b \in ActiveTrades : b.order.side \in sides}
           U == LiveOf(sides) \cap Unlogged
           L == LiveOf(sides)
           P == ClearedOf(sides)'
           C == DesksAt({"placed"})
<1>2. L \in SUBSET Entry /\ IsFiniteSet(L) /\ Total(L) \in Nat
  BY LiveType
<1>3. A \in SUBSET L /\ U \in SUBSET L /\ L = A \cup U /\ U \subseteq Unlogged
  BY DEF ActiveTrades, LiveOf, Unlogged
<1>4. IsFiniteSet(Unlogged) /\ Cardinality(Unlogged) \in Nat
  BY FS_Subset, FS_CardinalityType DEF Unlogged, Orders
<1>5. \A b \in book : EntryRisk[b] <= OrderBudget
  BY RiskTypes DEF EntryRisk, Orders
<1>6. LiveOf(sides) \subseteq book
  BY DEF LiveOf
<1>7. /\ desk'[p] = [phase |-> "cleared", order |-> desk[p].order]
      /\ \A q \in Desks : q # p => desk'[q] = desk[q]
  <2>1. desk'[p] = [phase |-> "cleared", order |-> desk[p].order]
    BY <1>1, PhaseType DEF Phases
  <2>q. QED  BY <1>1, <2>1, RiskTypes
<1>8. P \in SUBSET Desks /\ C \in SUBSET Desks /\ P \cap C = {}
  BY <1>1, <1>7 DEF ClearedOf, DesksAt
<1>9. Weight(sides)' = Total(L) + Cardinality(P) * OrderBudget
  BY <1>1 DEF Weight, Total, EntryRisk, LiveOf
<1>10. Room(cap)' = cap * high + (Cardinality(Desks) + hidden) * OrderBudget
  BY <1>1 DEF Room
<1>11. Count({"placed"}) = Cardinality(C)
  BY DEF Count
<1> HIDE DEF A, U, L, P, C
<1>12. Cardinality(C) + Cardinality(P) <= Cardinality(Desks) /\ Cardinality(C) \in Nat /\ Cardinality(P) \in Nat
  <2>1. IsFiniteSet(P) /\ IsFiniteSet(C) /\ Cardinality(C) \in Nat /\ Cardinality(P) \in Nat
    BY <1>8, DesksCount, FS_Subset, FS_CardinalityType
  <2>2. Cardinality(P \cup C) = Cardinality(P) + Cardinality(C) - Cardinality(P \cap C)
    BY <2>1, FS_Union
  <2>3. Cardinality(P \cap C) = 0
    BY <1>8, FS_EmptySet
  <2>4. Cardinality(P \cup C) <= Cardinality(Desks)
    <3>1. P \cup C \in SUBSET Desks
      BY <1>8
    <3>q. QED  BY <3>1, DesksCount, FS_Subset
  <2>5. Cardinality(P \cup C) = Cardinality(C) + Cardinality(P)
    BY <2>1, <2>2, <2>3
  <2>q. QED  BY <2>1, <2>4, <2>5
<1>13. Total(L) <= Total(A) + Total(U) /\ Total(A) \in Nat /\ Total(U) \in Nat /\ IsFiniteSet(U)
  <2>1. Weighs(EntryRisk, L)
    BY <1>2, RiskType
  <2>2. /\ IsFiniteSet(A) /\ IsFiniteSet(U) /\ Total(A) \in Nat /\ Total(U) \in Nat
    BY <1>2, <1>3, TotalOfSubset
  <2>3. SumFunctionOnSet(EntryRisk, A \cup U) <= SumFunctionOnSet(EntryRisk, A) + SumFunctionOnSet(EntryRisk, U)
    BY <1>3, <2>1, <2>2, SumOfUnion
  <2>q. QED  BY <1>3, <2>2, <2>3 DEF Total
<1>14. Total(U) <= Cardinality(Unlogged) * OrderBudget
  <2>1. Weighs(EntryRisk, U)
    BY <1>2, <1>3, <1>13, RiskType
  <2>2. Total(U) <= Cardinality(U) * OrderBudget
    BY <1>3, <1>5, <1>6, <1>13, <2>1, Budget, SumIsBounded DEF Total, L
  <2>3. Cardinality(U) \in Nat /\ Cardinality(U) <= Cardinality(Unlogged)
    BY <1>3, <1>4, <1>13, FS_Subset, FS_CardinalityType
  <2> DEFINE m == Cardinality(U)
             k == Cardinality(Unlogged)
  <2>4. m \in Nat /\ k \in Nat /\ m <= k
    BY <1>4, <2>3
  <2> HIDE DEF m, k
  <2>5. m * OrderBudget <= k * OrderBudget /\ m * OrderBudget \in Nat /\ k * OrderBudget \in Nat
    BY <2>4, Budget, ProductGrows, ProductType
  <2> DEFINE x == m * OrderBudget
             y == k * OrderBudget
  <2>6. x \in Nat /\ y \in Nat /\ x <= y /\ Total(U) <= x
    BY <2>2, <2>5 DEF m
  <2> HIDE DEF x, y
  <2>7. Total(U) <= y
    BY <1>13, <2>6
  <2>q. QED  BY <2>7 DEF y, k
<1>15. st.last \in Nat /\ high \in Nat /\ st.last <= high /\ hidden \in Nat
  BY RiskTypes, RiskAssumption DEF CapsHold, EqState
<1>16. Cardinality(Unlogged) <= Cardinality(C) + hidden
  BY <1>11 DEF CapsHold
<1>17. Total(A) < cap * st.last
  BY DEF A
<1>18. Total(L) + Cardinality(P) * OrderBudget <= cap * high + (Cardinality(Desks) + hidden) * OrderBudget
  BY <1>2, <1>4, <1>12, <1>13, <1>14, <1>15, <1>16, <1>17, Budget, DesksCount, CheckArithmetic
<1>q. QED  BY <1>9, <1>10, <1>18

\* A side for which nothing is cleared keeps its weight.
LEMMA OtherSideWaits ==
  ASSUME RiskTypeOK, NEW p \in Desks, PreflightAllows(p), NEW sides,
         \A o \in desk[p].order : o.side \notin sides
  PROVE  Weight(sides)' = Weight(sides) /\ Room(MaxSideRisk)' = Room(MaxSideRisk)
<1>1. /\ desk' = [desk EXCEPT ![p].phase = "cleared"] /\ UNCHANGED <<book, high, hidden>>
  BY DEF PreflightAllows, eqVars
<1>2. desk'[p] = [phase |-> "cleared", order |-> desk[p].order]
  BY <1>1, PhaseType DEF Phases
<1>3. \A q \in Desks : q # p => desk'[q] = desk[q]
  BY <1>1, RiskTypes
<1>4. ClearedOf(sides)' = ClearedOf(sides)
  BY <1>2, <1>3 DEF ClearedOf
<1>q. QED  BY <1>1, <1>4 DEF Weight, LiveOf, Total, EntryRisk, Room

LEMMA CapsChecked ==
  ASSUME RiskTypeOK, Orders, CapsHold, NEW p \in Desks, PreflightAllows(p), Strict'
  PROVE  /\ \A side \in Sides : Weight({side})' <= Room(MaxSideRisk)'
         /\ Weight(Sides)' <= Room(MaxTotalRisk)'
<1>1. /\ Strict /\ eqFile # {} /\ \A o \in desk[p].order : CanAdd(o.side)
  BY PreflightMeans
<1>2. PICK st \in eqFile : TRUE
  BY <1>1
<1>3. PICK o \in desk[p].order : TRUE
  BY DEF PreflightAllows, Orders
<1>4. MaxSideRisk \in Nat /\ MaxTotalRisk \in Nat
  BY RiskAssumption
<1>5. ActiveTrades \in SUBSET Entry /\ IsFiniteSet(ActiveTrades)
  BY RiskTypes, FS_Subset DEF ActiveTrades, Orders
<1>6. /\ RiskOf({b \in ActiveTrades : b.order.side = o.side}) < MaxSideRisk * st.last
      /\ RiskOf(ActiveTrades) < MaxTotalRisk * st.last
  BY <1>1 DEF CanAdd
<1>7. ASSUME NEW side \in Sides PROVE Weight({side})' <= Room(MaxSideRisk)'
  <2>1. CASE o.side = side
    <3> DEFINE A == {b \in ActiveTrades : b.order.side = o.side}
    <3>1. A = {b \in ActiveTrades : b.order.side \in {side}}
      BY <2>1
    <3>2. RiskOf(A) = Total(A)
      <4>1. A \in SUBSET Entry /\ IsFiniteSet(A)
        BY <1>5, FS_Subset
      <4> HIDE DEF A
      <4>q. QED  BY <4>1, RiskType
    <3>3. Total({b \in ActiveTrades : b.order.side \in {side}}) < MaxSideRisk * st.last
      BY <1>6, <3>1, <3>2
    <3>q. QED  BY <1>4, <3>3, CheckedWeight
  <2>2. CASE o.side # side
    <3>1. \A u \in desk[p].order : u.side \notin {side}
      BY <1>3, <2>2 DEF Orders
    <3>2. Weight({side})' = Weight({side}) /\ Room(MaxSideRisk)' = Room(MaxSideRisk)
      BY <3>1, OtherSideWaits
    <3>q. QED  BY <1>1, <3>2 DEF CapsHold
  <2>q. QED  BY <2>1, <2>2
<1>8. Weight(Sides)' <= Room(MaxTotalRisk)'
  <2>1. ActiveTrades = {b \in ActiveTrades : b.order.side \in Sides}
    BY <1>5 DEF Entry, Order
  <2>2. RiskOf(ActiveTrades) = Total(ActiveTrades)
    BY <1>5, RiskType
  <2>3. Total({b \in ActiveTrades : b.order.side \in Sides}) < MaxTotalRisk * st.last
    BY <1>6, <2>1, <2>2
  <2>q. QED  BY <1>4, <2>3, CheckedWeight
<1>q. QED  BY <1>7, <1>8

LEMMA CapsInit == RiskInit => CapsHold
<1> SUFFICES ASSUME RiskInit PROVE CapsHold
  OBVIOUS
<1>0. RiskTypeOK /\ Orders
  BY RiskTypeInit, OrdersInit
<1>1. book = {} /\ hidden = 0 /\ eqNew = {} /\ \A p \in Desks : desk[p].phase = "idle"
  BY DEF RiskInit, Idle
<1>2. \A st \in eqFile : st.last <= high
  <2>1. high \in Nat /\ \A st \in eqFile : st.last = high
    BY <1>0, RiskTypes DEF RiskInit
  <2>q. QED  BY <2>1
<1>3. Cardinality(Unlogged) <= Count({"placed"}) + hidden
  <2>1. Unlogged = {} /\ DesksAt({"placed"}) = {}
    BY <1>1 DEF Unlogged, DesksAt
  <2>2. Cardinality(Unlogged) = 0 /\ Count({"placed"}) = 0
    BY <2>1, FS_EmptySet DEF Count
  <2>q. QED  BY <1>1, <2>2
<1>4. ASSUME NEW sides, NEW cap \in Nat PROVE Weight(sides) <= Room(cap)
  <2>1. LiveOf(sides) = {} /\ ClearedOf(sides) = {}
    BY <1>1 DEF LiveOf, ClearedOf
  <2>2. Total({}) = 0 /\ Cardinality({}) = 0
    BY SumOfNothing, FS_EmptySet DEF Total
  <2>3. Weight(sides) = 0
    BY <2>1, <2>2, Budget DEF Weight
  <2>4. Room(cap) \in Nat
    BY <1>0, RoomType
  <2>q. QED  BY <2>3, <2>4
<1>q. QED  BY <1>1, <1>2, <1>3, <1>4, RiskAssumption DEF CapsHold

LEMMA UnloggedType ==
  ASSUME Orders PROVE IsFiniteSet(Unlogged) /\ Cardinality(Unlogged) \in Nat
<1>1. IsFiniteSet(Unlogged)
  BY FS_Subset DEF Orders, Unlogged
<1>q. QED  BY <1>1, FS_CardinalityType

Figures ==
  /\ \A sides \in SUBSET Sides : Weight(sides) \in Nat
  /\ Room(MaxSideRisk) \in Nat /\ Room(MaxTotalRisk) \in Nat
  /\ Cardinality(Unlogged) \in Nat

LEMMA FiguresType == RiskTypeOK /\ Orders => Figures
BY WeightType, RoomType, UnloggedType, RiskAssumption DEF Figures

\* The steps that check nothing.
LEMMA CapsKept ==
  ASSUME RiskTypeOK, RiskTypeOK', Orders, Orders', CapsHold, blind' = blind,
         high <= high', hidden <= hidden',
         \A sides \in SUBSET Sides : Weight(sides)' <= Weight(sides),
         \A st \in eqFile' : st.last <= high',
         \A st \in eqNew' : st.last <= st.high,
         Cardinality(Unlogged)' <= Count({"placed"})' + hidden'
  PROVE  CapsHold'
<1>0. Figures'
  BY FiguresType, PTL
<1>1. ASSUME NEW sides \in SUBSET Sides, NEW cap \in {MaxSideRisk, MaxTotalRisk}, Weight(sides) <= Room(cap)
      PROVE  Weight(sides)' <= Room(cap)'
  <2>1. Weight(sides)' <= Weight(sides) /\ Weight(sides) \in Nat
    BY WeightType
  <2>2. Weight(sides)' \in Nat
    BY <1>0 DEF Figures
  <2>3. Room(cap) <= Room(cap)' /\ Room(cap) \in Nat
    BY RoomGrows, RoomType, RiskAssumption
  <2>4. Room(cap)' \in Nat
    BY <1>0 DEF Figures
  <2>q. QED  BY <1>1, <2>1, <2>2, <2>3, <2>4
<1>2. ASSUME Strict' PROVE /\ \A side \in Sides : Weight({side})' <= Room(MaxSideRisk)'
                          /\ Weight(Sides)' <= Room(MaxTotalRisk)'
  <2>1. Strict /\ MaxSideRisk \in Nat /\ MaxTotalRisk \in Nat
    BY <1>2, RiskAssumption DEF Strict
  <2>2. \A side \in Sides : {side} \in SUBSET Sides /\ Weight({side}) <= Room(MaxSideRisk)
    BY <2>1 DEF CapsHold
  <2>3. Sides \in SUBSET Sides /\ Weight(Sides) <= Room(MaxTotalRisk)
    BY <2>1 DEF CapsHold
  <2>q. QED  BY <1>1, <2>1, <2>2, <2>3
<1>q. QED  BY <1>2 DEF CapsHold

\* A line in the place of another: what is not logged.
LEMMA UnloggedSwap ==
  ASSUME Orders, NEW b \in book, NEW c, Swaps(b, c), c.logged
  PROVE  /\ b.logged => Cardinality(Unlogged)' = Cardinality(Unlogged)
         /\ ~b.logged => Cardinality(Unlogged) = Cardinality(Unlogged)' + 1
<1>1. Unlogged' = Unlogged \ {b}
  BY DEF Unlogged, Swaps
<1>2. b \in Unlogged <=> ~b.logged
  BY DEF Unlogged
<1>3. b \notin Unlogged => Unlogged \ {b} = Unlogged
  OBVIOUS
<1>4. b \in Unlogged => Cardinality(Unlogged \ {b}) = Cardinality(Unlogged) - 1
  BY UnloggedType, FS_RemoveElement
<1>q. QED  BY <1>1, <1>2, <1>3, <1>4, UnloggedType

LEMMA CapsStep ==
  RiskTypeOK /\ RiskTypeOK' /\ Orders /\ Orders' /\ CapsHold /\ [RiskNext]_riskVars => CapsHold'
<1> SUFFICES ASSUME RiskTypeOK, RiskTypeOK', Orders, Orders', CapsHold, [RiskNext]_riskVars
             PROVE  CapsHold'
  OBVIOUS
<1>0. /\ desk \in [Desks -> Seats] /\ high \in Nat /\ hidden \in Nat
      /\ \A sides : Weight(sides) \in Nat
      /\ Cardinality(Unlogged) \in Nat
  BY RiskTypes, WeightType, UnloggedType
<1>1. CASE RiskOpens \/ RiskKilled \/ NewDay \/ UNCHANGED riskVars
           \/ \E bal \in Balances : BalanceMoves(bal)
  <2>1. UNCHANGED <<desk, book, hidden, high, blind>>
    BY <1>1 DEF RiskOpens, RiskKilled, NewDay, BalanceMoves, riskVars, eqVars
  <2>2. eqFile' \in {eqFile, {}} /\ eqNew' \in {eqNew, {}, {NextEqState}}
    BY <1>1 DEF RiskOpens, RiskKilled, NewDay, BalanceMoves, riskVars, eqVars
  <2>3. \A st \in eqFile' : st.last <= high'
    BY <2>1, <2>2 DEF CapsHold
  <2>4. \A st \in eqNew' : st.last <= st.high
    BY <2>2, NextEqType DEF CapsHold
  <2>5. \A sides \in SUBSET Sides : Weight(sides)' <= Weight(sides)
    BY <1>0, <2>1, WeightSame
  <2>6. Cardinality(Unlogged)' <= Count({"placed"})' + hidden'
    BY <2>1 DEF CapsHold, Unlogged, Count, DesksAt
  <2>q. QED  BY <1>0, <2>1, <2>3, <2>4, <2>5, <2>6, CapsKept
<1>2. CASE RiskWrites
  <2>1. /\ UNCHANGED <<desk, book, hidden, blind>> /\ eqFile' = eqNew /\ eqNew' = {}
        /\ high' = Max({st.high : st \in eqNew} \cup {high})
    BY <1>2 DEF RiskWrites
  <2>2. high <= high' /\ high' \in Nat /\ \A st \in eqNew : st.high <= high'
    BY <1>0, <2>1, Highest, RiskTypes
  <2>3. \A st \in eqFile' : st.last <= high'
    <3>1. \A st \in eqNew : st.last \in Nat /\ st.high \in Nat
      BY RiskTypes, RiskAssumption DEF EqState
    <3>q. QED  BY <2>1, <2>2, <3>1 DEF CapsHold
  <2>4. \A sides \in SUBSET Sides : Weight(sides)' <= Weight(sides)
    BY <1>0, <2>1, WeightSame
  <2>5. Cardinality(Unlogged)' <= Count({"placed"})' + hidden'
    BY <2>1 DEF CapsHold, Unlogged, Count, DesksAt
  <2>q. QED  BY <1>0, <2>1, <2>2, <2>3, <2>4, <2>5, CapsKept
<1>3. ASSUME NEW b \in book, Exit(b) PROVE CapsHold'
  <2>1. UNCHANGED <<desk, hidden, blind, high, eqFile, eqNew>>
    BY <1>3 DEF Exit, eqVars
  <2>2. PICK c \in Entry : Swaps(b, c) /\ b.logged /\ c.logged /\ b.active
    BY <1>3, ExitSwaps
  <2>3. \A sides \in SUBSET Sides : Weight(sides)' <= Weight(sides)
    <3>1. ASSUME NEW sides \in SUBSET Sides PROVE Weight(sides)' <= Weight(sides)
      <4>1. ClearedOf(sides)' = ClearedOf(sides)
        BY <2>1 DEF ClearedOf
      <4>q. QED  BY <2>2, <4>1, WeightSwap
    <3>q. QED  BY <3>1
  <2>4. Cardinality(Unlogged)' = Cardinality(Unlogged)
    BY <2>2, UnloggedSwap
  <2>5. Cardinality(Unlogged)' <= Count({"placed"})' + hidden'
    BY <2>1, <2>4 DEF CapsHold, Count, DesksAt
  <2>q. QED  BY <1>0, <2>1, <2>3, <2>5, CapsKept DEF CapsHold
<1>4. ASSUME NEW p \in Desks, NEW side \in Sides, NEW base \in RiskBase, NEW edge \in Edges,
             NEW dist \in Distances, NEW flaw \in Flaws, Size(p, side, base, edge, dist, flaw)
      PROVE  CapsHold'
  <2>1. desk[p].phase = "idle" /\ UNCHANGED <<book, hidden, blind, high, eqFile, eqNew>>
    BY <1>4 DEF Size, eqVars
  <2> DEFINE o == [n |-> made + 1, side |-> side, flaw |-> flaw,
                   risk |-> SizedRisk(base, edge, dist) * balance]
             r == [phase |-> "sized", order |-> {o}]
  <2>2. desk' = [desk EXCEPT ![p] = r] /\ r.phase = "sized"
    BY <1>4 DEF Size
  <2> HIDE DEF o, r
  <2>3. desk'[p].phase = "sized" /\ \A q \in Desks : q # p => desk'[q] = desk[q]
    BY <1>0, <2>2
  <2>4. \A sides \in SUBSET Sides : Weight(sides)' <= Weight(sides)
    <3>1. ASSUME NEW sides \in SUBSET Sides PROVE Weight(sides)' <= Weight(sides)
      <4>1. ClearedOf(sides)' \subseteq ClearedOf(sides)
        BY <2>3 DEF ClearedOf
      <4>q. QED  BY <2>1, <4>1, WeightDrops
    <3>q. QED  BY <3>1
  <2>5. Count({"placed"})' = Count({"placed"})
    BY <2>1, <2>2, CountMoves
  <2>6. Cardinality(Unlogged)' <= Count({"placed"})' + hidden'
    BY <2>1, <2>5 DEF CapsHold, Unlogged
  <2>q. QED  BY <1>0, <2>1, <2>4, <2>6, CapsKept DEF CapsHold
<1>5. ASSUME NEW p \in Desks, PreflightAllows(p) PROVE CapsHold'
  <2>1. /\ desk[p].phase = "sized" /\ desk' = [desk EXCEPT ![p].phase = "cleared"]
        /\ UNCHANGED <<book, hidden, high, eqFile, eqNew>>
    BY <1>5 DEF PreflightAllows, eqVars
  <2>2. Count({"placed"})' = Count({"placed"})
    <3>1. "cleared" \in Phases
      BY DEF Phases
    <3>q. QED  BY <2>1, <3>1, CountPhase
  <2>3. Cardinality(Unlogged)' <= Count({"placed"})' + hidden'
    BY <2>1, <2>2 DEF CapsHold, Unlogged
  <2>q. QED  BY <1>5, <2>1, <2>3, CapsChecked DEF CapsHold
<1>6. ASSUME NEW p \in Desks, Abandon(p) \/ LogMissed(p) PROVE CapsHold'
  <2>1. /\ desk' = [desk EXCEPT ![p] = Idle] /\ UNCHANGED <<book, blind, high, eqFile, eqNew>>
        /\ desk[p].phase \in Phases
    BY <1>0, <1>6 DEF Abandon, LogMissed, eqVars, Seats
  <2>2. desk'[p].phase = "idle" /\ \A q \in Desks : q # p => desk'[q] = desk[q]
    BY <1>0, <2>1 DEF Idle
  <2>3. \A sides \in SUBSET Sides : Weight(sides)' <= Weight(sides)
    <3>1. ASSUME NEW sides \in SUBSET Sides PROVE Weight(sides)' <= Weight(sides)
      <4>1. ClearedOf(sides)' \subseteq ClearedOf(sides)
        BY <2>2 DEF ClearedOf
      <4>q. QED  BY <2>1, <4>1, WeightDrops
    <3>q. QED  BY <3>1
  <2>4. Cardinality(Unlogged)' = Cardinality(Unlogged)
    BY <2>1 DEF Unlogged
  <2>5. hidden <= hidden' /\ Cardinality(Unlogged)' <= Count({"placed"})' + hidden'
    <3>0. "idle" \notin {"placed"}
      OBVIOUS
    <3>1. CASE Abandon(p)
      <4>1. desk[p].phase \notin {"placed"} /\ hidden' = hidden
        BY <3>1 DEF Abandon
      <4>2. Count({"placed"})' = Count({"placed"})
        BY <2>1, <3>0, <4>1, CountIdle
      <4>q. QED  BY <1>0, <2>4, <4>1, <4>2 DEF CapsHold
    <3>2. CASE LogMissed(p)
      <4>1. desk[p].phase \in {"placed"} /\ hidden' = hidden + 1
        BY <3>2 DEF LogMissed
      <4>2. Count({"placed"}) = Count({"placed"})' + 1 /\ Count({"placed"})' \in Nat
        BY <2>1, <3>0, <4>1, CountIdle
      <4>q. QED  BY <1>0, <2>4, <4>1, <4>2 DEF CapsHold
    <3>q. QED  BY <1>6, <3>1, <3>2
  <2>q. QED  BY <1>0, <2>1, <2>3, <2>5, CapsKept DEF CapsHold
<1>7. ASSUME NEW p \in Desks, Place(p) PROVE CapsHold'
  <2>1. /\ desk[p].phase = "cleared" /\ desk' = [desk EXCEPT ![p].phase = "placed"]
        /\ UNCHANGED <<hidden, blind, high, eqFile, eqNew>>
    BY <1>7 DEF Place, eqVars
  <2>2. PICK c \in Entry : ~c.logged /\ book' = book \cup {c} /\ c \notin book
    BY <1>7, PlaceAdds
  <2>3. Cardinality(Unlogged)' = Cardinality(Unlogged) + 1
    <3>1. Unlogged' = Unlogged \cup {c} /\ c \notin Unlogged
      BY <2>2 DEF Unlogged
    <3>q. QED  BY <3>1, UnloggedType, FS_AddElement
  <2>4. Count({"placed"})' = Count({"placed"}) + 1 /\ Count({"placed"}) \in Nat
    <3>1. "placed" \in Phases /\ "placed" \in {"placed"} /\ desk[p].phase \notin {"placed"}
      BY <2>1 DEF Phases
    <3>q. QED  BY <2>1, <3>1, CountPhase
  <2>5. Cardinality(Unlogged)' <= Count({"placed"})' + hidden'
    BY <1>0, <2>1, <2>3, <2>4 DEF CapsHold
  <2>6. \A sides \in SUBSET Sides : Weight(sides)' <= Weight(sides)
    BY <1>7, WeightPlaced
  <2>q. QED  BY <1>0, <2>1, <2>5, <2>6, CapsKept DEF CapsHold
<1>8. ASSUME NEW p \in Desks, LogOrder(p) PROVE CapsHold'
  <2>1. /\ desk[p].phase = "placed" /\ desk' = [desk EXCEPT ![p] = Idle]
        /\ UNCHANGED <<hidden, blind, high, eqFile, eqNew>>
    BY <1>8 DEF LogOrder, eqVars
  <2>2. PICK b \in book, c \in Entry : Swaps(b, c) /\ ~b.logged /\ c.logged /\ c.active = b.active
    BY <1>8, LogSwaps
  <2>3. desk'[p].phase = "idle" /\ \A q \in Desks : q # p => desk'[q] = desk[q]
    BY <1>0, <2>1 DEF Idle
  <2>4. \A sides \in SUBSET Sides : Weight(sides)' <= Weight(sides)
    <3>1. ASSUME NEW sides \in SUBSET Sides PROVE Weight(sides)' <= Weight(sides)
      <4>1. ClearedOf(sides)' = ClearedOf(sides)
        BY <2>1, <2>3 DEF ClearedOf
      <4>q. QED  BY <2>2, <4>1, WeightSwap
    <3>q. QED  BY <3>1
  <2>5. Cardinality(Unlogged) = Cardinality(Unlogged)' + 1
    BY <2>2, UnloggedSwap
  <2>6. Count({"placed"}) = Count({"placed"})' + 1 /\ Count({"placed"})' \in Nat
    <3>1. "idle" \notin {"placed"} /\ desk[p].phase \in {"placed"}
      BY <2>1
    <3>q. QED  BY <2>1, <3>1, CountIdle
  <2>7. Cardinality(Unlogged)' \in Nat
    <3>1. Figures'
      BY FiguresType, PTL
    <3>q. QED  BY <3>1 DEF Figures
  <2>8. Cardinality(Unlogged)' <= Count({"placed"})' + hidden'
    BY <1>0, <2>1, <2>5, <2>6, <2>7 DEF CapsHold
  <2>q. QED  BY <1>0, <2>1, <2>4, <2>8, CapsKept DEF CapsHold
<1>q. QED  BY <1>1, <1>2, <1>3, <1>4, <1>5, <1>6, <1>7, <1>8 DEF RiskNext

-----------------------------------------------------------------------------
DeskInv == RiskTypeOK /\ Orders /\ HaltHolds /\ QuotaHolds /\ CapsHold

LEMMA DeskInvStep == DeskInv /\ [RiskNext]_riskVars => DeskInv'
BY RiskTypeStep, OrdersStep, HaltStep, QuotaStep, CapsStep DEF DeskInv

\* What the weight bounds: all that is on the exchange, logged or not.
LEMMA CapsBound == DeskInv => RiskBounded
<1> SUFFICES ASSUME DeskInv, ~Relaxed, ~blind PROVE RiskBounded
  BY DEF RiskBounded
<1>0. RiskTypeOK /\ Orders /\ CapsHold /\ Strict
  BY DEF DeskInv, Strict
<1> DEFINE live == {b \in book : b.active}
<1>1. ASSUME NEW sides, NEW cap \in Nat, Weight(sides) <= Room(cap)
      PROVE  RiskOf(LiveOf(sides)) <= cap * high + (Cardinality(Desks) + hidden) * OrderBudget
  <2>1. RiskOf(LiveOf(sides)) = Total(LiveOf(sides)) /\ Total(LiveOf(sides)) \in Nat
    BY <1>0, LiveType, RiskType
  <2> DEFINE k == Cardinality(ClearedOf(sides)) * OrderBudget
  <2>2. k \in Nat /\ Weight(sides) = Total(LiveOf(sides)) + k
    BY <1>0, WeightType DEF Weight
  <2> HIDE DEF k
  <2>3. Total(LiveOf(sides)) <= Room(cap)
    BY <1>0, <1>1, <2>1, <2>2, RoomType
  <2>q. QED  BY <2>1, <2>3 DEF Room
<1>2. \A side \in Sides : {b \in live : b.order.side = side} = LiveOf({side})
  BY DEF LiveOf
<1>3. live = LiveOf(Sides)
  BY <1>0, RiskTypes DEF LiveOf, Entry, Order
<1>4. MaxSideRisk \in Nat /\ MaxTotalRisk \in Nat
  BY RiskAssumption
<1> HIDE DEF live
<1>5. \A side \in Sides : RiskOf({b \in live : b.order.side = side})
                            <= MaxSideRisk * high + (Cardinality(Desks) + hidden) * OrderBudget
  BY <1>0, <1>1, <1>2, <1>4 DEF CapsHold
<1>6. RiskOf(live) <= MaxTotalRisk * high + (Cardinality(Desks) + hidden) * OrderBudget
  BY <1>0, <1>1, <1>3, <1>4 DEF CapsHold
<1>q. QED  BY <1>5, <1>6 DEF RiskBounded, live

LEMMA QuotaBound == DeskInv => QuotaBounded
<1> SUFFICES ASSUME DeskInv, ~Relaxed PROVE QuotaBounded
  BY DEF QuotaBounded
<1>1. Cardinality(Today) + Count(Busy) <= MaxTrades + Cardinality(Desks) - 1
  BY DEF DeskInv, QuotaHolds, Busy
<1>2. Cardinality(Today) \in Nat /\ Count(Busy) \in Nat
  <2>1. DesksAt(Busy) \subseteq Desks
    BY DEF DesksAt
  <2>q. QED  BY <2>1, TodayType, DesksCount, FS_Subset, FS_CardinalityType DEF Count, DeskInv
<1>3. Cardinality(Today) <= MaxTrades + Cardinality(Desks) - 1
  BY <1>1, <1>2, DesksCount, RiskAssumption
<1>q. QED  BY <1>3 DEF QuotaBounded, Today

\* The file of the equity, the desks and the book keep their types; an order
\* is on one desk at most, under its own number and within its budget; and
\* the three accounts hold.
THEOREM RiskDeskInvariant == RiskSpec => []DeskInv
<1>1. RiskInit => DeskInv
  BY RiskTypeInit, OrdersInit, HaltInit, QuotaInit, CapsInit DEF DeskInv
<1>q. QED  BY <1>1, DeskInvStep, PTL DEF RiskSpec

\* Whatever the processes check, place and log, in any order: the risk on the
\* exchange overshoots a cap by one order per process and one per order never
\* logged, and the orders of a day their quota by the other processes.
THEOREM DeskWithinLimits == RiskSpec => []WithinLimits
<1>1. DeskInv => WithinLimits
  BY CapsBound, QuotaBound DEF WithinLimits
<1>q. QED  BY <1>1, RiskDeskInvariant, PTL

\* Once a breach is recorded, a process places one order at most.
THEOREM DeskHaltStops == RiskSpec => []HaltStops
<1>1. DeskInv => HaltStops
  BY DEF DeskInv, HaltHolds, Strict, HaltStops
<1>q. QED  BY <1>1, RiskDeskInvariant, PTL

=============================================================================
