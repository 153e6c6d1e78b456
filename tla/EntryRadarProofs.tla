-------------------------- MODULE EntryRadarProofs --------------------------
(* Theorems about EntryRadar for every number of keys, ticks, commands and  *)
(* brackets.                                                                *)
EXTENDS EntryRadar, SequenceTheorems, FiniteSetTheorems, TLAPS

\* A tick that is placing has an intention in hand, and, once its entry was
\* accepted, a bracket of its own.
HandsOK ==
  \A r \in Radars :
    /\ pc[r] \in {"entry", "sl", "tp", "log"} => cur[r] \in Setup
    /\ pc[r] \in {"sl", "tp", "log"} => mine[r] \in DOMAIN brackets

Typed == TypeOK /\ HandsOK

LEMMA ArmIntoType ==
  ASSUME NEW w \in SUBSET Setup, NEW k \in Keys, NEW n \in Nat, NEW t \in Nat
  PROVE  ArmInto(w, k, n, t) \in SUBSET Setup
<1> DEFINE old == {s \in w : s.key = k}
<1> DEFINE id == IF old = {} THEN n ELSE (CHOOSE s \in old : TRUE).id
<1>1. id \in Nat
  <2>1. CASE old = {}
    BY <2>1
  <2>2. CASE old # {}
    BY <2>2 DEF Setup
  <2> QED BY <2>1, <2>2
<1>2. [key |-> k, id |-> id, rev |-> n, expiry |-> t + Lifetime] \in Setup
  BY <1>1, ConstantsAssumption DEF Setup
<1> QED BY <1>2 DEF ArmInto

LEMMA BracketFields ==
  ASSUME NEW b \in Bracket
  PROVE  /\ [b EXCEPT !.sl = TRUE] \in Bracket
         /\ \A x \in BOOLEAN : [b EXCEPT !.tp = x] \in Bracket
         /\ [b EXCEPT !.phase = "filled"] \in Bracket
         /\ [b EXCEPT !.phase = "done"] \in Bracket
BY DEF Bracket

\* A bracket changes in place: the others stay, and so does its number.
LEMMA BracketChanges ==
  ASSUME NEW bs \in Seq(Bracket), NEW b \in DOMAIN bs, NEW e \in Bracket
  PROVE  /\ [bs EXCEPT ![b] = e] \in Seq(Bracket)
         /\ DOMAIN [bs EXCEPT ![b] = e] = DOMAIN bs
BY ExceptSeq

\* The answer to the targets changes nothing but the targets.
LEMMA SameButTP ==
  ASSUME NEW m, NEW x, brackets \in Seq(Bracket), brackets' = [brackets EXCEPT ![m].tp = x]
  PROVE  /\ DOMAIN brackets' = DOMAIN brackets
         /\ \A b \in DOMAIN brackets :
              /\ brackets'[b].sl = brackets[b].sl
              /\ brackets'[b].id = brackets[b].id
<1>1. DOMAIN brackets' = DOMAIN brackets
  OBVIOUS
<1>2. ASSUME NEW b \in DOMAIN brackets
      PROVE  brackets'[b].sl = brackets[b].sl /\ brackets'[b].id = brackets[b].id
  <2>1. brackets[b] \in Bracket
    BY ElementOfSeq
  <2>2. brackets'[b] = IF b = m THEN [brackets[b] EXCEPT !.tp = x] ELSE brackets[b]
    OBVIOUS
  <2>3. /\ [brackets[b] EXCEPT !.tp = x].sl = brackets[b].sl
        /\ [brackets[b] EXCEPT !.tp = x].id = brackets[b].id
    BY <2>1 DEF Bracket
  <2> QED BY <2>2, <2>3
<1> QED BY <1>1, <1>2

LEMMA SameButSL ==
  ASSUME NEW m, NEW x, brackets \in Seq(Bracket), brackets' = [brackets EXCEPT ![m].sl = x]
  PROVE  /\ DOMAIN brackets' = DOMAIN brackets
         /\ \A b \in DOMAIN brackets : brackets'[b].id = brackets[b].id
<1>1. DOMAIN brackets' = DOMAIN brackets
  OBVIOUS
<1>2. ASSUME NEW b \in DOMAIN brackets
      PROVE  brackets'[b].id = brackets[b].id
  <2>1. brackets[b] \in Bracket
    BY ElementOfSeq
  <2>2. brackets'[b] = IF b = m THEN [brackets[b] EXCEPT !.sl = x] ELSE brackets[b]
    OBVIOUS
  <2>3. [brackets[b] EXCEPT !.sl = x].id = brackets[b].id
    BY <2>1 DEF Bracket
  <2> QED BY <2>2, <2>3
<1> QED BY <1>1, <1>2

\* The market changes nothing but the phase.
LEMMA SameButPhase ==
  ASSUME NEW m, NEW x, brackets \in Seq(Bracket), brackets' = [brackets EXCEPT ![m].phase = x]
  PROVE  /\ DOMAIN brackets' = DOMAIN brackets
         /\ \A b \in DOMAIN brackets :
              /\ brackets'[b].sl = brackets[b].sl
              /\ brackets'[b].id = brackets[b].id
<1>1. DOMAIN brackets' = DOMAIN brackets
  OBVIOUS
<1>2. ASSUME NEW b \in DOMAIN brackets
      PROVE  brackets'[b].sl = brackets[b].sl /\ brackets'[b].id = brackets[b].id
  <2>1. brackets[b] \in Bracket
    BY ElementOfSeq
  <2>2. brackets'[b] = IF b = m THEN [brackets[b] EXCEPT !.phase = x] ELSE brackets[b]
    OBVIOUS
  <2>3. /\ [brackets[b] EXCEPT !.phase = x].sl = brackets[b].sl
        /\ [brackets[b] EXCEPT !.phase = x].id = brackets[b].id
    BY <2>1 DEF Bracket
  <2> QED BY <2>2, <2>3
<1> QED BY <1>1, <1>2

\* A bracket is added at the end.
LEMMA BracketAdded ==
  ASSUME NEW bs \in Seq(Bracket), NEW e \in Bracket
  PROVE  /\ Append(bs, e) \in Seq(Bracket)
         /\ DOMAIN Append(bs, e) = DOMAIN bs \cup {Len(bs) + 1}
         /\ Len(bs) + 1 \notin DOMAIN bs
         /\ Append(bs, e)[Len(bs) + 1] = e
         /\ \A b \in DOMAIN bs : Append(bs, e)[b] = bs[b]
BY AppendProperties

\* What the exchange accepts for the intention in hand is a bracket.
LEMMA EntryType ==
  ASSUME Typed, NEW r \in Radars, cur[r] \in Setup, EntryAccepted(r)
  PROVE  /\ brackets' \in Seq(Bracket)
         /\ DOMAIN brackets' = DOMAIN brackets \cup {Len(brackets) + 1}
         /\ Len(brackets) + 1 \notin DOMAIN brackets
         /\ Len(brackets) + 1 \in Nat
         /\ brackets'[Len(brackets) + 1].id = cur[r].id
         /\ \A b \in DOMAIN brackets : brackets'[b] = brackets[b]
<1> DEFINE e == [key |-> cur[r].key, id |-> cur[r].id, rev |-> cur[r].rev,
                 sl |-> FALSE, tp |-> FALSE, phase |-> "resting"]
<1>1. e \in Bracket
  BY DEF Setup, Bracket
<1>2. brackets \in Seq(Bracket)
  BY DEF Typed, TypeOK
<1>3. Len(brackets) + 1 \in Nat
  BY <1>2
<1>4. e.id = cur[r].id
  OBVIOUS
<1>5. brackets' = Append(brackets, e)
  BY DEF EntryAccepted
<1> HIDE DEF e
<1> QED BY <1>1, <1>2, <1>3, <1>4, <1>5, BracketAdded

\* Whatever the account shows and the candles say, a tick keeps some of the
\* intentions that had not expired when it started and posts some of those.
LEMMA PlanEffect ==
  ASSUME NEW r \in Radars, Plan(r)
  PROVE  \E free \in SUBSET PruneExpired(snap[r], tickNow[r]) : \E posted \in SUBSET free :
           /\ todo' = [todo EXCEPT ![r] = posted]
           /\ snap' = [snap EXCEPT ![r] = free]
           /\ settled' = settled \cup Ids(snap[r] \ free)
<1>1. PICK keys \in OpenKeysSeen :
        LET free   == {s \in PruneExpired(snap[r], tickNow[r]) : PairOf[s.key] \notin keys}
            atOnce == {s \in free : s.key \in Immediate}
        IN  \E confirmed \in SUBSET (free \ atOnce) :
              /\ todo' = [todo EXCEPT ![r] = atOnce \cup confirmed]
              /\ snap' = [snap EXCEPT ![r] = free]
              /\ settled' = settled \cup Ids(snap[r] \ free)
  BY DEF Plan
<1> DEFINE free   == {s \in PruneExpired(snap[r], tickNow[r]) : PairOf[s.key] \notin keys}
<1> DEFINE atOnce == {s \in free : s.key \in Immediate}
<1>2. PICK confirmed \in SUBSET (free \ atOnce) :
        /\ todo' = [todo EXCEPT ![r] = atOnce \cup confirmed]
        /\ snap' = [snap EXCEPT ![r] = free]
        /\ settled' = settled \cup Ids(snap[r] \ free)
  BY <1>1
<1>3. free \in SUBSET PruneExpired(snap[r], tickNow[r]) /\ atOnce \cup confirmed \in SUBSET free
  OBVIOUS
<1> HIDE DEF free, atOnce
<1> QED BY <1>2, <1>3

LEMMA TypedInit == Init => Typed
BY DEF Init, Typed, TypeOK, HandsOK, PCs, Bracket

LEMMA TypedNext == Typed /\ [Next]_vars => Typed'
<1> SUFFICES ASSUME Typed, [Next]_vars PROVE Typed'
  OBVIOUS
<1> USE DEF Typed
<1>1. ASSUME NEW k \in Keys, ArmRead(k) PROVE Typed'
  BY <1>1 DEF ArmRead, NoteStart, Busy, TypeOK, HandsOK, localVars, Disturbances
<1>2. CASE ArmWrite
  <2>1. PICK a \in arming : watch' \in Written(ArmInto(a.snap, a.key, a.n, a.at))
    BY <1>2 DEF ArmWrite
  <2>2. ArmInto(a.snap, a.key, a.n, a.at) \in SUBSET Setup
    BY <2>1, ArmIntoType DEF TypeOK
  <2>3. watch' \in SUBSET Setup
    BY <2>1, <2>2 DEF Written
  <2> QED BY <1>2, <2>3 DEF ArmWrite, TypeOK, HandsOK, localVars
<1>21. CASE ArmTruncate
  BY <1>21 DEF ArmTruncate, TypeOK, HandsOK, localVars
<1>22. CASE ArmCrash
  BY <1>22 DEF ArmCrash, Kill, Disturbances, TypeOK, HandsOK, localVars
<1>23. ASSUME NEW r \in Radars, TruncateWatch(r) PROVE Typed'
  BY <1>23 DEF TruncateWatch, TypeOK, HandsOK, PCs
<1>3. ASSUME NEW r \in Radars, ReadWatch(r) PROVE Typed'
  BY <1>3 DEF ReadWatch, NoteStart, Busy, PruneExpired, Ids, TypeOK, HandsOK, Disturbances, PCs, Setup
<1>4. ASSUME NEW r \in Radars, Plan(r) PROVE Typed'
  <2>1. PICK free \in SUBSET PruneExpired(snap[r], tickNow[r]) : \E posted \in SUBSET free :
          /\ todo' = [todo EXCEPT ![r] = posted]
          /\ snap' = [snap EXCEPT ![r] = free]
          /\ settled' = settled \cup Ids(snap[r] \ free)
    BY <1>4, PlanEffect
  <2>2. free \subseteq Setup
    BY <2>1 DEF PruneExpired, TypeOK
  <2>3. Ids(snap[r] \ free) \subseteq Nat
    BY DEF Ids, TypeOK, Setup
  <2>4. /\ todo' \in [Radars -> SUBSET Setup] /\ snap' \in [Radars -> SUBSET Setup]
        /\ settled' \subseteq Nat
    BY <2>1, <2>2, <2>3 DEF TypeOK
  <2> QED BY <1>4, <2>4 DEF Plan, TypeOK, HandsOK, PCs
<1>5. ASSUME NEW r \in Radars, PreflightKO(r) PROVE Typed'
  BY <1>5 DEF PreflightKO, TypeOK, HandsOK
<1>6. ASSUME NEW r \in Radars, PreflightOK(r) PROVE Typed'
  BY <1>6 DEF PreflightOK, TypeOK, HandsOK, PCs
<1>7. ASSUME NEW r \in Radars, PlaceEntry(r) PROVE Typed'
  <2>1. cur[r] \in Setup /\ EntryAccepted(r)
    BY <1>7 DEF PlaceEntry, HandsOK
  <2> HIDE DEF Typed
  <2>2. /\ brackets' \in Seq(Bracket)
        /\ DOMAIN brackets' = DOMAIN brackets \cup {Len(brackets) + 1}
        /\ Len(brackets) + 1 \in Nat
    BY <2>1, EntryType
  <2> QED BY <1>7, <2>1, <2>2 DEF PlaceEntry, Typed, TypeOK, HandsOK, PCs
<1>8. ASSUME NEW r \in Radars, PlaceSL(r) PROVE Typed'
  <2>1. [brackets[mine[r]] EXCEPT !.sl = TRUE] \in Bracket
    <3>1. brackets[mine[r]] \in Bracket
      BY <1>8, ElementOfSeq DEF PlaceSL, TypeOK, HandsOK
    <3> QED BY <3>1, BracketFields
  <2>2. brackets' \in Seq(Bracket) /\ DOMAIN brackets' = DOMAIN brackets
    BY <1>8, <2>1, BracketChanges DEF PlaceSL, TypeOK, HandsOK
  <2> QED BY <1>8, <2>2 DEF PlaceSL, TypeOK, HandsOK, PCs
<1>9. ASSUME NEW r \in Radars, PlaceTP(r) PROVE Typed'
  <2>1. PICK accepted \in BOOLEAN : brackets' = [brackets EXCEPT ![mine[r]].tp = accepted]
    BY <1>9 DEF PlaceTP
  <2>2. [brackets[mine[r]] EXCEPT !.tp = accepted] \in Bracket
    <3>1. brackets[mine[r]] \in Bracket
      BY <1>9, ElementOfSeq DEF PlaceTP, TypeOK, HandsOK
    <3> QED BY <3>1, BracketFields
  <2>3. brackets' \in Seq(Bracket) /\ DOMAIN brackets' = DOMAIN brackets
    BY <1>9, <2>1, <2>2, BracketChanges DEF PlaceTP, TypeOK, HandsOK
  <2>4. settled' \subseteq Nat
    BY <1>9 DEF PlaceTP, TypeOK, HandsOK, Setup
  <2> QED BY <1>9, <2>3, <2>4 DEF PlaceTP, RemoveSetup, TypeOK, HandsOK, PCs
<1>20. ASSUME NEW r \in Radars, PlaceDry(r) PROVE Typed'
  <2>1. cur[r].id \in Nat
    BY <1>20 DEF PlaceDry, HandsOK, Setup
  <2> QED BY <1>20, <2>1 DEF PlaceDry, RemoveSetup, Release, TypeOK, HandsOK, PCs
<1>10. ASSUME NEW r \in Radars, PlaceRefused(r) PROVE Typed'
  BY <1>10 DEF PlaceRefused, Release, TypeOK, HandsOK, PCs
<1>11. ASSUME NEW r \in Radars, PlaceBroken(r) PROVE Typed'
  <2>1. /\ brackets' \in Seq(Bracket)
        /\ DOMAIN brackets \subseteq DOMAIN brackets'
    <3>1. CASE UNCHANGED brackets
      BY <3>1 DEF TypeOK
    <3>2. CASE pc[r] = "entry" /\ EntryAccepted(r)
      <4>1. cur[r] \in Setup
        BY <3>2 DEF HandsOK
      <4> HIDE DEF Typed
      <4> QED BY <3>2, <4>1, EntryType
    <3> QED BY <1>11, <3>1, <3>2 DEF PlaceBroken
  <2> QED BY <1>11, <2>1 DEF PlaceBroken, Release, Disturb, TypeOK, HandsOK, PCs, Disturbances
<1>12. ASSUME NEW r \in Radars, LogTrade(r) PROVE Typed'
  BY <1>12 DEF LogTrade, Release, TypeOK, HandsOK, PCs
<1>13. ASSUME NEW r \in Radars, LogFails(r) PROVE Typed'
  BY <1>13 DEF LogFails, Release, Disturb, TypeOK, HandsOK, PCs, Disturbances
<1>14. ASSUME NEW r \in Radars, WriteWatch(r) PROVE Typed'
  <2>1. watch' \in SUBSET Setup
    BY <1>14 DEF WriteWatch, Written, TypeOK
  <2> QED BY <1>14, <2>1 DEF WriteWatch, TypeOK, HandsOK, PCs
<1>15. ASSUME NEW r \in Radars, Crash(r) PROVE Typed'
  BY <1>15 DEF Crash, Release, Kill, TypeOK, HandsOK, PCs, Disturbances
<1>16. ASSUME NEW b \in DOMAIN brackets, EntryFills(b) PROVE Typed'
  <2>1. [brackets[b] EXCEPT !.phase = "filled"] \in Bracket
    <3>1. brackets[b] \in Bracket
      BY <1>16, ElementOfSeq DEF TypeOK
    <3> QED BY <3>1, BracketFields
  <2>2. brackets' \in Seq(Bracket) /\ DOMAIN brackets' = DOMAIN brackets
    BY <1>16, <2>1, BracketChanges DEF EntryFills, TypeOK
  <2> QED BY <1>16, <2>2 DEF EntryFills, TypeOK, HandsOK, localVars
<1>17. ASSUME NEW b \in DOMAIN brackets, PositionEnds(b) PROVE Typed'
  <2>1. [brackets[b] EXCEPT !.phase = "done"] \in Bracket
    <3>1. brackets[b] \in Bracket
      BY <1>17, ElementOfSeq DEF TypeOK
    <3> QED BY <3>1, BracketFields
  <2>2. brackets' \in Seq(Bracket) /\ DOMAIN brackets' = DOMAIN brackets
    BY <1>17, <2>1, BracketChanges DEF PositionEnds, TypeOK
  <2> QED BY <1>17, <2>2 DEF PositionEnds, TypeOK, HandsOK, localVars
<1>18. CASE TimePasses
  BY <1>18 DEF TimePasses, TypeOK, HandsOK, localVars
<1>19. CASE UNCHANGED vars
  BY <1>19 DEF vars, TypeOK, HandsOK
<1> QED
  BY <1>1, <1>2, <1>3, <1>4, <1>5, <1>6, <1>7, <1>8, <1>9, <1>10, <1>11, <1>12, <1>13,
     <1>14, <1>15, <1>16, <1>17, <1>18, <1>19, <1>20, <1>21, <1>22, <1>23
  DEF Next, TickStep, ArmStep

\* The type invariant of EntryRadar, whatever the actors do.
THEOREM Types == Spec => []TypeOK
BY TypedInit, TypedNext, PTL DEF Spec, Typed

-----------------------------------------------------------------------------
(* One intention per key, in the file and in every copy of it in flight     *)

UniqueKeys(w) == \A s, t \in w : s.key = t.key => s = t

OnePerKey ==
  /\ UniqueKeys(watch)
  /\ \A r \in Radars : UniqueKeys(snap[r])
  /\ \A a \in arming : UniqueKeys(a.snap)

LEMMA ArmIntoUnique ==
  ASSUME NEW w \in SUBSET Setup, NEW k, NEW n, NEW t, UniqueKeys(w)
  PROVE  UniqueKeys(ArmInto(w, k, n, t))
BY DEF ArmInto, UniqueKeys

LEMMA OnePerKeyNext == Typed /\ OnePerKey /\ [Next]_vars => OnePerKey'
<1> SUFFICES ASSUME Typed, OnePerKey, [Next]_vars PROVE OnePerKey'
  OBVIOUS
<1> USE DEF OnePerKey
<1>1. ASSUME NEW k \in Keys, ArmRead(k) PROVE OnePerKey'
  BY <1>1 DEF ArmRead, localVars
<1>2. CASE ArmWrite
  <2>1. PICK a \in arming : watch' \in Written(ArmInto(a.snap, a.key, a.n, a.at))
    BY <1>2 DEF ArmWrite
  <2>2. UniqueKeys(ArmInto(a.snap, a.key, a.n, a.at)) /\ UniqueKeys({})
    BY <2>1, ArmIntoUnique DEF Typed, TypeOK, UniqueKeys
  <2>3. UniqueKeys(watch')
    BY <2>1, <2>2 DEF Written
  <2> QED BY <1>2, <2>3 DEF ArmWrite, localVars
<1>8. CASE ArmTruncate
  BY <1>8 DEF ArmTruncate, UniqueKeys, localVars, Typed, TypeOK
<1>9. CASE ArmCrash
  BY <1>9 DEF ArmCrash, localVars
<1>10. ASSUME NEW r \in Radars, TruncateWatch(r) PROVE OnePerKey'
  BY <1>10 DEF TruncateWatch, UniqueKeys, localVars
<1>3. ASSUME NEW r \in Radars, ReadWatch(r) PROVE OnePerKey'
  BY <1>3 DEF ReadWatch, PruneExpired, UniqueKeys, Typed, TypeOK
<1>4. ASSUME NEW r \in Radars, Plan(r) PROVE OnePerKey'
  <2>1. PICK free \in SUBSET PruneExpired(snap[r], tickNow[r]) : snap' = [snap EXCEPT ![r] = free]
    BY <1>4, PlanEffect
  <2>2. UniqueKeys(free)
    BY <2>1 DEF PruneExpired, UniqueKeys
  <2> QED BY <1>4, <2>1, <2>2 DEF Plan, Typed, TypeOK
<1>5. ASSUME NEW r \in Radars, PlaceTP(r) \/ PlaceDry(r) PROVE OnePerKey'
  <2>1. CASE PlaceTP(r)
    BY <2>1 DEF PlaceTP, RemoveSetup, UniqueKeys, Typed, TypeOK
  <2>2. CASE PlaceDry(r)
    BY <2>2 DEF PlaceDry, RemoveSetup, UniqueKeys, Typed, TypeOK
  <2> QED BY <1>5, <2>1, <2>2
<1>6. ASSUME NEW r \in Radars, WriteWatch(r) \/ Crash(r) PROVE OnePerKey'
  BY <1>6 DEF WriteWatch, Written, Crash, UniqueKeys, Typed, TypeOK
<1>7. ASSUME UNCHANGED <<watch, snap, arming>> PROVE OnePerKey'
  BY <1>7
<1> QED
  BY <1>1, <1>2, <1>3, <1>4, <1>5, <1>6, <1>7, <1>8, <1>9, <1>10
  DEF Next, TickStep, ArmStep, PreflightKO, PreflightOK, PlaceEntry, PlaceSL, PlaceRefused, PlaceBroken,
      LogTrade, LogFails, EntryFills, PositionEnds, TimePasses, localVars, vars

\* armSetup's promise, across every interleaving of commands and ticks: the
\* file never holds two intentions of one symbol|side|setup.
THEOREM OneIntention == Spec => []OneIntentionPerKey
<1>1. Init => OnePerKey
  BY DEF Init, OnePerKey, UniqueKeys
<1>2. OnePerKey => OneIntentionPerKey
  BY DEF OnePerKey, UniqueKeys, OneIntentionPerKey
<1> QED BY TypedInit, TypedNext, OnePerKeyNext, <1>1, <1>2, PTL DEF Spec

-----------------------------------------------------------------------------
(* The stop-loss and the journal entry of every bracket                     *)

\* What is disturbed stays so.
LEMMA DisturbedGrows == [Next]_vars => disturbed \subseteq disturbed'
BY DEF Next, TickStep, ArmStep, ArmRead, ArmTruncate, ArmWrite, ArmCrash, Kill, NoteStart, Disturb,
   ReadWatch, Plan, PreflightKO, PreflightOK, PlaceEntry, PlaceSL, PlaceTP, PlaceDry, PlaceRefused,
   PlaceBroken, LogTrade, LogFails, TruncateWatch, WriteWatch, Crash, EntryFills, PositionEnds, TimePasses, vars

LEMMA StopNext == Typed /\ StopUnlessDisturbed /\ [Next]_vars => StopUnlessDisturbed'
<1> SUFFICES ASSUME Typed, StopUnlessDisturbed, [Next]_vars, Undisturbed({"crash", "order"})'
             PROVE  \A b \in DOMAIN brackets' :
                      brackets'[b].sl \/ \E r \in Radars : mine'[r] = b /\ pc'[r] = "sl"
  BY DEF StopUnlessDisturbed
<1> DEFINE Done == \A b \in DOMAIN brackets' :
                      brackets'[b].sl \/ \E r \in Radars : mine'[r] = b /\ pc'[r] = "sl"
<1>0. \A b \in DOMAIN brackets :
        brackets[b].sl \/ \E r \in Radars : mine[r] = b /\ pc[r] = "sl"
  BY DisturbedGrows DEF StopUnlessDisturbed, Undisturbed
<1>1. ASSUME NEW r \in Radars, PlaceEntry(r) PROVE Done
  <2>1. /\ DOMAIN brackets' = DOMAIN brackets \cup {Len(brackets) + 1}
        /\ \A b \in DOMAIN brackets : brackets'[b] = brackets[b]
    BY <1>1, EntryType DEF PlaceEntry, Typed, HandsOK
  <2>2. mine'[r] = Len(brackets) + 1 /\ pc'[r] = "sl"
    BY <1>1 DEF PlaceEntry, Typed, TypeOK
  <2>3. \A q \in Radars : pc[q] = "sl" => mine'[q] = mine[q] /\ pc'[q] = "sl"
    BY <1>1 DEF PlaceEntry, Typed, TypeOK
  <2> QED BY <1>0, <2>1, <2>2, <2>3
<1>2. ASSUME NEW r \in Radars, PlaceSL(r) PROVE Done
  <2>1. /\ DOMAIN brackets' = DOMAIN brackets
        /\ \A b \in DOMAIN brackets : b # mine[r] => brackets'[b] = brackets[b]
        /\ mine[r] \in DOMAIN brackets => brackets'[mine[r]].sl
    <3>1. brackets \in Seq(Bracket)
      BY DEF Typed, TypeOK
    <3>2. ASSUME mine[r] \in DOMAIN brackets
          PROVE  brackets'[mine[r]] = [brackets[mine[r]] EXCEPT !.sl = TRUE]
      BY <1>2, <3>1, <3>2 DEF PlaceSL
    <3>3. ASSUME mine[r] \in DOMAIN brackets PROVE brackets[mine[r]] \in Bracket
      BY <3>1, <3>3, ElementOfSeq
    <3> QED BY <1>2, <3>1, <3>2, <3>3 DEF PlaceSL, Bracket
  <2>2. \A q \in Radars : q # r => mine'[q] = mine[q] /\ pc'[q] = pc[q]
    BY <1>2 DEF PlaceSL, Typed, TypeOK
  <2> QED BY <1>0, <2>1, <2>2
<1>3. ASSUME NEW r \in Radars, PlaceTP(r) PROVE Done
  <2>1. PICK x \in BOOLEAN : brackets' = [brackets EXCEPT ![mine[r]].tp = x]
    BY <1>3 DEF PlaceTP
  <2>2. /\ DOMAIN brackets' = DOMAIN brackets
        /\ \A b \in DOMAIN brackets : brackets'[b].sl = brackets[b].sl
    BY <2>1, SameButTP DEF Typed, TypeOK
  <2>3. \A q \in Radars : pc[q] = "sl" => mine'[q] = mine[q] /\ pc'[q] = "sl"
    BY <1>3 DEF PlaceTP, Typed, TypeOK
  <2> QED BY <1>0, <2>2, <2>3
<1>4. ASSUME NEW b \in DOMAIN brackets, EntryFills(b) \/ PositionEnds(b) PROVE Done
  <2>1. /\ DOMAIN brackets' = DOMAIN brackets
        /\ \A x \in DOMAIN brackets : brackets'[x].sl = brackets[x].sl
    BY <1>4, SameButPhase DEF EntryFills, PositionEnds, Typed, TypeOK
  <2> QED BY <1>0, <1>4, <2>1 DEF EntryFills, PositionEnds, localVars
<1>5. ASSUME NEW r \in Radars, PlaceBroken(r) \/ Crash(r) PROVE FALSE
  BY <1>5 DEF PlaceBroken, Crash, Kill, Disturb, Undisturbed
<1>6. ASSUME NEW r \in Radars, UNCHANGED brackets, pc[r] # "sl",
             \A q \in Radars : q # r => mine'[q] = mine[q] /\ pc'[q] = pc[q]
      PROVE  Done
  BY <1>0, <1>6
<1>7. ASSUME UNCHANGED <<brackets, mine, pc>> PROVE Done
  BY <1>0, <1>7
<1>8. ASSUME NEW r \in Radars,
             \/ ReadWatch(r) \/ Plan(r) \/ PreflightOK(r) \/ PreflightKO(r) \/ PlaceRefused(r)
             \/ PlaceDry(r) \/ LogTrade(r) \/ LogFails(r) \/ TruncateWatch(r) \/ WriteWatch(r)
      PROVE  /\ UNCHANGED brackets /\ pc[r] # "sl"
             /\ \A q \in Radars : q # r => mine'[q] = mine[q] /\ pc'[q] = pc[q]
  BY <1>8 DEF ReadWatch, Plan, PreflightKO, PreflightOK, PlaceDry, PlaceRefused, LogTrade, LogFails,
     TruncateWatch, WriteWatch, Release, Typed, TypeOK
<1>9. ASSUME NEW k \in Keys, ArmRead(k) PROVE UNCHANGED <<brackets, mine, pc>>
  BY <1>9 DEF ArmRead, localVars
<1>10. ASSUME ArmStep \/ ArmCrash \/ TimePasses \/ UNCHANGED vars
       PROVE  UNCHANGED <<brackets, mine, pc>>
  BY <1>10 DEF ArmStep, ArmTruncate, ArmWrite, ArmCrash, TimePasses, localVars, vars
<1> QED
  BY <1>1, <1>2, <1>3, <1>4, <1>5, <1>6, <1>7, <1>8, <1>9, <1>10 DEF Next, TickStep

\* No overlap of ticks leaves a bracket without a stop-loss: outside a kill
\* or a broken placement, only the tick between the two orders does.
THEOREM StopAlways == Spec => []StopUnlessDisturbed
<1>1. Init => StopUnlessDisturbed
  BY DEF Init, StopUnlessDisturbed
<1> QED BY TypedInit, TypedNext, StopNext, <1>1, PTL DEF Spec

LEMMA JournalNext == Typed /\ JournalledUnlessDisturbed /\ [Next]_vars => JournalledUnlessDisturbed'
<1> DEFINE Placing == {"sl", "tp", "log"}
<1> SUFFICES ASSUME Typed, JournalledUnlessDisturbed, [Next]_vars,
                    Undisturbed({"crash", "order", "log"})'
             PROVE  \A b \in DOMAIN brackets' :
                      b \in journal' \/ \E r \in Radars : mine'[r] = b /\ pc'[r] \in Placing
  BY DEF JournalledUnlessDisturbed
<1> DEFINE Done == \A b \in DOMAIN brackets' :
                      b \in journal' \/ \E r \in Radars : mine'[r] = b /\ pc'[r] \in Placing
<1>0. \A b \in DOMAIN brackets :
        b \in journal \/ \E r \in Radars : mine[r] = b /\ pc[r] \in Placing
  BY DisturbedGrows DEF JournalledUnlessDisturbed, Undisturbed
<1>1. ASSUME NEW r \in Radars, PlaceEntry(r) PROVE Done
  <2>1. DOMAIN brackets' = DOMAIN brackets \cup {Len(brackets) + 1}
    BY <1>1, EntryType DEF PlaceEntry, Typed, HandsOK
  <2>2. mine'[r] = Len(brackets) + 1 /\ pc'[r] = "sl" /\ journal' = journal
    BY <1>1 DEF PlaceEntry, Typed, TypeOK
  <2>3. \A q \in Radars : pc[q] \in Placing => mine'[q] = mine[q] /\ pc'[q] \in Placing
    BY <1>1 DEF PlaceEntry, Typed, TypeOK
  <2> QED BY <1>0, <2>1, <2>2, <2>3
<1>2. ASSUME NEW r \in Radars, PlaceSL(r) \/ PlaceTP(r) PROVE Done
  <2>1. DOMAIN brackets' = DOMAIN brackets /\ journal' = journal
    BY <1>2, SameButTP DEF PlaceSL, PlaceTP, Typed, TypeOK
  <2>2. \A q \in Radars : pc[q] \in Placing => mine'[q] = mine[q] /\ pc'[q] \in Placing
    BY <1>2 DEF PlaceSL, PlaceTP, Typed, TypeOK
  <2> QED BY <1>0, <2>1, <2>2
<1>3. ASSUME NEW r \in Radars, LogTrade(r) PROVE Done
  <2>1. \A q \in Radars : q # r => mine'[q] = mine[q] /\ pc'[q] = pc[q]
    BY <1>3 DEF LogTrade, Release, Typed, TypeOK
  <2>2. brackets' = brackets /\ journal' = journal \cup {mine[r]}
    BY <1>3 DEF LogTrade
  <2> QED BY <1>0, <2>1, <2>2
<1>4. ASSUME NEW b \in DOMAIN brackets, EntryFills(b) \/ PositionEnds(b) PROVE Done
  <2>1. DOMAIN brackets' = DOMAIN brackets /\ UNCHANGED <<journal, mine, pc>>
    BY <1>4 DEF EntryFills, PositionEnds, localVars
  <2> QED BY <1>0, <2>1
<1>5. ASSUME NEW r \in Radars, PlaceBroken(r) \/ Crash(r) \/ LogFails(r) PROVE FALSE
  BY <1>5 DEF PlaceBroken, Crash, Kill, LogFails, Disturb, Undisturbed
<1>6. ASSUME NEW r \in Radars,
             \/ ReadWatch(r) \/ Plan(r) \/ PreflightOK(r) \/ PreflightKO(r) \/ PlaceRefused(r)
             \/ PlaceDry(r) \/ TruncateWatch(r) \/ WriteWatch(r)
      PROVE  Done
  <2>1. /\ UNCHANGED <<brackets, journal>> /\ pc[r] \notin Placing
        /\ \A q \in Radars : q # r => mine'[q] = mine[q] /\ pc'[q] = pc[q]
    BY <1>6 DEF ReadWatch, Plan, PreflightKO, PreflightOK, PlaceDry, PlaceRefused, TruncateWatch,
       WriteWatch, Release, Typed, TypeOK
  <2> QED BY <1>0, <2>1
<1>7. ASSUME UNCHANGED <<brackets, journal, mine, pc>> PROVE Done
  BY <1>0, <1>7
<1>8. ASSUME NEW k \in Keys, ArmRead(k) PROVE UNCHANGED <<brackets, journal, mine, pc>>
  BY <1>8 DEF ArmRead, localVars
<1>9. ASSUME ArmStep \/ ArmCrash \/ TimePasses \/ UNCHANGED vars
      PROVE  UNCHANGED <<brackets, journal, mine, pc>>
  BY <1>9 DEF ArmStep, ArmTruncate, ArmWrite, ArmCrash, TimePasses, localVars, vars
<1> QED BY <1>1, <1>2, <1>3, <1>4, <1>5, <1>6, <1>7, <1>8, <1>9 DEF Next, TickStep

\* However ticks overlap, a bracket is in the journal or in the hands of the
\* tick that is placing it, until a kill, a broken placement or a failed log.
THEOREM Journalled == Spec => []JournalledUnlessDisturbed
<1>1. Init => JournalledUnlessDisturbed
  BY DEF Init, JournalledUnlessDisturbed
<1> QED BY TypedInit, TypedNext, JournalNext, <1>1, PTL DEF Spec

-----------------------------------------------------------------------------
(* Expired intentions                                                       *)

Fresh ==
  \A r \in Radars :
    /\ \A s \in todo[r] : tickNow[r] < s.expiry
    /\ pc[r] \in {"idle", "keys", "write"} => todo[r] = {}
    /\ pc[r] = "entry" => tickNow[r] < cur[r].expiry

LEMMA FreshNext == Typed /\ Fresh /\ [Next]_vars => Fresh'
<1> SUFFICES ASSUME Typed, Fresh, [Next]_vars PROVE Fresh'
  OBVIOUS
<1> USE DEF Fresh
<1>1. ASSUME NEW r \in Radars, ReadWatch(r) PROVE Fresh'
  BY <1>1 DEF ReadWatch, Typed, TypeOK
<1>2. ASSUME NEW r \in Radars, Plan(r) PROVE Fresh'
  <2>1. PICK free \in SUBSET PruneExpired(snap[r], tickNow[r]) : \E posted \in SUBSET free :
          todo' = [todo EXCEPT ![r] = posted]
    BY <1>2, PlanEffect
  <2>2. \A s \in free : tickNow[r] < s.expiry
    BY <2>1 DEF PruneExpired, IsExpired, Typed, TypeOK, Setup
  <2> QED BY <1>2, <2>1, <2>2 DEF Plan, Typed, TypeOK
<1>3. ASSUME NEW r \in Radars, PreflightKO(r) \/ PreflightOK(r) PROVE Fresh'
  BY <1>3 DEF PreflightKO, PreflightOK, Typed, TypeOK
<1>4. ASSUME NEW r \in Radars,
             \/ PlaceEntry(r) \/ PlaceSL(r) \/ PlaceTP(r) \/ PlaceDry(r) \/ PlaceRefused(r)
             \/ PlaceBroken(r)
      PROVE  Fresh'
  BY <1>4 DEF PlaceEntry, PlaceSL, PlaceTP, PlaceDry, PlaceRefused, PlaceBroken, Release, Typed, TypeOK
<1>5. ASSUME NEW r \in Radars, LogTrade(r) \/ LogFails(r) \/ WriteWatch(r) \/ Crash(r)
      PROVE  Fresh'
  BY <1>5 DEF LogTrade, LogFails, WriteWatch, Crash, Release, Typed, TypeOK
<1>7. ASSUME NEW r \in Radars, TruncateWatch(r) PROVE Fresh'
  BY <1>7 DEF TruncateWatch, Typed, TypeOK
<1>6. ASSUME UNCHANGED <<pc, tickNow, todo, cur>> PROVE Fresh'
  BY <1>6
<1>8. ASSUME \/ \E k \in Keys : ArmRead(k)
             \/ ArmStep \/ ArmCrash
             \/ \E b \in DOMAIN brackets : EntryFills(b) \/ PositionEnds(b)
             \/ TimePasses \/ UNCHANGED vars
      PROVE  UNCHANGED <<pc, tickNow, todo, cur>>
  BY <1>8 DEF ArmStep, ArmRead, ArmTruncate, ArmWrite, ArmCrash, EntryFills, PositionEnds, TimePasses,
     localVars, vars
<1> HIDE DEF Fresh
<1>9. ASSUME NEW r \in Radars, TickStep(r) \/ Crash(r) PROVE Fresh'
  BY <1>1, <1>2, <1>3, <1>4, <1>5, <1>7, <1>9 DEF TickStep
<1>10. CASE \E r \in Radars : TickStep(r) \/ Crash(r)
  BY <1>9, <1>10
<1> QED BY <1>6, <1>8, <1>10 DEF Next

\* A tick never posts an intention that had expired when it started.
THEOREM NothingExpiredIsPosted == Spec => NeverPostsExpired
<1>1. Init => Fresh
  BY DEF Init, Fresh
<1>2. Fresh /\ [Next]_vars =>
        [\A r \in Radars : (pc[r] = "entry" /\ brackets' # brackets /\ pc'[r] # "entry")
           => tickNow[r] < cur[r].expiry]_vars
  BY DEF Fresh
<1> QED BY TypedInit, TypedNext, FreshNext, <1>1, <1>2, PTL DEF Spec, NeverPostsExpired

-----------------------------------------------------------------------------
(* The life of an intention: where it may be, and which brackets it has     *)

Uses(w) == \A s, t \in w : s.id = t.id => s = t

\* Every copy of an intention bears numbers of commands that have run; a
\* command under way bears one nobody in its copy of the file has.
Numbered ==
  /\ \A s \in watch : s.id <= arms /\ s.rev <= arms
  /\ \A r \in Radars : \A s \in snap[r] : s.id <= arms /\ s.rev <= arms
  /\ \A a \in arming : /\ a.n <= arms
                       /\ \A s \in a.snap : s.id < a.n /\ s.rev < a.n
  /\ \A b \in DOMAIN brackets : brackets[b].id <= arms
  /\ Uses(watch)
  /\ \A r \in Radars : Uses(snap[r])
  /\ \A a \in arming : Uses(a.snap)

\* What a tick is about to post, and what it is posting, is in its copy.
InCopy ==
  \A r \in Radars :
    /\ todo[r] \subseteq snap[r]
    /\ pc[r] = "idle" => snap[r] = {}
    /\ pc[r] \in {"entry", "sl", "tp"} => cur[r] \in snap[r] \ todo[r]

\* As long as no actor started while another worked, one works at a time, on
\* the current contents of the file, nothing got lost on the way, and the
\* file an actor is rewriting is as its truncation left it.
Alone ==
  "overlap" \notin disturbed =>
    /\ \A q, r \in Radars : pc[q] # "idle" /\ pc[r] # "idle" => q = r
    /\ \A a, b \in arming : a = b
    /\ arming # {} => \A r \in Radars : pc[r] = "idle"
    /\ \A a \in arming : /\ IF a.open THEN watch = {} ELSE a.snap = watch
                         /\ \A b \in DOMAIN brackets : brackets[b].id < a.n
    /\ \A r \in Radars : pc[r] # "idle" => \A s \in watch : s \in snap[r] \/ s.id \in settled
    /\ \A r \in Radars : pc[r] = "write" => watch = {}

\* The intentions that already have a bracket are out of the file between
\* ticks, and out of a tick's or a command's copy, but for the one being
\* placed.
Once ==
  Undisturbed({"overlap", "crash", "order"}) =>
    /\ \A a, b \in DOMAIN brackets : brackets[a].id = brackets[b].id => a = b
    /\ (\A r \in Radars : pc[r] = "idle") =>
         \A b \in DOMAIN brackets : brackets[b].id \notin Ids(watch)
    /\ \A a \in arming : \A b \in DOMAIN brackets : brackets[b].id \notin Ids(a.snap)
    /\ \A r \in Radars :
         /\ pc[r] \in {"keys", "decide", "entry", "log", "write"} =>
              \A b \in DOMAIN brackets : brackets[b].id \notin Ids(snap[r])
         /\ pc[r] \in {"sl", "tp"} =>
              /\ brackets[mine[r]].id = cur[r].id
              /\ \A b \in DOMAIN brackets : brackets[b].id \in Ids(snap[r]) => b = mine[r]

\* Strict mode: the quota leaves room for the bracket being placed.
Room ==
  (~DemoActive /\ disturbed = {}) =>
    /\ \A r \in Radars :
         /\ pc[r] \in {"entry", "sl", "tp", "log"} => Cardinality(journal) < MaxPerDay
         /\ pc[r] \in {"sl", "tp", "log"} => Len(brackets) = Cardinality(journal) + 1
    /\ (\A r \in Radars : pc[r] \notin {"sl", "tp", "log"}) => Len(brackets) = Cardinality(journal)
    /\ journal \subseteq DOMAIN brackets /\ Cardinality(journal) <= MaxPerDay
    /\ \A r \in Radars : pc[r] \in {"sl", "tp", "log"} => mine[r] \notin journal

\* A refreshed intention keeps its number, a new one takes the command's.
LEMMA ArmIntoNumbers ==
  ASSUME NEW w \in SUBSET Setup, NEW k, NEW n \in Nat, NEW t, UniqueKeys(w), Uses(w),
         \A s \in w : s.id < n /\ s.rev < n
  PROVE  /\ \A s \in ArmInto(w, k, n, t) : s.id <= n /\ s.rev <= n
         /\ Uses(ArmInto(w, k, n, t))
         /\ Ids(ArmInto(w, k, n, t)) \subseteq Ids(w) \cup {n}
         /\ \A s \in w : \E u \in ArmInto(w, k, n, t) : u.id = s.id /\ u.rev >= s.rev
<1> DEFINE old == {s \in w : s.key = k}
<1> DEFINE id == IF old = {} THEN n ELSE (CHOOSE s \in old : TRUE).id
<1> DEFINE new == [key |-> k, id |-> id, rev |-> n, expiry |-> t + Lifetime]
<1>1. ArmInto(w, k, n, t) = (w \ old) \cup {new}
  BY DEF ArmInto
<1>2. ASSUME NEW s \in old PROVE id = s.id /\ id < n
  <2>1. (CHOOSE x \in old : TRUE) \in old
    BY <1>2
  <2>2. (CHOOSE x \in old : TRUE) = s
    BY <2>1, <1>2 DEF UniqueKeys
  <2> QED BY <2>2, <1>2
<1>3. id \in Nat /\ id <= n
  BY <1>2 DEF Setup
<1>4. new.id = id /\ new.rev = n
  OBVIOUS
<1>5. \A s \in w : s.id \in Nat /\ s.rev \in Nat
  BY DEF Setup
<1>6. \A s \in w \ old : s.id # id
  <2> SUFFICES ASSUME NEW s \in w \ old, s.id = id PROVE FALSE
    OBVIOUS
  <2>1. PICK u \in old : TRUE
    BY <1>5
  <2>2. u.id = s.id
    BY <1>2, <2>1
  <2> QED BY <2>1, <2>2 DEF Uses
<1> HIDE DEF id, new
<1>7. \A s \in ArmInto(w, k, n, t) : s.id <= n /\ s.rev <= n
  BY <1>1, <1>3, <1>4, <1>5
<1>8. Uses(ArmInto(w, k, n, t))
  BY <1>1, <1>4, <1>6 DEF Uses
<1>9. id \in Ids(w) \cup {n}
  BY <1>2 DEF id, Ids
<1>10. Ids(ArmInto(w, k, n, t)) \subseteq Ids(w) \cup {n}
  BY <1>1, <1>4, <1>9 DEF Ids
<1>11. \A s \in w : \E u \in ArmInto(w, k, n, t) : u.id = s.id /\ u.rev >= s.rev
  <2> SUFFICES ASSUME NEW s \in w
               PROVE  \E u \in ArmInto(w, k, n, t) : u.id = s.id /\ u.rev >= s.rev
    OBVIOUS
  <2>1. CASE s \in old
    BY <2>1, <1>1, <1>2, <1>4, <1>5
  <2>2. CASE s \notin old
    BY <2>2, <1>1, <1>5
  <2> QED BY <2>1, <2>2
<1> QED BY <1>7, <1>8, <1>10, <1>11

\* Every entry put on the exchange bears the number of the intention in hand;
\* every other step leaves the numbers of the brackets alone.
LEMMA BracketIds ==
  ASSUME Typed, [Next]_vars
  PROVE  \/ /\ DOMAIN brackets' = DOMAIN brackets
            /\ \A b \in DOMAIN brackets : brackets'[b].id = brackets[b].id
         \/ \E r \in Radars :
              /\ pc[r] = "entry"
              /\ PlaceEntry(r) \/ PlaceBroken(r)
              /\ DOMAIN brackets' = DOMAIN brackets \cup {Len(brackets) + 1}
              /\ Len(brackets) + 1 \notin DOMAIN brackets
              /\ \A b \in DOMAIN brackets : brackets'[b].id = brackets[b].id
              /\ brackets'[Len(brackets) + 1].id = cur[r].id
<1> DEFINE Same == /\ DOMAIN brackets' = DOMAIN brackets
                   /\ \A b \in DOMAIN brackets : brackets'[b].id = brackets[b].id
<1>0. brackets \in Seq(Bracket)
  BY DEF Typed, TypeOK
<1> DEFINE New(r) == /\ pc[r] = "entry"
                     /\ PlaceEntry(r) \/ PlaceBroken(r)
                     /\ DOMAIN brackets' = DOMAIN brackets \cup {Len(brackets) + 1}
                     /\ Len(brackets) + 1 \notin DOMAIN brackets
                     /\ \A b \in DOMAIN brackets : brackets'[b].id = brackets[b].id
                     /\ brackets'[Len(brackets) + 1].id = cur[r].id
<1>1. ASSUME NEW r \in Radars, PlaceEntry(r) \/ PlaceBroken(r)
      PROVE  Same \/ New(r)
  <2>1. CASE pc[r] = "entry" /\ EntryAccepted(r)
    <3>1. cur[r] \in Setup
      BY <2>1 DEF Typed, HandsOK
    <3>2. /\ DOMAIN brackets' = DOMAIN brackets \cup {Len(brackets) + 1}
          /\ Len(brackets) + 1 \notin DOMAIN brackets
          /\ \A b \in DOMAIN brackets : brackets'[b] = brackets[b]
          /\ brackets'[Len(brackets) + 1].id = cur[r].id
      BY <2>1, <3>1, EntryType
    <3>3. \A b \in DOMAIN brackets : brackets'[b].id = brackets[b].id
      BY <3>2
    <3>4. New(r)
      BY <1>1, <2>1, <3>2, <3>3
    <3> QED BY <3>4
  <2>2. CASE UNCHANGED brackets
    BY <2>2
  <2> QED BY <1>1, <2>1, <2>2 DEF PlaceEntry, PlaceBroken
<1>2. ASSUME NEW r \in Radars, PlaceSL(r) PROVE Same
  BY <1>0, <1>2, SameButSL DEF PlaceSL
<1>3. ASSUME NEW r \in Radars, PlaceTP(r) PROVE Same
  BY <1>0, <1>3, SameButTP DEF PlaceTP
<1>4. ASSUME NEW b \in DOMAIN brackets, EntryFills(b) \/ PositionEnds(b) PROVE Same
  BY <1>0, <1>4, SameButPhase DEF EntryFills, PositionEnds
<1>5. ASSUME UNCHANGED brackets PROVE Same
  BY <1>5
<1>6. Same \/ \E r \in Radars : New(r)
  <2> HIDE DEF Same, New
  <2>1. CASE \E r \in Radars : PlaceEntry(r) \/ PlaceBroken(r)
    BY <1>1, <2>1
  <2>2. CASE \E r \in Radars : PlaceSL(r) \/ PlaceTP(r)
    BY <1>2, <1>3, <2>2
  <2>3. CASE \E b \in DOMAIN brackets : EntryFills(b) \/ PositionEnds(b)
    BY <1>4, <2>3
  <2>4. ASSUME NEW r \in Radars,
               \/ ReadWatch(r) \/ Plan(r) \/ PreflightOK(r) \/ PreflightKO(r) \/ PlaceRefused(r)
               \/ PlaceDry(r) \/ LogTrade(r) \/ LogFails(r) \/ TruncateWatch(r) \/ WriteWatch(r)
               \/ Crash(r)
        PROVE  Same
    BY <1>5, <2>4 DEF ReadWatch, Plan, PreflightKO, PreflightOK, PlaceDry, PlaceRefused, LogTrade, LogFails,
       TruncateWatch, WriteWatch, Crash
  <2>5. ASSUME NEW k \in Keys, ArmRead(k) PROVE Same
    BY <1>5, <2>5 DEF ArmRead
  <2>6. CASE ArmStep \/ ArmCrash \/ TimePasses \/ UNCHANGED vars
    BY <1>5, <2>6 DEF ArmStep, ArmTruncate, ArmWrite, ArmCrash, TimePasses, vars
  <2> QED BY <2>1, <2>2, <2>3, <2>4, <2>5, <2>6 DEF Next, TickStep
<1> QED BY <1>6

\* Only the arm command takes a number.
LEMMA ArmsStay ==
  ASSUME [Next]_vars
  PROVE  arms' = arms \/ \E k \in Keys : ArmRead(k)
BY DEF Next, TickStep, ArmStep, ArmTruncate, ArmWrite, ArmCrash, ReadWatch, Plan, PreflightKO,
   PreflightOK, PlaceEntry, PlaceSL, PlaceTP, PlaceDry, PlaceRefused, PlaceBroken, LogTrade, LogFails,
   TruncateWatch, WriteWatch, Crash, EntryFills, PositionEnds, TimePasses, vars

LEMMA BracketsTyped ==
  ASSUME Typed, NEW b \in DOMAIN brackets
  PROVE  brackets[b] \in Bracket /\ brackets[b].id \in Nat
<1>1. brackets[b] \in Bracket
  BY ElementOfSeq DEF Typed, TypeOK
<1> QED BY <1>1 DEF Bracket

\* Only these steps touch the file or a copy of it.
LEMMA CopiesStay ==
  ASSUME [Next]_vars
  PROVE  \/ UNCHANGED <<watch, snap, arming>> /\ arms' = arms
         \/ ArmTruncate \/ ArmWrite \/ ArmCrash \/ \E k \in Keys : ArmRead(k)
         \/ \E r \in Radars : \/ ReadWatch(r) \/ Plan(r) \/ PlaceTP(r) \/ PlaceDry(r)
                               \/ TruncateWatch(r) \/ WriteWatch(r) \/ Crash(r)
BY DEF Next, TickStep, ArmStep, PreflightKO, PreflightOK, PlaceEntry, PlaceSL, PlaceRefused, PlaceBroken,
   LogTrade, LogFails, EntryFills, PositionEnds, TimePasses, localVars, vars

LEMMA NumberedNext == Typed /\ OnePerKey /\ Numbered /\ InCopy /\ [Next]_vars => Numbered'
<1> SUFFICES ASSUME Typed, OnePerKey, Numbered, InCopy, [Next]_vars PROVE Numbered'
  OBVIOUS
<1> DEFINE Copies == /\ \A s \in watch' : s.id <= arms' /\ s.rev <= arms'
                     /\ \A r \in Radars : \A s \in snap'[r] : s.id <= arms' /\ s.rev <= arms'
                     /\ \A a \in arming' : /\ a.n <= arms'
                                           /\ \A s \in a.snap : s.id < a.n /\ s.rev < a.n
                     /\ Uses(watch')
                     /\ \A r \in Radars : Uses(snap'[r])
                     /\ \A a \in arming' : Uses(a.snap)
<1>1. \A b \in DOMAIN brackets' : brackets'[b].id <= arms'
  <2>1. arms' \in Nat /\ arms <= arms'
    BY ArmsStay DEF Typed, TypeOK, ArmRead
  <2>2. \A b \in DOMAIN brackets : brackets[b].id \in Nat /\ brackets[b].id <= arms
    BY BracketsTyped DEF Numbered
  <2>3. \A r \in Radars : pc[r] = "entry" => cur[r].id \in Nat /\ cur[r].id <= arms
    BY DEF InCopy, Numbered, Typed, HandsOK, Setup
  <2>4. arms \in Nat
    BY DEF Typed, TypeOK
  <2> QED BY <2>1, <2>2, <2>3, <2>4, BracketIds
<1>2. ASSUME NEW k \in Keys, ArmRead(k) PROVE Copies
  BY <1>2 DEF ArmRead, localVars, Numbered, Typed, TypeOK, Setup
<1>3. ASSUME ArmWrite PROVE Copies
  <2>1. PICK a \in arming : watch' \in Written(ArmInto(a.snap, a.key, a.n, a.at)) /\ arming' = {}
    BY <1>3 DEF ArmWrite
  <2> DEFINE w == ArmInto(a.snap, a.key, a.n, a.at)
  <2>2. UNCHANGED <<arms, snap>>
    BY <1>3 DEF ArmWrite, localVars
  <2>3. /\ a.snap \in SUBSET Setup /\ a.n \in Nat
        /\ UniqueKeys(a.snap) /\ Uses(a.snap)
        /\ \A s \in a.snap : s.id < a.n /\ s.rev < a.n
        /\ a.n <= arms
    BY DEF Typed, TypeOK, OnePerKey, Numbered
  <2>4. /\ \A s \in w : s.id <= a.n /\ s.rev <= a.n
        /\ Uses(w) /\ w \in SUBSET Setup
    BY <2>1, <2>3, ArmIntoNumbers, ArmIntoType DEF Typed, TypeOK
  <2>5. \A s \in w : s.id <= arms /\ s.rev <= arms
    BY <2>3, <2>4 DEF Setup, Typed, TypeOK
  <2>6. \A r \in Radars : \A s \in snap'[r] : s.id <= arms' /\ s.rev <= arms'
    BY <2>2 DEF Numbered
  <2>7. \A r \in Radars : Uses(snap'[r])
    BY <2>2 DEF Numbered
  <2> HIDE DEF w
  <2>8. watch' = w \/ watch' = {}
    BY <2>1 DEF w, Written
  <2>9. /\ \A s \in watch' : s.id <= arms' /\ s.rev <= arms'
        /\ Uses(watch')
    BY <2>2, <2>4, <2>5, <2>8 DEF Uses
  <2> QED BY <2>1, <2>6, <2>7, <2>9
<1>10. ASSUME ArmTruncate \/ ArmCrash PROVE Copies
  <2>1. /\ watch' = watch \/ watch' = {}
        /\ \A a \in arming' : \E b \in arming : a.n = b.n /\ a.snap = b.snap
        /\ UNCHANGED <<arms, snap>>
    BY <1>10 DEF ArmTruncate, ArmCrash, localVars, Typed, TypeOK
  <2>2. Uses({})
    BY DEF Uses
  <2> QED BY <2>1, <2>2 DEF Numbered
<1>11. ASSUME NEW r \in Radars, TruncateWatch(r) PROVE Copies
  BY <1>11 DEF TruncateWatch, Numbered, Uses
<1>4. ASSUME NEW r \in Radars, ReadWatch(r) PROVE Copies
  BY <1>4 DEF ReadWatch, PruneExpired, Uses, Numbered, Typed, TypeOK
<1>5. ASSUME NEW r \in Radars, Plan(r) PROVE Copies
  <2>1. PICK free \in SUBSET PruneExpired(snap[r], tickNow[r]) : snap' = [snap EXCEPT ![r] = free]
    BY <1>5, PlanEffect
  <2>2. free \subseteq snap[r]
    BY <2>1 DEF PruneExpired
  <2> QED BY <1>5, <2>1, <2>2 DEF Plan, Uses, Numbered, Typed, TypeOK
<1>6. ASSUME NEW r \in Radars, PlaceTP(r) \/ PlaceDry(r) PROVE Copies
  <2>1. /\ UNCHANGED <<arms, watch, arming>>
        /\ snap' = [snap EXCEPT ![r] = RemoveSetup(@, cur[r].id)]
    BY <1>6 DEF PlaceTP, PlaceDry
  <2> QED BY <2>1 DEF RemoveSetup, Uses, Numbered, Typed, TypeOK
<1>7. ASSUME NEW r \in Radars, WriteWatch(r) \/ Crash(r) PROVE Copies
  <2>1. /\ watch' = watch \/ watch' = snap[r] \/ watch' = {}
        /\ UNCHANGED <<arms, arming>>
        /\ snap' = [snap EXCEPT ![r] = {}]
    BY <1>7 DEF WriteWatch, Written, Crash
  <2>2. Uses({})
    BY DEF Uses
  <2> QED BY <2>1, <2>2 DEF Numbered, Typed, TypeOK
<1>8. ASSUME UNCHANGED <<arms, watch, snap, arming>> PROVE Copies
  BY <1>8 DEF Numbered
<1> HIDE DEF Copies
<1>9. Copies
  BY <1>2, <1>3, <1>4, <1>5, <1>6, <1>7, <1>8, <1>10, <1>11, CopiesStay
<1> QED BY <1>1, <1>9 DEF Numbered, Copies

LEMMA InCopyNext == Typed /\ Numbered /\ InCopy /\ Fresh /\ [Next]_vars => InCopy'
<1> SUFFICES ASSUME Typed, Numbered, InCopy, Fresh, [Next]_vars PROVE InCopy'
  OBVIOUS
<1>1. ASSUME NEW r \in Radars, ReadWatch(r) PROVE InCopy'
  BY <1>1 DEF ReadWatch, InCopy, Fresh, Typed, TypeOK
<1>2. ASSUME NEW r \in Radars, Plan(r) PROVE InCopy'
  <2>1. PICK free \in SUBSET PruneExpired(snap[r], tickNow[r]) : \E posted \in SUBSET free :
          todo' = [todo EXCEPT ![r] = posted] /\ snap' = [snap EXCEPT ![r] = free]
    BY <1>2, PlanEffect
  <2> QED BY <1>2, <2>1 DEF Plan, InCopy, Typed, TypeOK
<1>3. ASSUME NEW r \in Radars, PreflightKO(r) \/ PreflightOK(r) PROVE InCopy'
  <2>1. CASE PreflightKO(r)
    BY <2>1 DEF PreflightKO, InCopy, Typed, TypeOK
  <2>2. CASE PreflightOK(r)
    <3>1. PICK s \in todo[r] : todo' = [todo EXCEPT ![r] = @ \ {s}] /\ cur' = [cur EXCEPT ![r] = s]
      BY <2>2 DEF PreflightOK
    <3> QED BY <2>2, <3>1 DEF PreflightOK, InCopy, Typed, TypeOK
  <2> QED BY <1>3, <2>1, <2>2
<1>4. ASSUME NEW r \in Radars,
             PlaceEntry(r) \/ PlaceSL(r) \/ PlaceRefused(r) \/ PlaceBroken(r)
      PROVE  InCopy'
  BY <1>4 DEF PlaceEntry, PlaceSL, PlaceRefused, PlaceBroken, Release, InCopy, Typed, TypeOK
<1>5. ASSUME NEW r \in Radars, PlaceTP(r) PROVE InCopy'
  <2>1. \A s \in todo[r] : s \in snap[r] /\ s.id # cur[r].id
    BY <1>5 DEF PlaceTP, InCopy, Numbered, Uses
  <2> QED BY <1>5, <2>1 DEF PlaceTP, RemoveSetup, InCopy, Typed, TypeOK
<1>8. ASSUME NEW r \in Radars, PlaceDry(r) PROVE InCopy'
  <2>1. \A s \in todo[r] : s \in snap[r] /\ s.id # cur[r].id
    BY <1>8 DEF PlaceDry, InCopy, Numbered, Uses
  <2> QED BY <1>8, <2>1 DEF PlaceDry, Release, RemoveSetup, InCopy, Typed, TypeOK
<1>6. ASSUME NEW r \in Radars, LogTrade(r) \/ LogFails(r) \/ WriteWatch(r) \/ Crash(r)
      PROVE  InCopy'
  BY <1>6 DEF LogTrade, LogFails, WriteWatch, Crash, Release, Fresh, InCopy, Typed, TypeOK
<1>9. ASSUME NEW r \in Radars, TruncateWatch(r) PROVE InCopy'
  BY <1>9 DEF TruncateWatch, InCopy, Typed, TypeOK
<1>7. ASSUME UNCHANGED <<pc, snap, todo, cur>> PROVE InCopy'
  BY <1>7 DEF InCopy
<1> QED
  BY <1>1, <1>2, <1>3, <1>4, <1>5, <1>6, <1>7, <1>8, <1>9
  DEF Next, TickStep, ArmStep, ArmRead, ArmTruncate, ArmWrite, ArmCrash, EntryFills, PositionEnds,
      TimePasses, localVars, vars

\* An actor that starts and records no overlap finds everybody at rest.
LEMMA StartsAlone ==
  ASSUME NoteStart, "overlap" \notin disturbed'
  PROVE  arming = {} /\ \A r \in Radars : pc[r] = "idle"
BY DEF NoteStart, Busy

LEMMA AloneNext ==
  Typed /\ Numbered /\ InCopy /\ Alone /\ [Next]_vars => Alone'
<1> SUFFICES ASSUME Typed, Numbered, InCopy, Alone, [Next]_vars, "overlap" \notin disturbed'
             PROVE  Alone'
  BY DEF Alone
<1>0. /\ \A q, r \in Radars : pc[q] # "idle" /\ pc[r] # "idle" => q = r
      /\ \A a, b \in arming : a = b
      /\ arming # {} => \A r \in Radars : pc[r] = "idle"
      /\ \A a \in arming : /\ IF a.open THEN watch = {} ELSE a.snap = watch
                           /\ \A b \in DOMAIN brackets : brackets[b].id < a.n
      /\ \A r \in Radars : pc[r] # "idle" => \A s \in watch : s \in snap[r] \/ s.id \in settled
      /\ \A r \in Radars : pc[r] = "write" => watch = {}
  BY DisturbedGrows DEF Alone
<1> DEFINE OneTick == \A q, r \in Radars : pc'[q] # "idle" /\ pc'[r] # "idle" => q = r
           OneArm == \A a, b \in arming' : a = b
           NotBoth == arming' # {} => \A r \in Radars : pc'[r] = "idle"
           Current == \A a \in arming' : /\ IF a.open THEN watch' = {} ELSE a.snap = watch'
                                         /\ \A b \in DOMAIN brackets' : brackets'[b].id < a.n
           Kept == \A r \in Radars : pc'[r] # "idle" => \A s \in watch' : s \in snap'[r] \/ s.id \in settled'
           Emptied == \A r \in Radars : pc'[r] = "write" => watch' = {}
           All == OneTick /\ OneArm /\ NotBoth /\ Current /\ Kept /\ Emptied
<1>1. ASSUME NEW k \in Keys, ArmRead(k) PROVE All
  <2>1. \A r \in Radars : pc'[r] = "idle"
    BY <1>1, StartsAlone DEF ArmRead, localVars
  <2>2. /\ arming' = {[key |-> k, snap |-> watch, at |-> now, n |-> arms + 1, open |-> FALSE]}
        /\ UNCHANGED <<watch, brackets>>
    BY <1>1 DEF ArmRead
  <2>3. \A b \in DOMAIN brackets : brackets[b].id < arms + 1
    BY BracketsTyped DEF Numbered, Typed, TypeOK
  <2> QED BY <2>1, <2>2, <2>3
<1>2. ASSUME ArmWrite \/ ArmCrash PROVE All
  <2>1. arming' = {} /\ \A r \in Radars : pc'[r] = "idle"
    BY <1>0, <1>2 DEF ArmWrite, ArmCrash, localVars
  <2> QED BY <2>1
<1>14. ASSUME ArmTruncate PROVE All
  <2>1. PICK a \in arming : /\ watch' = {}
                            /\ arming' = {[a EXCEPT !.open = TRUE]}
                            /\ UNCHANGED <<pc, brackets>>
    BY <1>14 DEF ArmTruncate, localVars
  <2>2. [a EXCEPT !.open = TRUE].open /\ [a EXCEPT !.open = TRUE].n = a.n
    BY DEF Typed, TypeOK
  <2>3. \A r \in Radars : pc'[r] = "idle"
    BY <1>0, <2>1
  <2> QED BY <1>0, <2>1, <2>2, <2>3
<1>3. ASSUME NEW r \in Radars, ReadWatch(r) PROVE All
  <2>1. arming' = {} /\ \A q \in Radars : q # r => pc'[q] = "idle"
    BY <1>3, StartsAlone DEF ReadWatch, Typed, TypeOK
  <2>2. \A s \in watch' : s \in snap'[r] \/ s.id \in settled'
    BY <1>3 DEF ReadWatch, Ids, Typed, TypeOK
  <2>3. pc'[r] = "keys"
    BY <1>3 DEF ReadWatch, Typed, TypeOK
  <2> QED BY <2>1, <2>2, <2>3
<1>4. ASSUME NEW r \in Radars, pc[r] # "idle", UNCHANGED <<watch, arming>>,
             \A q \in Radars : q # r => pc'[q] = pc[q] /\ snap'[q] = snap[q],
             \A s \in snap[r] : s \in snap'[r] \/ s.id \in settled',
             settled \subseteq settled', pc'[r] # "write"
      PROVE  All
  BY <1>0, <1>4
<1>5. ASSUME NEW r \in Radars, Plan(r) PROVE All
  <2>1. PICK free \in SUBSET PruneExpired(snap[r], tickNow[r]) :
          snap' = [snap EXCEPT ![r] = free] /\ settled' = settled \cup Ids(snap[r] \ free)
    BY <1>5, PlanEffect
  <2>2. \A s \in snap[r] : s \in snap'[r] \/ s.id \in settled'
    BY <2>1 DEF Ids, Typed, TypeOK
  <2>3. /\ pc[r] # "idle" /\ pc'[r] # "write"
        /\ UNCHANGED <<watch, arming>> /\ settled \subseteq settled'
    BY <1>5, <2>1 DEF Plan, Typed, TypeOK
  <2>4. \A q \in Radars : q # r => pc'[q] = pc[q] /\ snap'[q] = snap[q]
    BY <1>5, <2>1 DEF Plan, Typed, TypeOK
  <2> QED BY <1>4, <2>2, <2>3, <2>4
<1>6. ASSUME NEW r \in Radars, PlaceTP(r) PROVE All
  <2>1. \A s \in snap[r] : s \in snap'[r] \/ s.id \in settled'
    BY <1>6 DEF PlaceTP, RemoveSetup, Typed, TypeOK
  <2>2. /\ pc[r] # "idle" /\ UNCHANGED <<watch, arming>> /\ settled \subseteq settled'
        /\ \A q \in Radars : q # r => pc'[q] = pc[q] /\ snap'[q] = snap[q]
        /\ pc'[r] # "write"
    BY <1>6 DEF PlaceTP, Typed, TypeOK
  <2> QED BY <1>4, <2>1, <2>2
<1>13. ASSUME NEW r \in Radars, PlaceDry(r) PROVE All
  <2>1. \A s \in snap[r] : s \in snap'[r] \/ s.id \in settled'
    BY <1>13 DEF PlaceDry, RemoveSetup, Typed, TypeOK
  <2>2. /\ pc[r] # "idle" /\ UNCHANGED <<watch, arming>> /\ settled \subseteq settled'
        /\ \A q \in Radars : q # r => pc'[q] = pc[q] /\ snap'[q] = snap[q]
        /\ pc'[r] # "write"
    BY <1>13 DEF PlaceDry, Typed, TypeOK
  <2> QED BY <1>4, <2>1, <2>2
<1>7. ASSUME NEW r \in Radars,
             \/ PreflightOK(r) \/ PreflightKO(r) \/ PlaceEntry(r) \/ PlaceSL(r) \/ PlaceRefused(r)
             \/ PlaceBroken(r) \/ LogTrade(r) \/ LogFails(r)
      PROVE  All
  <2>1. /\ pc[r] # "idle" /\ UNCHANGED <<watch, arming, snap, settled>>
        /\ \A q \in Radars : q # r => pc'[q] = pc[q]
        /\ pc'[r] # "write"
    BY <1>7 DEF PreflightKO, PreflightOK, PlaceEntry, PlaceSL, PlaceRefused, PlaceBroken, LogTrade,
       LogFails, Release, Typed, TypeOK
  <2> QED BY <1>4, <2>1
<1>8. ASSUME NEW r \in Radars, WriteWatch(r) \/ Crash(r) PROVE All
  <2>1. /\ pc[r] # "idle" /\ UNCHANGED arming /\ pc'[r] = "idle"
        /\ \A q \in Radars : q # r => pc'[q] = pc[q]
    BY <1>8 DEF WriteWatch, Crash, Typed, TypeOK
  <2>2. arming' = {} /\ \A q \in Radars : pc'[q] = "idle"
    BY <1>0, <2>1
  <2> QED BY <2>2
<1>15. ASSUME NEW r \in Radars, TruncateWatch(r) PROVE All
  <2>1. /\ pc[r] # "idle" /\ UNCHANGED arming /\ watch' = {}
        /\ \A q \in Radars : q # r => pc'[q] = pc[q]
    BY <1>15 DEF TruncateWatch, Typed, TypeOK
  <2>2. arming' = {} /\ \A q \in Radars : q # r => pc'[q] = "idle"
    BY <1>0, <2>1
  <2> QED BY <2>1, <2>2
<1>9. ASSUME UNCHANGED <<watch, arming, pc, snap, settled>>,
             DOMAIN brackets' = DOMAIN brackets,
             \A b \in DOMAIN brackets : brackets'[b].id = brackets[b].id
      PROVE  All
  BY <1>0, <1>9
<1>10. ASSUME NEW b \in DOMAIN brackets, EntryFills(b) \/ PositionEnds(b) PROVE All
  <2>1. UNCHANGED <<watch, arming, pc, snap, settled>>
    BY <1>10 DEF EntryFills, PositionEnds, localVars
  <2>2. /\ DOMAIN brackets' = DOMAIN brackets
        /\ \A x \in DOMAIN brackets : brackets'[x].id = brackets[x].id
    BY <1>10, SameButPhase DEF EntryFills, PositionEnds, Typed, TypeOK
  <2> QED BY <1>9, <2>1, <2>2
<1>11. ASSUME TimePasses \/ UNCHANGED vars PROVE All
  BY <1>9, <1>11 DEF TimePasses, localVars, vars
<1> HIDE DEF All
<1>12. All
  BY <1>1, <1>2, <1>3, <1>5, <1>6, <1>7, <1>8, <1>10, <1>11, <1>13, <1>14, <1>15
  DEF Next, TickStep, ArmStep
<1> QED BY <1>12 DEF All, Alone

LEMMA OnceNext ==
  Typed /\ OnePerKey /\ Numbered /\ InCopy /\ Alone /\ Once /\ [Next]_vars => Once'
<1> SUFFICES ASSUME Typed, OnePerKey, Numbered, InCopy, Alone, Once, [Next]_vars,
                    Undisturbed({"overlap", "crash", "order"})'
             PROVE  Once'
  BY DEF Once
<1> DEFINE Clear(w) == \A b \in DOMAIN brackets : brackets[b].id \notin Ids(w)
           Distinct == \A a, b \in DOMAIN brackets : brackets[a].id = brackets[b].id => a = b
           Rest == (\A r \in Radars : pc[r] = "idle") => Clear(watch)
           Copies == \A a \in arming : Clear(a.snap)
           Before(r) == pc[r] \in {"keys", "decide", "entry", "log", "write"} => Clear(snap[r])
           During(r) == pc[r] \in {"sl", "tp"} =>
                          /\ brackets[mine[r]].id = cur[r].id
                          /\ \A b \in DOMAIN brackets : brackets[b].id \in Ids(snap[r]) => b = mine[r]
           All == Distinct /\ Rest /\ Copies /\ \A r \in Radars : Before(r) /\ During(r)
<1>0. /\ Distinct /\ Rest /\ Copies
      /\ \A r \in Radars : Before(r) /\ During(r)
      /\ "overlap" \notin disturbed /\ "overlap" \notin disturbed'
      /\ "crash" \notin disturbed' /\ "order" \notin disturbed'
  BY DisturbedGrows DEF Once, Undisturbed
<1>a. /\ \A q, r \in Radars : pc[q] # "idle" /\ pc[r] # "idle" => q = r
      /\ arming # {} => \A r \in Radars : pc[r] = "idle"
      /\ \A a \in arming : \A b \in DOMAIN brackets : brackets[b].id < a.n
  BY <1>0 DEF Alone
<1>s. ASSUME DOMAIN brackets' = DOMAIN brackets,
             \A b \in DOMAIN brackets : brackets'[b].id = brackets[b].id,
             UNCHANGED <<watch, arming, pc, snap, cur, mine>>
      PROVE  All'
  <2>1. \A r \in Radars : pc[r] \in {"sl", "tp"} => brackets'[mine[r]].id = cur[r].id
    BY <1>0, <1>s DEF Typed, HandsOK
  <2> QED BY <1>0, <1>s, <2>1
\* r is the only tick at work, before and after.
<1>o. ASSUME NEW r \in Radars, pc[r] # "idle", pc'[r] # "idle",
             \A q \in Radars : q # r => pc'[q] = pc[q], UNCHANGED arming,
             Distinct', Before(r)', During(r)'
      PROVE  All'
  <2>1. arming' = {} /\ \A q \in Radars : q # r => pc'[q] = "idle"
    BY <1>a, <1>o
  <2> QED BY <1>o, <2>1
<1>1. ASSUME NEW k \in Keys, ArmRead(k) PROVE All'
  <2>1. /\ arming' = {[key |-> k, snap |-> watch, at |-> now, n |-> arms + 1, open |-> FALSE]}
        /\ UNCHANGED <<watch, brackets, pc, snap, cur, mine>>
        /\ \A r \in Radars : pc[r] = "idle"
    BY <1>0, <1>1, StartsAlone DEF ArmRead, localVars
  <2> QED BY <1>0, <2>1
<1>2. ASSUME ArmWrite PROVE All'
  <2>1. PICK a \in arming : watch' \in Written(ArmInto(a.snap, a.key, a.n, a.at)) /\ arming' = {}
    BY <1>2 DEF ArmWrite
  <2>2. /\ UNCHANGED <<brackets, pc, snap, cur, mine>>
        /\ \A r \in Radars : pc[r] = "idle"
    BY <1>2, <1>a, <2>1 DEF ArmWrite, localVars
  <2>3. /\ a.snap \in SUBSET Setup /\ a.n \in Nat
        /\ UniqueKeys(a.snap) /\ Uses(a.snap)
        /\ \A s \in a.snap : s.id < a.n /\ s.rev < a.n
    BY DEF Typed, TypeOK, OnePerKey, Numbered
  <2>4. Ids(watch') \subseteq Ids(a.snap) \cup {a.n}
    <3>1. Ids(ArmInto(a.snap, a.key, a.n, a.at)) \subseteq Ids(a.snap) \cup {a.n}
      BY <2>3, ArmIntoNumbers
    <3> QED BY <2>1, <3>1 DEF Written, Ids
  <2>5. \A b \in DOMAIN brackets : brackets[b].id \notin Ids(watch')
    BY <1>0, <1>a, <2>2, <2>3, <2>4, BracketsTyped
  <2> QED BY <1>0, <2>1, <2>2, <2>5
<1>13. ASSUME ArmTruncate PROVE All'
  <2>1. PICK a \in arming : /\ watch' = {}
                            /\ arming' = {[a EXCEPT !.open = TRUE]}
                            /\ UNCHANGED <<pc, brackets, snap, cur, mine>>
    BY <1>13 DEF ArmTruncate, localVars
  <2>2. [a EXCEPT !.open = TRUE].snap = a.snap
    BY DEF Typed, TypeOK
  <2>3. Ids(watch') = {}
    BY <2>1 DEF Ids
  <2> QED BY <1>0, <2>1, <2>2, <2>3
<1>3. ASSUME NEW r \in Radars, ReadWatch(r) PROVE All'
  <2>1. \A q \in Radars : pc[q] = "idle" /\ (q # r => pc'[q] = "idle")
    BY <1>0, <1>3, StartsAlone DEF ReadWatch, Typed, TypeOK
  <2>2. /\ Ids(snap'[r]) \subseteq Ids(watch) /\ brackets' = brackets /\ pc'[r] = "keys"
        /\ arming' = {}
    BY <1>0, <1>3, StartsAlone DEF ReadWatch, PruneExpired, Ids, Typed, TypeOK
  <2>3. Clear(watch)
    BY <1>0, <2>1
  <2>4. Distinct' /\ Before(r)' /\ During(r)' /\ Rest' /\ Copies'
    BY <1>0, <2>2, <2>3
  <2>5. \A q \in Radars : q # r => Before(q)' /\ During(q)'
    BY <2>1
  <2> QED BY <2>4, <2>5
<1>4. ASSUME NEW r \in Radars,
             \/ Plan(r) \/ PreflightKO(r) \/ PreflightOK(r) \/ PlaceDry(r) \/ PlaceRefused(r)
             \/ LogTrade(r) \/ LogFails(r)
      PROVE  All'
  <2>1. /\ pc[r] \in {"keys", "decide", "entry", "log"} /\ pc'[r] \in {"decide", "entry"}
        /\ \A q \in Radars : q # r => pc'[q] = pc[q]
        /\ brackets' = brackets /\ arming' = arming
    BY <1>4 DEF Plan, PreflightKO, PreflightOK, PlaceDry, PlaceRefused, LogTrade, LogFails, Typed, TypeOK
  <2>2. snap'[r] \subseteq snap[r]
    <3>1. CASE Plan(r)
      BY <3>1, PlanEffect DEF PruneExpired, Typed, TypeOK
    <3>2. CASE PlaceDry(r)
      BY <3>2 DEF PlaceDry, RemoveSetup, Typed, TypeOK
    <3> QED BY <1>4, <3>1, <3>2 DEF PreflightKO, PreflightOK, PlaceRefused, LogTrade, LogFails
  <2>3. Clear(snap'[r])
    BY <1>0, <2>1, <2>2 DEF Ids
  <2> QED BY <1>0, <1>o, <2>1, <2>3
<1>5. ASSUME NEW r \in Radars, PlaceEntry(r) PROVE All'
  <2>1. /\ DOMAIN brackets' = DOMAIN brackets \cup {Len(brackets) + 1}
        /\ Len(brackets) + 1 \notin DOMAIN brackets
        /\ brackets'[Len(brackets) + 1].id = cur[r].id
        /\ \A b \in DOMAIN brackets : brackets'[b] = brackets[b]
        /\ cur[r] \in snap[r]
    BY <1>5, EntryType DEF PlaceEntry, Typed, HandsOK, InCopy
  <2>2. /\ pc[r] = "entry" /\ pc'[r] = "sl" /\ UNCHANGED <<arming, cur, snap>>
        /\ mine'[r] = Len(brackets) + 1
        /\ \A q \in Radars : q # r => pc'[q] = pc[q]
    BY <1>5 DEF PlaceEntry, Typed, TypeOK
  <2>3. Clear(snap[r]) /\ cur[r].id \in Ids(snap[r])
    BY <1>0, <2>1, <2>2 DEF Ids
  <2>4. Distinct'
    BY <1>0, <2>1, <2>3
  <2>5. During(r)'
    BY <2>1, <2>2, <2>3
  <2> QED BY <1>o, <2>2, <2>4, <2>5
<1>6. ASSUME NEW r \in Radars, PlaceSL(r) PROVE All'
  <2>1. /\ DOMAIN brackets' = DOMAIN brackets
        /\ \A b \in DOMAIN brackets : brackets'[b].id = brackets[b].id
    BY <1>6, SameButSL DEF PlaceSL, Typed, TypeOK
  <2>2. /\ pc[r] = "sl" /\ pc'[r] = "tp" /\ UNCHANGED <<arming, cur, snap, mine>>
        /\ \A q \in Radars : q # r => pc'[q] = pc[q]
        /\ mine[r] \in DOMAIN brackets
    BY <1>6 DEF PlaceSL, Typed, TypeOK, HandsOK
  <2> QED BY <1>0, <1>o, <2>1, <2>2
<1>7. ASSUME NEW r \in Radars, PlaceTP(r) PROVE All'
  <2>1. /\ DOMAIN brackets' = DOMAIN brackets
        /\ \A b \in DOMAIN brackets : brackets'[b].id = brackets[b].id
    BY <1>7, SameButTP DEF PlaceTP, Typed, TypeOK
  <2>2. /\ pc[r] = "tp" /\ pc'[r] = "log" /\ UNCHANGED arming
        /\ snap'[r] = RemoveSetup(snap[r], cur[r].id)
        /\ \A q \in Radars : q # r => pc'[q] = pc[q]
    BY <1>7 DEF PlaceTP, Typed, TypeOK
  <2>3. \A b \in DOMAIN brackets : brackets[b].id \notin Ids(snap'[r])
    BY <1>0, <2>2 DEF RemoveSetup, Ids
  <2> QED BY <1>0, <1>o, <2>1, <2>2, <2>3
<1>8. ASSUME ArmCrash \/ \E r \in Radars : PlaceBroken(r) \/ Crash(r) PROVE FALSE
  BY <1>0, <1>8 DEF PlaceBroken, ArmCrash, Crash, Kill, Disturb
<1>9. ASSUME NEW r \in Radars, WriteWatch(r) PROVE All'
  <2>1. /\ pc[r] = "write" /\ pc'[r] = "idle" /\ watch' \in {snap[r], {}} /\ brackets' = brackets
        /\ UNCHANGED arming
        /\ \A q \in Radars : q # r => pc'[q] = pc[q]
    BY <1>9 DEF WriteWatch, Written, Typed, TypeOK
  <2>2. arming = {} /\ \A q \in Radars : pc'[q] = "idle"
    BY <1>a, <2>1
  <2>3. Clear(snap[r]) /\ Clear({})
    BY <1>0, <2>1 DEF Ids
  <2> QED BY <1>0, <2>1, <2>2, <2>3
<1>14. ASSUME NEW r \in Radars, TruncateWatch(r) PROVE All'
  <2>1. /\ pc[r] = "decide" /\ pc'[r] = "write" /\ UNCHANGED <<brackets, snap, arming>>
        /\ \A q \in Radars : q # r => pc'[q] = pc[q]
    BY <1>14 DEF TruncateWatch, Typed, TypeOK
  <2>2. Clear(snap'[r]) /\ Distinct'
    BY <1>0, <2>1
  <2> QED BY <1>o, <2>1, <2>2
<1>10. ASSUME NEW b \in DOMAIN brackets, EntryFills(b) \/ PositionEnds(b) PROVE All'
  <2>1. UNCHANGED <<watch, arming, pc, snap, cur, mine>>
    BY <1>10 DEF EntryFills, PositionEnds, localVars
  <2>2. /\ DOMAIN brackets' = DOMAIN brackets
        /\ \A x \in DOMAIN brackets : brackets'[x].id = brackets[x].id
    BY <1>10, SameButPhase DEF EntryFills, PositionEnds, Typed, TypeOK
  <2> QED BY <1>s, <2>1, <2>2
<1>11. ASSUME TimePasses \/ UNCHANGED vars PROVE All'
  BY <1>s, <1>11 DEF TimePasses, localVars, vars
<1>12. All'
  <2> HIDE DEF All
  <2> QED
    BY <1>1, <1>2, <1>3, <1>4, <1>5, <1>6, <1>7, <1>8, <1>9, <1>10, <1>11, <1>13, <1>14
    DEF Next, TickStep, ArmStep
<1> QED BY <1>12 DEF Once

LEMMA RoomNext ==
  Typed /\ Alone /\ Room /\ [Next]_vars => Room'
<1> DEFINE Placing == {"sl", "tp", "log"}
<1> SUFFICES ASSUME Typed, Alone, Room, [Next]_vars, ~DemoActive, disturbed' = {}
             PROVE  Room'
  BY DEF Room
<1> DEFINE Quota(r) == pc[r] \in {"entry", "sl", "tp", "log"} => Cardinality(journal) < MaxPerDay
           InHand(r) == pc[r] \in Placing => /\ Len(brackets) = Cardinality(journal) + 1
                                             /\ mine[r] \notin journal
           None == (\A r \in Radars : pc[r] \notin Placing) => Len(brackets) = Cardinality(journal)
           Known == journal \subseteq DOMAIN brackets /\ Cardinality(journal) <= MaxPerDay
           All == None /\ Known /\ \A r \in Radars : Quota(r) /\ InHand(r)
<1>0. All /\ disturbed = {}
  BY DisturbedGrows DEF Room
<1>a. \A q, r \in Radars : pc[q] # "idle" /\ pc[r] # "idle" => q = r
  BY <1>0 DEF Alone
<1>b. /\ Len(brackets) \in Nat /\ DOMAIN brackets = 1..Len(brackets)
      /\ IsFiniteSet(journal) /\ Cardinality(journal) \in Nat
  <2>1. Len(brackets) \in Nat /\ DOMAIN brackets = 1..Len(brackets)
    BY DEF Typed, TypeOK
  <2>2. IsFiniteSet(1..Len(brackets))
    BY <2>1, FS_Interval
  <2>3. IsFiniteSet(journal)
    BY <1>0, <2>1, <2>2, FS_Subset
  <2> QED BY <2>1, <2>3, FS_CardinalityType
\* A step of r that neither adds a bracket nor logs one.
<1>o. ASSUME NEW r \in Radars, \A q \in Radars : q # r => pc'[q] = pc[q] /\ mine'[q] = mine[q],
             Len(brackets') = Len(brackets), DOMAIN brackets' = DOMAIN brackets,
             journal' = journal,
             pc'[r] \in Placing <=> pc[r] \in Placing,
             pc[r] \in Placing => mine'[r] = mine[r],
             pc'[r] = "entry" => Cardinality(journal) < MaxPerDay
      PROVE  All'
  BY <1>0, <1>o
<1>1. ASSUME NEW r \in Radars,
             \/ ReadWatch(r) \/ Plan(r) \/ PreflightKO(r) \/ PlaceDry(r) \/ PlaceRefused(r)
             \/ TruncateWatch(r) \/ WriteWatch(r)
      PROVE  All'
  <2>1. /\ UNCHANGED <<brackets, journal>>
        /\ pc[r] \notin Placing /\ pc'[r] \notin Placing \cup {"entry"}
        /\ \A q \in Radars : q # r => pc'[q] = pc[q] /\ mine'[q] = mine[q]
    BY <1>1 DEF ReadWatch, Plan, PreflightKO, PlaceDry, PlaceRefused, TruncateWatch, WriteWatch, Release,
       Typed, TypeOK
  <2> QED BY <1>o, <2>1
<1>2. ASSUME NEW r \in Radars, PreflightOK(r) PROVE All'
  <2>1. Cardinality(journal) < MaxPerDay
    BY <1>2, <1>b, ConstantsAssumption DEF PreflightOK, QuotaReached
  <2>2. /\ UNCHANGED <<brackets, journal, mine>>
        /\ pc[r] = "decide" /\ pc'[r] = "entry"
        /\ \A q \in Radars : q # r => pc'[q] = pc[q]
    BY <1>2 DEF PreflightOK, Typed, TypeOK
  <2> QED BY <1>o, <2>1, <2>2
<1>3. ASSUME NEW r \in Radars, PlaceEntry(r) PROVE All'
  <2>1. /\ DOMAIN brackets' = DOMAIN brackets \cup {Len(brackets) + 1}
        /\ Len(brackets) + 1 \notin DOMAIN brackets
        /\ Len(brackets') = Len(brackets) + 1
    <3>1. brackets' \in Seq(Bracket) /\ DOMAIN brackets' = DOMAIN brackets \cup {Len(brackets) + 1}
      BY <1>3, EntryType DEF PlaceEntry, Typed, HandsOK
    <3>2. Len(brackets') = Len(brackets) + 1
      BY <1>3 DEF PlaceEntry, EntryAccepted, Typed, TypeOK
    <3> QED BY <1>b, <3>1, <3>2
  <2>2. /\ UNCHANGED journal
        /\ pc[r] = "entry" /\ pc'[r] = "sl" /\ mine'[r] = Len(brackets) + 1
        /\ \A q \in Radars : q # r => pc'[q] = pc[q] /\ mine'[q] = mine[q]
    BY <1>3 DEF PlaceEntry, Typed, TypeOK
  <2>3. \A q \in Radars : q # r => pc[q] = "idle"
    BY <1>a, <2>2
  <2>4. Len(brackets) = Cardinality(journal) /\ Cardinality(journal) < MaxPerDay
    BY <1>0, <2>2, <2>3
  <2> QED BY <1>0, <2>1, <2>2, <2>3, <2>4
<1>4. ASSUME NEW r \in Radars, PlaceSL(r) \/ PlaceTP(r) PROVE All'
  <2>1. Len(brackets') = Len(brackets) /\ DOMAIN brackets' = DOMAIN brackets /\ journal' = journal
    BY <1>4 DEF PlaceSL, PlaceTP, Typed, TypeOK
  <2>2. /\ pc[r] \in Placing /\ pc'[r] \in Placing /\ UNCHANGED mine
        /\ \A q \in Radars : q # r => pc'[q] = pc[q]
    BY <1>4 DEF PlaceSL, PlaceTP, Typed, TypeOK
  <2> QED BY <1>o, <2>1, <2>2
<1>5. ASSUME NEW r \in Radars, LogTrade(r) PROVE All'
  <2>1. /\ UNCHANGED brackets /\ journal' = journal \cup {mine[r]}
        /\ pc[r] = "log" /\ pc'[r] = "decide"
        /\ \A q \in Radars : q # r => pc'[q] = pc[q]
    BY <1>5 DEF LogTrade, Typed, TypeOK
  <2>2. mine[r] \in DOMAIN brackets /\ mine[r] \notin journal
    BY <1>0, <2>1 DEF Typed, HandsOK
  <2>3. Cardinality(journal') = Cardinality(journal) + 1
    BY <1>b, <2>1, <2>2, FS_AddElement
  <2>4. \A q \in Radars : pc'[q] \notin Placing \cup {"entry"}
    BY <1>a, <2>1
  <2>5. Cardinality(journal) < MaxPerDay
    BY <1>0, <2>1
  <2>6. Len(brackets) = Cardinality(journal) + 1
    BY <1>0, <2>1
  <2>7. None'
    BY <2>1, <2>3, <2>6
  <2>8. Known'
    BY <1>0, <1>b, <2>1, <2>2, <2>3, <2>5, ConstantsAssumption
  <2>9. \A q \in Radars : Quota(q)' /\ InHand(q)'
    BY <2>4
  <2> QED BY <2>7, <2>8, <2>9
<1>6. ASSUME NEW r \in Radars, PlaceBroken(r) \/ LogFails(r) \/ Crash(r) PROVE FALSE
  BY <1>6 DEF PlaceBroken, LogFails, Crash, Kill, Disturb
<1>7. ASSUME NEW b \in DOMAIN brackets, EntryFills(b) \/ PositionEnds(b) PROVE All'
  <2>1. /\ UNCHANGED <<journal, pc, mine>>
        /\ Len(brackets') = Len(brackets) /\ DOMAIN brackets' = DOMAIN brackets
    BY <1>7 DEF EntryFills, PositionEnds, localVars, Typed, TypeOK
  <2> QED BY <1>0, <2>1
<1>8. ASSUME UNCHANGED <<brackets, journal, pc, mine>> PROVE All'
  BY <1>0, <1>8
<1>9. ASSUME NEW k \in Keys, ArmRead(k) PROVE All'
  BY <1>8, <1>9 DEF ArmRead, localVars
<1>10. ASSUME ArmStep \/ ArmCrash \/ TimePasses \/ UNCHANGED vars PROVE All'
  BY <1>8, <1>10 DEF ArmStep, ArmTruncate, ArmWrite, ArmCrash, TimePasses, localVars, vars
<1>11. All'
  <2> HIDE DEF All
  <2> QED
    BY <1>1, <1>2, <1>3, <1>4, <1>5, <1>6, <1>7, <1>9, <1>10 DEF Next, TickStep
<1> QED BY <1>11 DEF Room

-----------------------------------------------------------------------------
\* All of it: the inductive invariant of EntryRadar.
IndInv == Typed /\ OnePerKey /\ Fresh /\ Numbered /\ InCopy /\ Alone /\ Once /\ Room

LEMMA IndInit == Init => IndInv
<1> SUFFICES ASSUME Init PROVE IndInv
  OBVIOUS
<1>1. Typed
  BY TypedInit
<1>2. Cardinality(journal) = 0 /\ Len(brackets) = 0
  BY FS_EmptySet DEF Init
<1>3. Room
  BY <1>2, ConstantsAssumption DEF Init, Room
<1>4. OnePerKey /\ Fresh /\ Numbered /\ InCopy /\ Alone /\ Once
  BY DEF Init, OnePerKey, UniqueKeys, Fresh, Numbered, Uses, InCopy, Alone, Once, Ids
<1> QED BY <1>1, <1>3, <1>4 DEF IndInv

\* The inductive invariant holds of every run: where the copies of an intention
\* may be, in the file and in the hands of the processes, and which brackets
\* may bear its id.
THEOREM Inductive == Spec => []IndInv
<1>1. IndInv /\ [Next]_vars => IndInv'
  BY TypedNext, OnePerKeyNext, FreshNext, NumberedNext, InCopyNext, AloneNext, OnceNext, RoomNext
  DEF IndInv
<1> QED BY IndInit, <1>1, PTL DEF Spec

\* The radar's idempotence for every number of keys, commands and ticks: with
\* no overlap, no kill and no broken placement, one bracket per intention,
\* although the account lookup may show nothing at all.
THEOREM Idempotence == Spec => []IdempotentUnlessDisturbed
<1>1. IndInv => IdempotentUnlessDisturbed
  BY DEF IndInv, Once, IdempotentUnlessDisturbed
<1> QED BY Inductive, <1>1, PTL

\* The daily quota of the strict mode bounds the brackets on the exchange.
THEOREM Quota == Spec => []QuotaUnlessDisturbed
<1>1. IndInv => QuotaUnlessDisturbed
  <2> SUFFICES ASSUME IndInv, ~DemoActive, disturbed = {} PROVE Len(brackets) <= MaxPerDay
    BY DEF QuotaUnlessDisturbed
  <2>1. Room
    BY DEF IndInv
  <2>2. Cardinality(journal) \in Nat
    <3>1. IsFiniteSet(1..Len(brackets)) /\ journal \subseteq 1..Len(brackets)
      BY <2>1, FS_Interval DEF IndInv, Typed, TypeOK, Room
    <3> QED BY <3>1, FS_Subset, FS_CardinalityType
  <2>3. CASE \E r \in Radars : pc[r] \in {"sl", "tp", "log"}
    BY <2>1, <2>2, <2>3, ConstantsAssumption DEF Room
  <2>4. CASE \A r \in Radars : pc[r] \notin {"sl", "tp", "log"}
    BY <2>1, <2>4 DEF Room
  <2> QED BY <2>3, <2>4
<1> QED BY Inductive, <1>1, PTL

\* Where a stored intention is.
LEMMA StoredIs ==
  ASSUME NEW s
  PROVE  s \in Stored <=> \/ s \in watch
                          \/ \E r \in Radars : pc[r] = "write" /\ s \in snap[r]
                          \/ \E a \in arming : a.open /\ s \in ArmInto(a.snap, a.key, a.n, a.at)
<1> DEFINE T == {snap[r] : r \in {q \in Radars : pc[q] = "write"}}
           A == {ArmInto(a.snap, a.key, a.n, a.at) : a \in {b \in arming : b.open}}
<1>1. s \in UNION T <=> \E r \in Radars : pc[r] = "write" /\ s \in snap[r]
  OBVIOUS
<1>2. s \in UNION A <=> \E a \in arming : a.open /\ s \in ArmInto(a.snap, a.key, a.n, a.at)
  OBVIOUS
<1>3. Stored = watch \cup (UNION T) \cup (UNION A)
  BY DEF Stored
<1> HIDE DEF T, A
<1> QED BY <1>1, <1>2, <1>3

LEMMA StoredBecomes ==
  ASSUME NEW s
  PROVE  (s \in Stored') <=> \/ s \in watch'
                             \/ \E r \in Radars : pc'[r] = "write" /\ s \in snap'[r]
                             \/ \E a \in arming' : a.open /\ s \in ArmInto(a.snap, a.key, a.n, a.at)
<1> DEFINE T == {snap'[r] : r \in {q \in Radars : pc'[q] = "write"}}
           A == {ArmInto(a.snap, a.key, a.n, a.at) : a \in {b \in arming' : b.open}}
<1>1. s \in UNION T <=> \E r \in Radars : pc'[r] = "write" /\ s \in snap'[r]
  OBVIOUS
<1>2. s \in UNION A <=> \E a \in arming' : a.open /\ s \in ArmInto(a.snap, a.key, a.n, a.at)
  OBVIOUS
<1>3. Stored' = watch' \cup (UNION T) \cup (UNION A)
  BY DEF Stored
<1> HIDE DEF T, A
<1> QED BY <1>1, <1>2, <1>3

\* Who has the file open changes only with these steps.
LEMMA StoredStays ==
  ASSUME Typed, [Next]_vars
  PROVE  \/ Stored' = Stored
         \/ ArmTruncate \/ ArmWrite \/ ArmCrash
         \/ \E r \in Radars : TruncateWatch(r) \/ WriteWatch(r) \/ (Crash(r) /\ pc[r] = "write")
<1> DEFINE Writers == {q \in Radars : pc[q] = "write"}
           Opens == {a \in arming : a.open}
<1>1. ASSUME UNCHANGED watch, Opens' = Opens,
             \A r \in Radars : /\ pc[r] = "write" <=> pc'[r] = "write"
                               /\ pc[r] = "write" => snap'[r] = snap[r]
      PROVE  Stored' = Stored
  <2>1. Writers' = Writers
    BY <1>1
  <2>2. UNION {snap'[r] : r \in Writers'} = UNION {snap[r] : r \in Writers}
    BY <1>1, <2>1
  <2> QED BY <1>1, <2>2 DEF Stored
<1>2. ASSUME NEW r \in Radars,
             \/ ReadWatch(r) \/ Plan(r) \/ PreflightOK(r) \/ PreflightKO(r)
             \/ PlaceEntry(r) \/ PlaceSL(r) \/ PlaceTP(r) \/ PlaceDry(r) \/ PlaceRefused(r)
             \/ PlaceBroken(r) \/ LogTrade(r) \/ LogFails(r) \/ (Crash(r) /\ pc[r] # "write")
      PROVE  Stored' = Stored
  <2>1. /\ UNCHANGED <<watch, arming>>
        /\ pc[r] # "write" /\ pc'[r] # "write"
        /\ \A q \in Radars : q # r => pc'[q] = pc[q] /\ snap'[q] = snap[q]
    <3>1. CASE Plan(r)
      <4>1. PICK free \in SUBSET PruneExpired(snap[r], tickNow[r]) : snap' = [snap EXCEPT ![r] = free]
        BY <3>1, PlanEffect
      <4> QED BY <3>1, <4>1 DEF Plan, Typed, TypeOK
    <3>2. CASE ~Plan(r)
      BY <1>2, <3>2 DEF ReadWatch, PreflightKO, PreflightOK, PlaceEntry, PlaceSL, PlaceTP, PlaceDry,
         PlaceRefused, PlaceBroken, LogTrade, LogFails, Crash, Typed, TypeOK
    <3> QED BY <3>1, <3>2
  <2> QED BY <1>1, <2>1
<1>3. ASSUME NEW b \in DOMAIN brackets, EntryFills(b) \/ PositionEnds(b) PROVE Stored' = Stored
  BY <1>1, <1>3 DEF EntryFills, PositionEnds, localVars
<1>4. ASSUME TimePasses \/ UNCHANGED vars PROVE Stored' = Stored
  BY <1>1, <1>4 DEF TimePasses, localVars, vars
<1>5. ASSUME NEW k \in Keys, ArmRead(k) PROVE Stored' = Stored
  <2>1. /\ arming = {} /\ UNCHANGED <<watch, pc, snap>>
        /\ arming' = {[key |-> k, snap |-> watch, at |-> now, n |-> arms + 1, open |-> FALSE]}
    BY <1>5 DEF ArmRead, localVars
  <2>2. Opens' = {} /\ Opens = {}
    BY <2>1
  <2> QED BY <1>1, <2>1, <2>2
<1> QED BY <1>2, <1>3, <1>4, <1>5 DEF Next, TickStep, ArmStep

\* Without overlap the armed file loses nothing to an ordinary kill, of a
\* tick or of the command: an intention leaves it only once posted, found
\* active or expired, and never goes back to older levels.  What can lose
\* intentions is a kill between the truncation of the file and its write.
THEOREM NothingLost == Spec => NoLostUpdate
<1> DEFINE Kept(s) == \/ s.id \in settled'
                      \/ \E t \in Stored' : t.id = s.id /\ t.rev >= s.rev
<1>1. ASSUME IndInv, [Next]_vars, disturbed' \cap {"overlap", "torn"} = {}, NEW s \in Stored
      PROVE  Kept(s)
  <2>0. /\ "overlap" \notin disturbed /\ "overlap" \notin disturbed' /\ "torn" \notin disturbed'
        /\ Typed /\ OnePerKey /\ Numbered /\ Alone
    BY <1>1, DisturbedGrows DEF IndInv
  <2>1. /\ \A q, r \in Radars : pc[q] # "idle" /\ pc[r] # "idle" => q = r
        /\ \A a, b \in arming : a = b
        /\ arming # {} => \A r \in Radars : pc[r] = "idle"
        /\ \A a \in arming : IF a.open THEN watch = {} ELSE a.snap = watch
        /\ \A r \in Radars : pc[r] # "idle" => \A x \in watch : x \in snap[r] \/ x.id \in settled
        /\ \A r \in Radars : pc[r] = "write" => watch = {}
    BY <2>0 DEF Alone
  <2>2. s.rev \in Nat
    <3>1. \A a \in arming : ArmInto(a.snap, a.key, a.n, a.at) \in SUBSET Setup
      BY <2>0, ArmIntoType DEF Typed, TypeOK
    <3>2. CASE s \in watch
      BY <2>0, <3>2 DEF Typed, TypeOK, Setup
    <3>3. CASE \E r \in Radars : s \in snap[r]
      BY <2>0, <3>3 DEF Typed, TypeOK, Setup
    <3>4. CASE \E a \in arming : s \in ArmInto(a.snap, a.key, a.n, a.at)
      BY <3>1, <3>4 DEF Setup
    <3>5. \/ s \in watch \/ \E r \in Radars : s \in snap[r]
          \/ \E a \in arming : s \in ArmInto(a.snap, a.key, a.n, a.at)
      BY <1>1, StoredIs
    <3> QED BY <3>2, <3>3, <3>4, <3>5
  <2>3. CASE s \in Stored'
    BY <2>2, <2>3
  <2>4. CASE ArmTruncate
    <3>1. PICK a \in arming : /\ ~a.open /\ arming' = {[a EXCEPT !.open = TRUE]}
      BY <2>4 DEF ArmTruncate
    <3> DEFINE b == [a EXCEPT !.open = TRUE]
    <3>2. b.open /\ b.snap = a.snap /\ b.key = a.key /\ b.n = a.n /\ b.at = a.at
      BY <2>0 DEF Typed, TypeOK
    <3>3. s \in a.snap
      BY <1>1, <2>1, <3>1, StoredIs
    <3>4. PICK u \in ArmInto(a.snap, a.key, a.n, a.at) : u.id = s.id /\ u.rev >= s.rev
      <4>1. /\ a.snap \in SUBSET Setup /\ a.n \in Nat
            /\ UniqueKeys(a.snap) /\ Uses(a.snap)
            /\ \A x \in a.snap : x.id < a.n /\ x.rev < a.n
        BY <2>0 DEF Typed, TypeOK, OnePerKey, Numbered
      <4> QED BY <3>3, <4>1, ArmIntoNumbers
    <3>5. u \in Stored'
      <4>1. b \in arming' /\ b.open /\ u \in ArmInto(b.snap, b.key, b.n, b.at)
        BY <3>1, <3>2, <3>4
      <4> HIDE DEF b
      <4> QED BY <4>1, StoredBecomes
    <3> QED BY <3>4, <3>5
  <2>5. CASE ArmWrite
    <3>1. PICK a \in arming : a.open /\ watch' \in Written(ArmInto(a.snap, a.key, a.n, a.at))
      BY <2>5 DEF ArmWrite
    <3>2. watch' = ArmInto(a.snap, a.key, a.n, a.at)
      BY <2>1, <3>1 DEF Written
    <3>3. s \in watch'
      BY <1>1, <2>1, <3>1, <3>2, StoredIs
    <3> QED BY <2>3, <3>3, StoredBecomes
  <2>6. CASE ArmCrash
    <3>1. PICK a \in arming : ~a.open /\ UNCHANGED watch
      BY <2>0, <2>6 DEF ArmCrash, Kill
    <3>2. \A b \in arming : ~b.open
      BY <2>1, <3>1
    <3>3. s \in watch'
      BY <1>1, <2>1, <3>1, <3>2, StoredIs
    <3> QED BY <2>3, <3>3, StoredBecomes
  <2>7. ASSUME NEW r \in Radars, TruncateWatch(r) PROVE Kept(s)
    <3>1. pc[r] = "decide" /\ pc'[r] = "write" /\ UNCHANGED <<snap, settled>>
      BY <2>0, <2>7 DEF TruncateWatch, Typed, TypeOK
    <3>2. s \in watch
      BY <1>1, <2>1, <3>1, StoredIs
    <3>3. s \in snap'[r] \/ s.id \in settled'
      BY <2>1, <3>1, <3>2
    <3>4. s \in snap'[r] => s \in Stored'
      BY <3>1, StoredBecomes
    <3> QED BY <2>2, <3>3, <3>4
  <2>8. ASSUME NEW r \in Radars, WriteWatch(r) PROVE Kept(s)
    <3>1. pc[r] = "write" /\ watch' \in Written(snap[r])
      BY <2>8 DEF WriteWatch
    <3>2. watch' = snap[r]
      BY <2>1, <3>1 DEF Written
    <3>3. s \in watch'
      BY <1>1, <2>1, <3>1, <3>2, StoredIs
    <3>4. s \in Stored'
      BY <3>3, StoredBecomes
    <3> QED BY <2>2, <3>4
  <2>9. ASSUME NEW r \in Radars, Crash(r), pc[r] = "write" PROVE FALSE
    BY <2>0, <2>9 DEF Crash, Kill
  <2>10. CASE Stored' = Stored
    BY <1>1, <2>3, <2>10
  <2> HIDE DEF Kept
  <2> QED BY <1>1, <2>0, <2>4, <2>5, <2>6, <2>7, <2>8, <2>9, <2>10, StoredStays
<1>2. IndInv /\ [Next]_vars =>
        [(disturbed' \cap {"overlap", "torn"} = {}) => \A s \in Stored : Kept(s)]_vars
  <2> HIDE DEF Kept
  <2> QED BY <1>1
<1> QED BY Inductive, <1>2, PTL DEF Spec, NoLostUpdate
=============================================================================
