-------------------------- MODULE MonitorTickProofs --------------------------
(* Theorems about MonitorTick for every grid of prices, position, set of     *)
(* ticks, verdicts and faults: types, the position keeps its stop, which is  *)
(* never loosened, a one-shot profit is taken once and so is a target.       *)
EXTENDS MonitorTick, Induction

-----------------------------------------------------------------------------
(* The inductive invariant                                                  *)

\* What the processes are doing, whatever has gone wrong.
Orderly ==
  /\ \A p \in Procs : looked[p] # Nothing => p # Routine /\ todo[p] = <<>>
  /\ \A p \in Procs : stage[p] = "cancelled" => todo[p] # <<>>
  /\ \A p \in Procs, l \in Levels : l >= Entry => found[p][l] = 0
  /\ Len(todo[Routine]) <= 1 /\ banked[Routine] = {}
  /\ \A p \in Procs : \A i \in DOMAIN todo[p] : todo[p][i].do \in {"partial", "tag"} => p \in Managing
  /\ Undisturbed({"trail"}) => trail = NoTrail
  /\ Undisturbed({"overlap"}) => \A p, q \in Procs : ~Idle(p) /\ ~Idle(q) => p = q

\* A stop not below the highest one so far that no call cancels: it is not
\* below the entry.
Anchored == \E l \in Levels : l >= Entry /\ l >= floor /\ stops[l] > 0

\* No stop that is still to be moved loosens the position, because it is high
\* enough or because a higher one stays.
Tightening ==
  (Undisturbed({"order", "refused", "kill", "trail", "fetch", "overlap"}) /\ size > 0) =>
    \A p \in Procs : \A i \in DOMAIN todo[p] :
      todo[p][i].do = "move" => todo[p][i].level >= floor \/ Anchored

\* The last call of p records tag g.
WillTag(p, g) == todo[p] # <<>> /\ todo[p][Len(todo[p])] = Command("tag", 0, g)

\* A part to be sold is the only one of its list, and its tag comes last.
PartThenTag(s) ==
  \A i \in DOMAIN s :
    /\ s[i].do = "tag" => i = Len(s)
    /\ s[i].do = "partial" =>
         /\ s[Len(s)] = Command("tag", 0, s[i].amount)
         /\ \A j \in DOMAIN s : s[j].do = "partial" => j = i

OneShotLists == \A p \in Procs : PartThenTag(todo[p])

\* What was sold for a tag is recorded or will be, and is not sold again.
SoldParts ==
  /\ \A p \in Managing : looked[p] # Nothing => looked[p].managed = managed
  /\ \A p \in Procs : \A i \in DOMAIN todo[p] :
       todo[p][i].do = "partial" => cuts[todo[p][i].amount] = 0
  /\ \A g \in Tags : cuts[g] <= 1
  /\ \A g \in Tags : cuts[g] >= 1 => g \in managed \/ \E p \in Managing : WillTag(p, g)

SoldOnce == Logged /\ Undisturbed({"kill"}) => SoldParts

\* A tag that is recorded or will be stands for a sale, made or still to come.
ToSell(p, g) == \E i \in DOMAIN todo[p] : todo[p][i].do = "partial" /\ todo[p][i].amount = g

TagsMean ==
  /\ \A g \in managed : cuts[g] >= 1 \/ size = 0
  /\ \A p \in Procs, g \in Tags : WillTag(p, g) => cuts[g] >= 1 \/ size = 0 \/ ToSell(p, g)

TagStands == Undisturbed({"order", "refused"}) => TagsMean

AboutTarget(c) == c.do \in {"bank", "repost"}

\* A target is banked, posted or in one list, and there once.
EachOnce ==
  /\ \A i \in taken : tps[i] = 0
  /\ \A p \in Procs : looked[p] # Nothing => looked[p].taken = taken /\ banked[p] = {}
  /\ \A p \in Procs : todo[p] # <<>> => \A i \in banked[p] : tps[i] = 0
  /\ \A p \in Procs : \A k \in DOMAIN todo[p] : AboutTarget(todo[p][k]) =>
       LET i == todo[p][k].level
       IN  /\ i \notin taken /\ i \notin banked[p] /\ tps[i] = 0
           /\ \A m \in DOMAIN todo[p] :
                AboutTarget(todo[p][m]) /\ todo[p][m].level = i => m = k

TargetsApart == Undisturbed({"fetch", "overlap"}) => EachOnce

Inv == TypeOK /\ Orderly /\ StopUnlessDisturbed /\ Tightening /\ NeverLoosened
       /\ OneShotLists /\ SoldOnce /\ TagStands /\ TargetsApart

-----------------------------------------------------------------------------
(* Lemmas about the operators                                               *)

\* A list without its first call.
LEMMA TailOf ==
  ASSUME NEW S, NEW s \in Seq(S), s # <<>>
  PROVE  /\ Tail(s) \in Seq(S) /\ Len(Tail(s)) = Len(s) - 1 /\ Len(s) \in Nat \ {0}
         /\ Head(s) = s[1] /\ Head(s) \in S /\ 1 \in DOMAIN s /\ Len(s) \in DOMAIN s
         /\ \A i \in DOMAIN Tail(s) : i + 1 \in DOMAIN s /\ Tail(s)[i] = s[i + 1]
         /\ (Tail(s) = <<>>) <=> (Len(s) = 1)
<1>1. Len(s) \in Nat \ {0} /\ DOMAIN s = 1..Len(s)
  OBVIOUS
<1>2. Tail(s) \in Seq(S) /\ Len(Tail(s)) = Len(s) - 1
  OBVIOUS
<1>3. \A i \in 1..Len(s) - 1 : Tail(s)[i] = s[i + 1]
  OBVIOUS
<1>4. DOMAIN Tail(s) = 1..Len(s) - 1
  BY <1>2
<1> QED BY <1>1, <1>2, <1>3, <1>4

\* Two lists one after the other.
LEMMA Joined ==
  ASSUME NEW S, NEW s \in Seq(S), NEW u \in Seq(S)
  PROVE  /\ s \o u \in Seq(S) /\ Len(s \o u) = Len(s) + Len(u)
         /\ Len(s) \in Nat /\ DOMAIN s = 1..Len(s) /\ \A i \in DOMAIN s : s[i] \in S
         /\ \A i \in DOMAIN s : i \in DOMAIN (s \o u) /\ (s \o u)[i] = s[i]
         /\ \A i \in DOMAIN u : i + Len(s) \in DOMAIN (s \o u) /\ (s \o u)[i + Len(s)] = u[i]
         /\ \A i \in DOMAIN (s \o u) : i \in DOMAIN s \/ (i - Len(s) \in DOMAIN u /\ i > Len(s))
<1>1. Len(s) \in Nat /\ DOMAIN s = 1..Len(s) /\ Len(u) \in Nat /\ DOMAIN u = 1..Len(u)
  OBVIOUS
<1>2. s \o u \in Seq(S) /\ Len(s \o u) = Len(s) + Len(u) /\ \A i \in DOMAIN s : s[i] \in S
  OBVIOUS
<1>3. DOMAIN (s \o u) = 1..Len(s) + Len(u)
  BY <1>1, <1>2
<1>4. \A i \in 1..Len(s) + Len(u) : (s \o u)[i] = IF i <= Len(s) THEN s[i] ELSE u[i - Len(s)]
  OBVIOUS
<1> QED BY <1>1, <1>2, <1>3, <1>4

\* A share is a part of the position.
LEMMA ShareType ==
  \A i \in Indices : Share(i) \in 0..Size
<1> SUFFICES ASSUME NEW i \in Indices PROVE Share(i) \in 0..Size
  OBVIOUS
<1>1. Tenths[i] \in 0..10 /\ Size \in Nat
  BY ConstantsAssumption DEF Indices
<1>2. Tenths[i] * Size \in Nat /\ Tenths[i] * Size <= 10 * Size
  BY <1>1, SMTT(30)
<1> DEFINE n == Tenths[i] * Size
<1>3. n \in Nat /\ n <= 10 * Size
  BY <1>2
<1> HIDE DEF n
<1>4. n \div 10 \in 0..Size
  BY <1>1, <1>3
<1> QED BY <1>4 DEF Share, n

\* The stop in force is the highest of the stops.
HighestInForce ==
  /\ InForce \in StopLevels \cup {trail.stop, 0} /\ InForce \in 0..MaxPrice
  /\ \A m \in StopLevels \cup {trail.stop, 0} : m <= InForce

LEMMA InForceIsHighest == TypeOK => HighestInForce
<1> SUFFICES ASSUME TypeOK PROVE HighestInForce
  OBVIOUS
<1> DEFINE all == StopLevels \cup {trail.stop, 0}
<1>1. MaxPrice \in Nat /\ all \in SUBSET (0..MaxPrice) /\ all # {}
  BY ConstantsAssumption DEF TypeOK, StopLevels, Levels
<1>2. \E l \in all : \A m \in all : m <= l
  BY <1>1, Greatest
<1>3. InForce = CHOOSE l \in all : \A m \in all : m <= l
  BY DEF InForce
<1> QED BY <1>1, <1>2, <1>3 DEF HighestInForce

-----------------------------------------------------------------------------
(* What the targets sell when the price moves                               *)

\* The size that the target j asks for at price p, and the sum f of these.
Asks(j, p) == IF j \in Fired(p) THEN tps[j] * Share(j) ELSE 0
Asked(f, p) == f = [j \in 0..Len(Targets) |-> IF j = 0 THEN 0 ELSE f[j - 1] + Asks(j, p)]

LEMMA AsksType ==
  ASSUME TypeOK, NEW p
  PROVE  \A j \in 1..Len(Targets) : Asks(j, p) \in Nat
<1> SUFFICES ASSUME NEW j \in 1..Len(Targets) PROVE Asks(j, p) \in Nat
  OBVIOUS
<1>1. j \in Indices
  BY ConstantsAssumption DEF Indices
<1>2. tps[j] \in Nat /\ Share(j) \in Nat
  BY <1>1, ShareType, ConstantsAssumption DEF TypeOK
<1>3. \A a, b \in Nat : a * b \in Nat
  OBVIOUS
<1> QED BY <1>2, <1>3 DEF Asks

\* What the targets up to j sell grows with j, up to what is left, and a
\* target that does not fire adds nothing.
LEMMA SoldGrows ==
  ASSUME TypeOK, NEW p
  PROVE  /\ \A j \in 0..Len(Targets) : Sold(p)[j] \in 0..size
         /\ \A i \in Indices : SoldAt(i, p) \in Nat /\ (i \notin Fired(p) => SoldAt(i, p) = 0)
<1> DEFINE n == Len(Targets)
<1> DEFINE f == CHOOSE h : Asked(h, p)
<1>0. n \in Nat /\ Indices = 1..n /\ size \in Nat
  BY ConstantsAssumption DEF TypeOK, Indices
<1>1. Sold(p) = [j \in 0..n |-> Smaller(f[j], size)]
  BY DEF Sold, Asked, Asks
<1> DEFINE step == [j \in 1..n |-> [v \in Nat |-> v + Asks(j, p)]]
<1>2. step \in [1..n -> [Nat -> Nat]]
  BY AsksType
<1>3. PICK g \in [0..n -> Nat] : Recurs(g, n, 0, step)
  <2> HIDE DEF step, n
  <2> QED BY <1>0, <1>2, RecursionExists
<1>4. Asked(g, p)
  <2>1. \A j \in 0..n : g[j] = IF j = 0 THEN 0 ELSE g[j - 1] + Asks(j, p)
    <3> SUFFICES ASSUME NEW j \in 0..n PROVE g[j] = IF j = 0 THEN 0 ELSE g[j - 1] + Asks(j, p)
      OBVIOUS
    <3>1. g[j] = IF j = 0 THEN 0 ELSE step[j][g[j - 1]]
      BY <1>3 DEF Recurs
    <3>2. j # 0 => g[j - 1] \in Nat /\ j \in 1..n
      BY <1>0
    <3> QED BY <3>1, <3>2
  <2>2. g = [j \in 0..n |-> g[j]]
    OBVIOUS
  <2> QED BY <2>1, <2>2 DEF Asked
<1>5. Asked(f, p)
  BY <1>4
<1> HIDE DEF f
<1> DEFINE T == {j \in Nat : f[j] \in Nat}
<1>6. f[0] = 0 /\ \A j \in 1..n : f[j] = f[j - 1] + Asks(j, p)
  BY <1>0, <1>5 DEF Asked
<1>7. \A j \in 0..n : f[j] \in Nat
  <2>1. 0 \in T
    BY <1>6
  <2>2. \A j \in 1..n : j - 1 \in T => j \in T
    BY <1>0, <1>6, AsksType
  <2> HIDE DEF T, n
  <2>3. \A j \in 0..n : j \in T
    BY <1>0, <2>1, <2>2, AlongInduction
  <2> QED BY <2>3 DEF T
<1>8. ASSUME NEW j \in 0..n PROVE Sold(p)[j] \in 0..size
  BY <1>0, <1>1, <1>7 DEF Smaller
<1>9. ASSUME NEW i \in Indices
      PROVE  SoldAt(i, p) \in Nat /\ (i \notin Fired(p) => SoldAt(i, p) = 0)
  <2>1. i \in 1..n /\ i - 1 \in 0..n /\ i \in 0..n
    BY <1>0
  <2>2. f[i] = f[i - 1] + Asks(i, p) /\ f[i - 1] \in Nat /\ f[i] \in Nat /\ Asks(i, p) \in Nat
    BY <1>6, <1>7, <2>1, AsksType
  <2>3. SoldAt(i, p) = Smaller(f[i], size) - Smaller(f[i - 1], size)
    BY <1>1, <2>1 DEF SoldAt
  <2>4. i \notin Fired(p) => Asks(i, p) = 0
    BY DEF Asks
  <2> QED BY <1>0, <2>2, <2>3, <2>4 DEF Smaller
<1> QED BY <1>8, <1>9

-----------------------------------------------------------------------------
(* What is in the plan of a tick                                            *)

Front == [do : {"move"}, level : {Entry}, amount : {0}]
           \cup [do : {"bank", "repost"}, level : Indices, amount : 0..Size]
           \cup [do : {"save"}, level : {0}, amount : {0}]

Seen == [size : 0..Size, px : 0..MaxPrice, taken : SUBSET Indices, managed : SUBSET Tags]

\* A list that is about each of the targets up to j at most once, and about
\* none of those in some set.
AboutOnce(s, j, out) ==
  /\ \A k \in DOMAIN s : AboutTarget(s[k]) => s[k].level <= j /\ s[k].level \notin out
  /\ \A k, m \in DOMAIN s : AboutTarget(s[k]) /\ AboutTarget(s[m]) /\ s[k].level = s[m].level => m = k

\* The same for the targets: what is planned for i, and the list up to i.
Takes(i, seen, posted) ==
  LET qty == Smaller(Share(i), seen.size)
  IN  IF Logged /\ i \notin posted /\ i \notin seen.taken /\ qty > 0
      THEN <<Command(IF seen.px >= Targets[i] THEN "bank" ELSE "repost", i, qty)>>
      ELSE <<>>
Planned(f, seen, posted) ==
  f = [i \in 0..Len(Targets) |-> IF i = 0 THEN <<>> ELSE f[i - 1] \o Takes(i, seen, posted)]

TakeOrders == [do : {"bank", "repost"}, level : Indices, amount : 0..Size]

LEMMA TakesType ==
  ASSUME NEW seen \in Seen, NEW posted, NEW i \in Indices
  PROVE  /\ Takes(i, seen, posted) \in Seq(TakeOrders)
         /\ \/ Takes(i, seen, posted) = <<>>
            \/ /\ Len(Takes(i, seen, posted)) = 1 /\ Takes(i, seen, posted)[1].level = i
               /\ i \notin posted \cup seen.taken
<1>1. Smaller(Share(i), seen.size) \in 0..Size
  BY ShareType, ConstantsAssumption DEF Smaller, Seen
<1> DEFINE qty == Smaller(Share(i), seen.size)
<1> DEFINE do == IF seen.px >= Targets[i] THEN "bank" ELSE "repost"
<1>2. \/ Takes(i, seen, posted) = <<>>
      \/ /\ i \notin posted \cup seen.taken
         /\ Takes(i, seen, posted) = <<Command(do, i, qty)>>
  BY DEF Takes
<1>3. Command(do, i, qty) \in TakeOrders /\ Command(do, i, qty).level = i
  BY <1>1 DEF TakeOrders, Command
<1> DEFINE c == Command(do, i, qty)
<1>4. \A d \in TakeOrders : <<d>> \in Seq(TakeOrders) /\ Len(<<d>>) = 1 /\ <<d>>[1] = d
  OBVIOUS
<1>5. <<c>> \in Seq(TakeOrders) /\ Len(<<c>>) = 1 /\ <<c>>[1].level = i
  BY <1>3, <1>4
<1>6. <<>> \in Seq(TakeOrders)
  OBVIOUS
<1> HIDE DEF c
<1> QED BY <1>2, <1>5, <1>6 DEF c

LEMMA TpTakePlanList ==
  ASSUME NEW seen \in Seen, NEW posted
  PROVE  /\ TpTakePlan(seen, posted) \in Seq(TakeOrders)
         /\ AboutOnce(TpTakePlan(seen, posted), Len(Targets), posted \cup seen.taken)
<1> DEFINE n == Len(Targets)
<1> DEFINE out == posted \cup seen.taken
<1> DEFINE f == CHOOSE h : Planned(h, seen, posted)
<1>0. n \in Nat /\ Indices = 1..n
  BY ConstantsAssumption DEF Indices
<1>1. TpTakePlan(seen, posted) = f[n]
  BY DEF TpTakePlan, Planned, Takes
<1> DEFINE step == [j \in 1..n |-> [v \in Seq(TakeOrders) |-> v \o Takes(j, seen, posted)]]
<1>2. step \in [1..n -> [Seq(TakeOrders) -> Seq(TakeOrders)]]
  BY <1>0, TakesType
<1>3. PICK g \in [0..n -> Seq(TakeOrders)] : Recurs(g, n, <<>>, step)
  <2> HIDE DEF step, n
  <2>1. <<>> \in Seq(TakeOrders)
    OBVIOUS
  <2> QED BY <1>0, <1>2, <2>1, RecursionExists
<1>4. Planned(g, seen, posted)
  <2>1. \A j \in 0..n : g[j] = IF j = 0 THEN <<>> ELSE g[j - 1] \o Takes(j, seen, posted)
    <3> SUFFICES ASSUME NEW j \in 0..n
                 PROVE  g[j] = IF j = 0 THEN <<>> ELSE g[j - 1] \o Takes(j, seen, posted)
      OBVIOUS
    <3>1. g[j] = IF j = 0 THEN <<>> ELSE step[j][g[j - 1]]
      BY <1>3 DEF Recurs
    <3>2. j # 0 => g[j - 1] \in Seq(TakeOrders) /\ j \in 1..n
      BY <1>0
    <3> QED BY <3>1, <3>2
  <2>2. g = [j \in 0..n |-> g[j]]
    OBVIOUS
  <2> QED BY <2>1, <2>2 DEF Planned
<1>5. Planned(f, seen, posted)
  BY <1>4
<1> HIDE DEF f
<1>6. f[0] = <<>> /\ \A j \in 1..n : f[j] = f[j - 1] \o Takes(j, seen, posted)
  <2>1. f = [i \in 0..n |-> IF i = 0 THEN <<>> ELSE f[i - 1] \o Takes(i, seen, posted)]
    BY <1>5 DEF Planned
  <2>2. \A i \in 0..n : f[i] = IF i = 0 THEN <<>> ELSE f[i - 1] \o Takes(i, seen, posted)
    BY <2>1, Zenon
  <2>3. f[0] = <<>>
    BY <1>0, <2>2
  <2>4. ASSUME NEW j \in 1..n PROVE f[j] = f[j - 1] \o Takes(j, seen, posted)
    <3>1. j \in 0..n /\ j # 0
      BY <1>0
    <3> QED BY <2>2, <3>1, Zenon
  <2> QED BY <2>3, <2>4
<1> DEFINE T == {j \in Nat : f[j] \in Seq(TakeOrders) /\ AboutOnce(f[j], j, out)}
<1>7. 0 \in T
  <2>1. <<>> \in Seq(TakeOrders) /\ AboutOnce(<<>>, 0, out)
    BY DEF AboutOnce
  <2> QED BY <1>6, <2>1
<1>8. ASSUME NEW j \in 1..n, j - 1 \in T PROVE j \in T
  <2> DEFINE s == f[j - 1]
  <2> DEFINE u == Takes(j, seen, posted)
  <2>1. s \in Seq(TakeOrders) /\ AboutOnce(s, j - 1, out) /\ j - 1 \in Nat
    BY <1>0, <1>8
  <2>2. u \in Seq(TakeOrders) /\ (u = <<>> \/ (Len(u) = 1 /\ u[1].level = j /\ j \notin out))
    BY <1>0, TakesType
  <2>3. f[j] = s \o u
    BY <1>6
  <2>4. ASSUME NEW k \in DOMAIN (s \o u)
        PROVE  \/ k \in DOMAIN s /\ (s \o u)[k] = s[k] /\ k <= Len(s)
               \/ k = Len(s) + 1 /\ (s \o u)[k].level = j /\ j \notin out
    <3> HIDE DEF s, u, out
    <3>1. CASE k \in DOMAIN s
      BY <2>1, <2>2, <3>1, Joined
    <3>2. CASE k \notin DOMAIN s
      <4>1. k - Len(s) \in DOMAIN u /\ (s \o u)[(k - Len(s)) + Len(s)] = u[k - Len(s)]
        BY <2>1, <2>2, <3>2, Joined
      <4>2. k - Len(s) = 1 /\ Len(s) \in Nat /\ k \in Nat
        BY <2>1, <2>2, <4>1
      <4> QED BY <2>2, <4>1, <4>2
    <3> QED BY <3>1, <3>2
  <2>5. \A k \in DOMAIN s : s[k] \in TakeOrders /\ s[k].level \in Nat
    <3> HIDE DEF s
    <3>1. \A k \in DOMAIN s : s[k] \in TakeOrders
      BY <2>1
    <3> QED BY <1>0, <3>1 DEF TakeOrders
  <2>6. AboutOnce(s \o u, j, out)
    <3> HIDE DEF s, u, out
    <3>1. ASSUME NEW k \in DOMAIN (s \o u), AboutTarget((s \o u)[k])
          PROVE  (s \o u)[k].level <= j /\ (s \o u)[k].level \notin out
      BY <2>1, <2>4, <2>5, <3>1 DEF AboutOnce
    <3>2. ASSUME NEW k \in DOMAIN (s \o u), NEW m \in DOMAIN (s \o u),
                 AboutTarget((s \o u)[k]), AboutTarget((s \o u)[m]),
                 (s \o u)[k].level = (s \o u)[m].level
          PROVE  m = k
      BY <2>1, <2>4, <2>5, <3>2 DEF AboutOnce
    <3> QED BY <3>1, <3>2 DEF AboutOnce
  <2>7. s \o u \in Seq(TakeOrders)
    BY <2>1, <2>2
  <2>8. f[j] \in Seq(TakeOrders) /\ AboutOnce(f[j], j, out)
    BY <2>3, <2>6, <2>7
  <2>9. j \in Nat
    BY <1>0
  <2> QED BY <2>8, <2>9
<1>9. n \in T
  <2> HIDE DEF T, n
  <2>1. \A j \in 0..n : j \in T
    BY <1>0, <1>7, <1>8, AlongInduction
  <2> QED BY <1>0, <2>1
<1> QED BY <1>1, <1>9

\* Calls that are about no target change nothing to it, before or after.
LEMMA AboutMore ==
  ASSUME NEW S, NEW s \in Seq(S), NEW u \in Seq(S), NEW j, NEW out,
         AboutOnce(s, j, out), \A k \in DOMAIN u : ~AboutTarget(u[k])
  PROVE  AboutOnce(s \o u, j, out) /\ AboutOnce(u \o s, j, out)
<1>1. \A k \in DOMAIN (s \o u) : AboutTarget((s \o u)[k]) => k \in DOMAIN s /\ (s \o u)[k] = s[k]
  <2> SUFFICES ASSUME NEW k \in DOMAIN (s \o u), AboutTarget((s \o u)[k])
               PROVE  k \in DOMAIN s /\ (s \o u)[k] = s[k]
    OBVIOUS
  <2>1. CASE k \in DOMAIN s
    BY <2>1, Joined
  <2>2. CASE k \notin DOMAIN s
    <3>1. k - Len(s) \in DOMAIN u /\ (s \o u)[(k - Len(s)) + Len(s)] = u[k - Len(s)]
      BY <2>2, Joined
    <3>2. (k - Len(s)) + Len(s) = k
      BY <2>2, Joined
    <3> QED BY <3>1, <3>2
  <2> QED BY <2>1, <2>2
<1>2. \A k \in DOMAIN (u \o s) : AboutTarget((u \o s)[k]) =>
        k - Len(u) \in DOMAIN s /\ (u \o s)[k] = s[k - Len(u)] /\ k \in Nat /\ Len(u) \in Nat
  <2> SUFFICES ASSUME NEW k \in DOMAIN (u \o s), AboutTarget((u \o s)[k])
               PROVE  /\ k - Len(u) \in DOMAIN s /\ (u \o s)[k] = s[k - Len(u)]
                      /\ k \in Nat /\ Len(u) \in Nat
    OBVIOUS
  <2>1. k \notin DOMAIN u
    BY Joined
  <2>2. k - Len(u) \in DOMAIN s /\ (u \o s)[(k - Len(u)) + Len(u)] = s[k - Len(u)]
    BY <2>1, Joined
  <2>3. k \in Nat /\ Len(u) \in Nat
    BY Joined
  <2>4. (k - Len(u)) + Len(u) = k
    BY <2>3
  <2> QED BY <2>2, <2>3, <2>4
<1>3. AboutOnce(s \o u, j, out)
  BY <1>1 DEF AboutOnce
<1>4. AboutOnce(u \o s, j, out)
  <2>1. ASSUME NEW k \in DOMAIN (u \o s), NEW m \in DOMAIN (u \o s),
               AboutTarget((u \o s)[k]), AboutTarget((u \o s)[m]),
               (u \o s)[k].level = (u \o s)[m].level
        PROVE  m = k
    <3>1. m - Len(u) = k - Len(u)
      BY <1>2, <2>1 DEF AboutOnce
    <3> QED BY <1>2, <2>1, <3>1
  <2> QED BY <1>2, <2>1 DEF AboutOnce
<1> QED BY <1>3, <1>4

LEMMA OneCall ==
  ASSUME NEW S, NEW c \in S
  PROVE  /\ <<c>> \in Seq(S) /\ Len(<<c>>) = 1 /\ DOMAIN <<c>> = {1} /\ <<c>>[1] = c
         /\ <<>> \in Seq(S) /\ Len(<<>>) = 0 /\ DOMAIN <<>> = {}
OBVIOUS

\* The targets' part of a plan, with the break-even before and the save after.
LEMMA FrontList ==
  ASSUME NEW seen \in Seen, NEW posted, NEW candles
  PROVE  \A be \in {<<>>, BreakEvenDue(seen, candles)} :
           LET s == be \o TpTakePlan(seen, posted) \o <<Command("save", 0, 0)>>
           IN  s \in Seq(Front) /\ s # <<>> /\ AboutOnce(s, Len(Targets), posted \cup seen.taken)
<1> SUFFICES ASSUME NEW be \in {<<>>, BreakEvenDue(seen, candles)}
             PROVE  LET s == be \o TpTakePlan(seen, posted) \o <<Command("save", 0, 0)>>
                    IN  /\ s \in Seq(Front) /\ s # <<>>
                        /\ AboutOnce(s, Len(Targets), posted \cup seen.taken)
  OBVIOUS
<1> DEFINE tp == TpTakePlan(seen, posted)
<1> DEFINE out == posted \cup seen.taken
<1> DEFINE mv == Command("move", Entry, 0)
<1> DEFINE sv == Command("save", 0, 0)
<1>1. mv \in Front /\ ~AboutTarget(mv)
  BY DEF Front, Command, AboutTarget
<1>2. sv \in Front /\ ~AboutTarget(sv)
  BY DEF Front, Command, AboutTarget
<1>3. be = <<>> \/ be = <<mv>>
  BY DEF BreakEvenDue
<1>4. TakeOrders \subseteq Front
  BY DEF TakeOrders, Front
<1>5. tp \in Seq(Front) /\ AboutOnce(tp, Len(Targets), out)
  <2>1. tp \in Seq(TakeOrders) /\ AboutOnce(tp, Len(Targets), out)
    BY TpTakePlanList
  <2> HIDE DEF tp
  <2> QED BY <1>4, <2>1
<1> HIDE DEF tp, out, mv, sv
<1>6. be \in Seq(Front) /\ \A k \in DOMAIN be : ~AboutTarget(be[k])
  BY <1>1, <1>3, OneCall
<1>7. <<sv>> \in Seq(Front) /\ \A k \in DOMAIN <<sv>> : ~AboutTarget(<<sv>>[k])
  BY <1>2, OneCall
<1>8. be \o tp \in Seq(Front) /\ AboutOnce(be \o tp, Len(Targets), out)
  BY <1>5, <1>6, AboutMore, Joined
<1>9. /\ (be \o tp) \o <<sv>> \in Seq(Front)
      /\ AboutOnce((be \o tp) \o <<sv>>, Len(Targets), out)
      /\ Len((be \o tp) \o <<sv>>) = Len(be \o tp) + 1
  <2>1. AboutOnce((be \o tp) \o <<sv>>, Len(Targets), out)
    BY <1>7, <1>8, AboutMore
  <2>2. (be \o tp) \o <<sv>> \in Seq(Front) /\ Len((be \o tp) \o <<sv>>) = Len(be \o tp) + Len(<<sv>>)
    BY <1>7, <1>8, Joined
  <2> QED BY <1>2, <2>1, <2>2, OneCall
<1>10. (be \o tp) \o <<sv>> # <<>>
  <2>1. Len(be \o tp) \in Nat
    BY <1>8
  <2> QED BY <1>9, <2>1
<1> QED BY <1>9, <1>10 DEF tp, out, sv

\* The action of the plan: the planned stop only where there is none, a part
\* sold comes first and its tag last.
Manage == [do : {"move"}, level : {PlannedStop, BreakEven}, amount : {0}]
            \cup [do : {"trail"}, level : 0..MaxPrice, amount : {0}]
            \cup [do : {"partial"}, level : {5, 10}, amount : Tags]
            \cup [do : {"tag"}, level : {0}, amount : Tags]

ManageList(s, seen, hasStop) ==
  /\ s \in Seq(Manage)
  /\ \A k \in DOMAIN s : s[k].do = "move" /\ s[k].level = PlannedStop => ~hasStop
  /\ \A k \in DOMAIN s : s[k].do = "tag" =>
       k = Len(s) /\ s[1].do = "partial" /\ s[1].amount = s[k].amount
  /\ \A k \in DOMAIN s : s[k].do = "partial" =>
       k = 1 /\ s[Len(s)] = Command("tag", 0, s[k].amount) /\ s[k].amount \notin seen.managed

Then(seen) == [do : {"move"}, level : {BreakEven}, amount : {0}]
                \cup [do : {"trail"}, level : 0..MaxPrice, amount : {0}]

LEMMA ThenList ==
  ASSUME NEW seen \in Seen, NEW candles, NEW hasStop
  PROVE  /\ Tighten(seen) \in Seq(Then(seen)) /\ Trail(seen, candles) \in Seq(Then(seen))
         /\ \A s \in Seq(Then(seen)) : ManageList(s, seen, hasStop)
<1>1. /\ Command("move", BreakEven, 0) \in Then(seen)
      /\ Command("trail", seen.px, 0) \in Then(seen)
  BY DEF Then, Command, Seen
<1>2. Tighten(seen) \in Seq(Then(seen)) /\ Trail(seen, candles) \in Seq(Then(seen))
  BY <1>1, OneCall DEF Tighten, Trail
<1>3. ASSUME NEW s \in Seq(Then(seen)) PROVE ManageList(s, seen, hasStop)
  <2>1. \A k \in DOMAIN s : s[k] \in Then(seen)
    OBVIOUS
  <2>2. \A c \in Then(seen) : c \in Manage /\ c.do \in {"move", "trail"}
                                /\ (c.do = "move" => c.level = BreakEven)
    BY DEF Then, Manage
  <2>3. BreakEven # PlannedStop
    BY ConstantsAssumption DEF BreakEven
  <2>4. s \in Seq(Manage)
    BY <2>2
  <2> QED BY <2>1, <2>2, <2>3, <2>4 DEF ManageList
<1> QED BY <1>2, <1>3

LEMMA OneShotList ==
  ASSUME NEW seen \in Seen, NEW tag \in Tags, NEW fraction \in {5, 10},
         NEW then \in Seq(Then(seen)), NEW hasStop
  PROVE  ManageList(OneShot(tag, fraction, seen, then), seen, hasStop)
<1>1. CASE tag \in seen.managed
  <2>1. OneShot(tag, fraction, seen, then) = <<>>
    BY <1>1 DEF OneShot
  <2> QED BY <2>1 DEF ManageList
<1>2. CASE tag \notin seen.managed
  <2> DEFINE c == Command("partial", fraction, tag)
  <2> DEFINE d == Command("tag", 0, tag)
  <2> DEFINE s == <<c>> \o then \o <<d>>
  <2>1. OneShot(tag, fraction, seen, then) = s
    BY <1>2 DEF OneShot
  <2>2. c \in Manage /\ c.do = "partial" /\ c.amount = tag
    BY DEF Manage, Command
  <2>3. d \in Manage /\ d.do = "tag" /\ d.amount = tag
    BY DEF Manage, Command
  <2>4. \A a \in Then(seen) : a \in Manage /\ a.do \in {"move", "trail"}
                                /\ (a.do = "move" => a.level # PlannedStop)
    BY ConstantsAssumption DEF Then, Manage, BreakEven
  <2>5. /\ then \in Seq(Manage) /\ Len(then) \in Nat /\ DOMAIN then = 1..Len(then)
        /\ \A k \in 1..Len(then) : then[k] \in Then(seen)
    BY <2>4
  <2> HIDE DEF c, d
  <2>6. s \in Seq(Manage) /\ Len(s) = Len(then) + 2 /\ DOMAIN s = 1..Len(then) + 2
    BY <2>2, <2>3, <2>5
  <2>7. s[1] = c /\ s[Len(then) + 2] = d
    BY <2>2, <2>3, <2>5
  <2>8. \A k \in 2..Len(then) + 1 : s[k] = then[k - 1]
    BY <2>2, <2>3, <2>5
  <2> HIDE DEF s
  <2>9. \A k \in DOMAIN s : \/ k = 1 /\ s[k] = c
                            \/ k = Len(s) /\ s[k] = d
                            \/ s[k] \in Then(seen)
    BY <2>5, <2>6, <2>7, <2>8
  <2>10. s[1] = c /\ s[Len(s)] = d
    BY <2>6, <2>7
  <2>11. ManageList(s, seen, hasStop)
    BY <1>2, <2>2, <2>3, <2>4, <2>6, <2>9, <2>10 DEF ManageList, d
  <2> QED BY <2>1, <2>11
<1> QED BY <1>1, <1>2

LEMMA IntentsList ==
  ASSUME NEW seen \in Seen, NEW verdict \in Verdicts, NEW hasStop \in BOOLEAN, NEW candles
  PROVE  ManageList(Intents(ActionOf(verdict, hasStop), seen, candles), seen, hasStop)
<1> DEFINE action == ActionOf(verdict, hasStop)
<1>1. action = "place_sl" => ~hasStop
  BY ConstantsAssumption DEF ActionOf, Actions
<1> HIDE DEF action
<1>2. ManageList(<<>>, seen, hasStop) /\ <<>> \in Seq(Then(seen))
  BY DEF ManageList
<1>3. ~hasStop => ManageList(<<Command("move", PlannedStop, 0)>>, seen, hasStop)
  <2>1. Command("move", PlannedStop, 0) \in Manage /\ Command("move", PlannedStop, 0).do = "move"
    BY DEF Command, Manage
  <2> QED BY <2>1, OneCall DEF ManageList
<1>4. /\ ManageList(OneShot("time_stop", 10, seen, <<>>), seen, hasStop)
      /\ ManageList(OneShot("be", 5, seen, Tighten(seen)), seen, hasStop)
      /\ ManageList(OneShot("lock", 5, seen, Tighten(seen) \o Trail(seen, candles)), seen, hasStop)
  <2>1. Tighten(seen) \o Trail(seen, candles) \in Seq(Then(seen))
    BY ThenList
  <2> QED BY <1>2, <2>1, ThenList, OneShotList DEF Tags
<1>5. ManageList(Tighten(seen), seen, hasStop) /\ ManageList(Trail(seen, candles), seen, hasStop)
  BY ThenList
<1>6. \/ Intents(action, seen, candles) \in
           {<<>>, OneShot("time_stop", 10, seen, <<>>), Trail(seen, candles), Tighten(seen),
            OneShot("be", 5, seen, Tighten(seen)),
            OneShot("lock", 5, seen, Tighten(seen) \o Trail(seen, candles))}
      \/ action = "place_sl" /\ Intents(action, seen, candles) = <<Command("move", PlannedStop, 0)>>
  BY DEF Intents
<1> QED BY <1>1, <1>2, <1>3, <1>4, <1>5, <1>6 DEF action

\* The whole plan of a tick.
PlanIsSound(t, s, seen, hasStop, posted) ==
  /\ s \in Seq(Commands(t)) /\ s # <<>>
  /\ \A k \in DOMAIN s : s[k].do \in {"partial", "tag"} => t \in Managing
  /\ \A k \in DOMAIN s : s[k].do = "move" =>
       s[k].level \in {Entry, BreakEven} \/ (s[k].level = PlannedStop /\ ~hasStop)
  /\ \A k \in DOMAIN s : s[k].do = "tag" =>
       k = Len(s) /\ \E j \in DOMAIN s : s[j].do = "partial" /\ s[j].amount = s[k].amount
  /\ \A k \in DOMAIN s : s[k].do = "partial" =>
       /\ s[Len(s)] = Command("tag", 0, s[k].amount) /\ s[k].amount \notin seen.managed
       /\ \A j \in DOMAIN s : s[j].do = "partial" => j = k
  /\ AboutOnce(s, Len(Targets), posted \cup seen.taken)

LEMMA PlanList ==
  ASSUME NEW t \in Ticks, NEW seen \in Seen, NEW hasStop \in BOOLEAN, NEW posted,
         NEW verdict \in Verdicts, NEW candles
  PROVE  PlanIsSound(t, Plan(t, seen, hasStop, posted, verdict, candles), seen, hasStop, posted)
<1> DEFINE be == IF t \in Managing THEN BreakEvenDue(seen, candles) ELSE <<>>
<1> DEFINE a == be \o TpTakePlan(seen, posted) \o <<Command("save", 0, 0)>>
<1> DEFINE m == IF t \in Managing THEN Intents(ActionOf(verdict, hasStop), seen, candles) ELSE <<>>
<1> DEFINE s == a \o m
<1> DEFINE out == posted \cup seen.taken
<1>1. Plan(t, seen, hasStop, posted, verdict, candles) = s
  BY DEF Plan
<1>2. a \in Seq(Front) /\ a # <<>> /\ AboutOnce(a, Len(Targets), out)
  BY FrontList
<1>3. ManageList(m, seen, hasStop) /\ (m # <<>> => t \in Managing)
  <2>1. ManageList(<<>>, seen, hasStop)
    BY DEF ManageList
  <2> QED BY <2>1, IntentsList
<1>4. m \in Seq(Manage)
  BY <1>3 DEF ManageList
<1> HIDE DEF a, m
<1>5. t # Routine
  BY ConstantsAssumption
<1>6. \A c \in Front : c \in Commands(t) /\ c.do \in {"move", "bank", "repost", "save"}
                         /\ (c.do = "move" => c.level = Entry)
  BY <1>5 DEF Front, Commands
<1>7. \A c \in Manage : c \in Commands(t) /\ ~AboutTarget(c)
                          /\ (c.do = "move" => c.level \in {PlannedStop, BreakEven})
  BY <1>5 DEF Manage, Commands, AboutTarget
<1>8. /\ a \in Seq(Commands(t)) /\ m \in Seq(Commands(t))
      /\ \A k \in DOMAIN a : a[k] \in Front
      /\ \A k \in DOMAIN m : m[k] \in Manage
  BY <1>2, <1>4, <1>6, <1>7
<1>9. /\ Len(a) \in Nat \ {0} /\ Len(m) \in Nat /\ Len(s) = Len(a) + Len(m)
      /\ s \in Seq(Commands(t)) /\ DOMAIN m = 1..Len(m) /\ DOMAIN s = 1..Len(s)
  <2>1. Len(a) \in Nat \ {0}
    BY <1>2
  <2> QED BY <1>8, <2>1, Joined
<1>10. \A k \in DOMAIN s :
         \/ s[k] \in Front
         \/ k - Len(a) \in DOMAIN m /\ s[k] = m[k - Len(a)]
  <2> SUFFICES ASSUME NEW k \in DOMAIN s
               PROVE  s[k] \in Front \/ (k - Len(a) \in DOMAIN m /\ s[k] = m[k - Len(a)])
    OBVIOUS
  <2>1. CASE k \in DOMAIN a
    BY <1>8, <2>1, Joined
  <2>2. CASE k \notin DOMAIN a
    <3>1. k - Len(a) \in DOMAIN m /\ s[(k - Len(a)) + Len(a)] = m[k - Len(a)]
      BY <1>8, <2>2, Joined
    <3>2. (k - Len(a)) + Len(a) = k
      BY <1>9
    <3> QED BY <3>1, <3>2
  <2> QED BY <2>1, <2>2
<1>11. \A j \in DOMAIN m : j + Len(a) \in DOMAIN s /\ s[j + Len(a)] = m[j]
  BY <1>8, Joined
<1>12. AboutOnce(s, Len(Targets), out)
  BY <1>2, <1>7, <1>8, AboutMore
<1>13. s # <<>>
  BY <1>9
<1>14. \A k \in DOMAIN s : s[k].do \in {"partial", "tag"} =>
         k - Len(a) \in DOMAIN m /\ s[k] = m[k - Len(a)]
  BY <1>6, <1>10
<1> HIDE DEF s
<1>15. \A k \in DOMAIN s : s[k].do \in {"partial", "tag"} => t \in Managing
  BY <1>3, <1>14
<1>16. ASSUME NEW k \in DOMAIN s, s[k].do = "move"
       PROVE  s[k].level \in {Entry, BreakEven} \/ (s[k].level = PlannedStop /\ ~hasStop)
  BY <1>3, <1>6, <1>7, <1>8, <1>10, <1>16 DEF ManageList
<1>17. ASSUME NEW k \in DOMAIN s, s[k].do = "tag"
       PROVE  k = Len(s) /\ \E j \in DOMAIN s : s[j].do = "partial" /\ s[j].amount = s[k].amount
  <2>1. k - Len(a) \in DOMAIN m /\ s[k] = m[k - Len(a)]
    BY <1>14, <1>17
  <2>2. k - Len(a) = Len(m) /\ m[1].do = "partial" /\ m[1].amount = s[k].amount
    BY <1>3, <1>17, <2>1 DEF ManageList
  <2>3. 1 \in DOMAIN m
    BY <1>9, <2>1
  <2>4. 1 + Len(a) \in DOMAIN s /\ s[1 + Len(a)] = m[1]
    BY <1>11, <2>3
  <2> QED BY <1>9, <2>2, <2>4
<1>18. ASSUME NEW k \in DOMAIN s, s[k].do = "partial"
       PROVE  /\ s[Len(s)] = Command("tag", 0, s[k].amount) /\ s[k].amount \notin seen.managed
              /\ \A j \in DOMAIN s : s[j].do = "partial" => j = k
  <2>1. k - Len(a) \in DOMAIN m /\ s[k] = m[k - Len(a)]
    BY <1>14, <1>18
  <2>2. /\ k - Len(a) = 1 /\ s[k].amount \notin seen.managed
        /\ m[Len(m)] = Command("tag", 0, s[k].amount)
    BY <1>3, <1>18, <2>1 DEF ManageList
  <2>3. s[Len(s)] = m[Len(m)]
    <3>1. Len(m) \in DOMAIN m /\ Len(s) = Len(m) + Len(a)
      BY <1>9, <2>1
    <3> QED BY <1>11, <3>1
  <2>4. ASSUME NEW j \in DOMAIN s, s[j].do = "partial" PROVE j = k
    <3>1. j - Len(a) \in DOMAIN m /\ s[j] = m[j - Len(a)]
      BY <1>14, <2>4
    <3>2. j - Len(a) = 1
      BY <1>3, <2>4, <3>1 DEF ManageList
    <3> QED BY <1>9, <2>2, <3>2
  <2> QED BY <2>2, <2>3, <2>4
<1> QED BY <1>1, <1>9, <1>12, <1>13, <1>15, <1>16, <1>17, <1>18 DEF PlanIsSound

\* What a tick decides, from what it has looked at and what it fetches.
LEMMA DecideFacts ==
  ASSUME TypeOK, NEW t \in Ticks, Decide(t)
  PROVE  \E fetched \in BOOLEAN, hasStop \in BOOLEAN :
           /\ PlanIsSound(t, todo'[t], looked[t], hasStop, {i \in Indices : fetched /\ tps[i] > 0})
           /\ fetched /\ ~hasStop => stops = NoStops
           /\ disturbed' = disturbed \cup (IF fetched THEN {} ELSE {"fetch"})
           /\ DOMAIN todo' = Procs /\ \A q \in Procs : q # t => todo'[q] = todo[q]
<1> DEFINE Fetched == IF "fetch" \in Faults THEN BOOLEAN ELSE {TRUE}
           Read    == IF "candles" \in Faults THEN BOOLEAN ELSE {TRUE}
           Listed  == IF trail = NoTrail THEN {FALSE} ELSE BOOLEAN
           Decides(fetched, candles, listed, verdict) ==
             /\ todo' = [todo EXCEPT ![t] =
                  Plan(t, looked[t], fetched /\ (stops # NoStops \/ listed),
                       {i \in Indices : fetched /\ tps[i] > 0}, verdict, candles)]
             /\ Disturb(IF fetched THEN {} ELSE {"fetch"})
<1>a. \E fetched \in Fetched, candles \in Read, listed \in Listed, verdict \in Verdicts :
        Decides(fetched, candles, listed, verdict)
  BY DEF Decide
<1>b. Fetched \subseteq BOOLEAN /\ Read \subseteq BOOLEAN /\ Listed \subseteq BOOLEAN
  OBVIOUS
<1>c. PICK fetched \in BOOLEAN, candles \in BOOLEAN, listed \in BOOLEAN, verdict \in Verdicts :
        Decides(fetched, candles, listed, verdict)
  <2> HIDE DEF Fetched, Read, Listed, Decides
  <2> QED BY <1>a, <1>b
<1>1. /\ todo' = [todo EXCEPT ![t] =
           Plan(t, looked[t], fetched /\ (stops # NoStops \/ listed),
                {i \in Indices : fetched /\ tps[i] > 0}, verdict, candles)]
      /\ Disturb(IF fetched THEN {} ELSE {"fetch"})
  BY <1>c
<1> DEFINE hasStop == fetched /\ (stops # NoStops \/ listed)
<1>2. t \in Procs /\ looked[t] \in Seen /\ hasStop \in BOOLEAN /\ DOMAIN todo = Procs
  <2>1. looked \in [Procs -> Seen] /\ DOMAIN todo = Procs
    BY DEF TypeOK, Seen
  <2> QED BY <2>1 DEF Procs
<1>3. todo'[t] = Plan(t, looked[t], hasStop, {i \in Indices : fetched /\ tps[i] > 0}, verdict, candles)
  BY <1>1, <1>2
<1>4. fetched /\ ~hasStop => stops = NoStops
  OBVIOUS
<1> HIDE DEF hasStop
<1>5. PlanIsSound(t, todo'[t], looked[t], hasStop, {i \in Indices : fetched /\ tps[i] > 0})
  BY <1>2, <1>3, PlanList
<1>6. DOMAIN todo' = Procs /\ \A q \in Procs : q # t => todo'[q] = todo[q]
  BY <1>1, <1>2
<1> QED BY <1>1, <1>2, <1>4, <1>5, <1>6 DEF Disturb

-----------------------------------------------------------------------------
(* Types                                                                    *)

\* What a process has to do first.
LEMMA HeadType ==
  ASSUME TypeOK, NEW p \in Procs, todo[p] # <<>>
  PROVE  Head(todo[p]) \in Commands(p) /\ Head(todo[p]) = todo[p][1]
<1>1. todo[p] \in Seq(Commands(p))
  BY DEF TypeOK
<1> QED BY <1>1, TailOf

\* After a call, the others have the same to do, and the process one call less.
LEMMA DoneType ==
  ASSUME TypeOK, NEW p \in Procs, todo[p] # <<>>, Done(p)
  PROVE  /\ DOMAIN todo' = Procs /\ \A q \in Procs : todo'[q] \in Seq(Commands(q))
         /\ todo'[p] = Tail(todo[p]) /\ \A q \in Procs \ {p} : todo'[q] = todo[q]
         /\ stage' \in [Procs -> {"start", "found", "cancelled"}]
         /\ found' \in [Procs -> [Levels -> Nat]] /\ held' \in [Procs -> 0..Size]
<1>1. todo' = [todo EXCEPT ![p] = Tail(@)] /\ DOMAIN todo = Procs
  BY DEF TypeOK, Done
<1>2. /\ DOMAIN todo' = Procs /\ todo'[p] = Tail(todo[p])
      /\ \A q \in Procs \ {p} : todo'[q] = todo[q]
  BY <1>1
<1>3. todo[p] \in Seq(Commands(p)) /\ Tail(todo[p]) \in Seq(Commands(p))
  <2>1. todo[p] \in Seq(Commands(p))
    BY DEF TypeOK
  <2> QED BY <2>1, TailOf
<1>4. \A q \in Procs : todo'[q] \in Seq(Commands(q))
  BY <1>2, <1>3 DEF TypeOK
<1>5. /\ stage' \in [Procs -> {"start", "found", "cancelled"}]
      /\ found' \in [Procs -> [Levels -> Nat]] /\ held' \in [Procs -> 0..Size]
  BY ConstantsAssumption DEF TypeOK, Done, NoStops
<1> QED BY <1>2, <1>4, <1>5

LEMMA TypeInit == Init => TypeOK
<1> SUFFICES ASSUME Init PROVE TypeOK
  OBVIOUS
<1>1. stops \in [Levels -> Nat]
  BY DEF Init
<1>2. DOMAIN todo = Procs /\ \A p \in Procs : todo[p] \in Seq(Commands(p))
  BY DEF Init
<1>3. px \in Levels
  BY ConstantsAssumption DEF Init, Levels
<1>4. /\ looked \in [Procs -> Seen] /\ banked \in [Procs -> SUBSET Indices]
      /\ held \in [Procs -> 0..Size] /\ found \in [Procs -> [Levels -> Nat]]
      /\ stage \in [Procs -> {"start", "found", "cancelled"}]
  BY ConstantsAssumption DEF Init, Nothing, NoStops, Seen
<1>5. trail \in [at : 0..MaxPrice, stop : 0..MaxPrice] /\ size \in 0..Size
  BY ConstantsAssumption DEF Init, NoTrail
<1>6. InForce \in 0..MaxPrice
  <2> DEFINE all == StopLevels \cup {trail.stop, 0}
  <2>1. MaxPrice \in Nat /\ all \in SUBSET (0..MaxPrice) /\ all # {}
    BY <1>5, ConstantsAssumption DEF StopLevels, Levels
  <2>2. \E l \in all : \A m \in all : m <= l
    BY <2>1, Greatest
  <2> QED BY <2>1, <2>2 DEF InForce
<1>7. floor \in 0..MaxPrice /\ disturbed \subseteq Disturbances
  BY <1>6 DEF Init, Disturbances
<1>8. units \in [Indices -> Nat] /\ cuts \in [Tags -> Nat]
  BY DEF Init
<1>9. tps \in [Indices -> Nat]
  <2>1. tps \in [Indices -> {0, 1}]
    BY DEF Init
  <2> QED BY <2>1
<1>10. taken \subseteq Indices /\ managed \subseteq Tags /\ touched \in BOOLEAN /\ due \in BOOLEAN
  BY DEF Init
<1> QED BY <1>1, <1>2, <1>3, <1>4, <1>5, <1>7, <1>8, <1>9, <1>10 DEF TypeOK, Seen

LEMMA MishapType == \A fate, possible : Mishap(fate, possible) \subseteq Disturbances
BY DEF Mishap, Disturbances

\* A stop is moved to a level of the grid.
LEMMA MoveLevel ==
  ASSUME TypeOK, NEW p \in Procs, todo[p] # <<>>, Head(todo[p]).do = "move"
  PROVE  Head(todo[p]).level \in Levels
<1>1. Head(todo[p]).level \in {PlannedStop, Entry, BreakEven} \cup RoutineStops
  BY HeadType DEF Commands
<1>2. {PlannedStop, Entry, Entry + 1} \cup RoutineStops \subseteq Levels
  BY ConstantsAssumption DEF Levels
<1> QED BY <1>1, <1>2 DEF BreakEven

\* A position that is closed is not opened again.
LEMMA StaysClosed ==
  ASSUME TypeOK, NEW p \in Procs, SellPart(p) \/ Bank(p)
  PROVE  size = 0 => size' = 0
<1> SUFFICES ASSUME size = 0 PROVE size' = 0
  OBVIOUS
<1>1. ~(size > 0)
  OBVIOUS
<1>2. CASE SellPart(p)
  <2>1. PICK fate \in Fate(size > 0 /\ held[p] > 0) :
          size' = IF fate = "refused" THEN size ELSE size - Smaller(held[p], size)
    BY <1>2 DEF SellPart
  <2>2. Fate(size > 0 /\ held[p] > 0) = {"refused"}
    BY <1>1 DEF Fate
  <2> QED BY <2>1, <2>2
<1>3. CASE Bank(p)
  <2>1. PICK fate \in Fate(size > 0) :
          size' = IF fate = "refused" THEN size ELSE size - Smaller(Head(todo[p]).amount, size)
    BY <1>3 DEF Bank
  <2>2. Fate(size > 0) = {"refused"}
    BY <1>1 DEF Fate
  <2> QED BY <2>1, <2>2
<1> QED BY <1>2, <1>3

\* Each action keeps the types.
LEMMA TypeStep == TypeOK /\ [Next]_vars => TypeOK'
<1> SUFFICES ASSUME TypeOK, [Next]_vars PROVE TypeOK'
  OBVIOUS
<1> USE ConstantsAssumption
<1> DEFINE Same == /\ DOMAIN todo' = Procs /\ \A q \in Procs : todo'[q] \in Seq(Commands(q))
                   /\ stage' \in [Procs -> {"start", "found", "cancelled"}]
                   /\ found' \in [Procs -> [Levels -> Nat]] /\ held' \in [Procs -> 0..Size]
<1>a. /\ looked \in [Procs -> Seen] /\ banked \in [Procs -> SUBSET Indices]
      /\ Ticks \subseteq Procs /\ Nothing \in Seen
  <2>1. looked \in [Procs -> Seen] /\ banked \in [Procs -> SUBSET Indices]
    BY DEF TypeOK, Seen
  <2>2. Ticks \subseteq Procs
    BY DEF Procs
  <2>3. Nothing \in Seen
    BY DEF Nothing, Seen
  <2> QED BY <2>1, <2>2, <2>3
<1>b. /\ px \in 1..MaxPrice /\ size \in 0..Size /\ Size \in Nat /\ taken \subseteq Indices
      /\ managed \subseteq Tags /\ disturbed \subseteq Disturbances
  <2>1. /\ px \in Levels /\ size \in 0..Size /\ taken \subseteq Indices
        /\ managed \subseteq Tags /\ disturbed \subseteq Disturbances
    BY DEF TypeOK
  <2>2. Size \in Nat
    BY ConstantsAssumption
  <2> QED BY <2>1, <2>2 DEF Levels
<1>c. /\ stops \in [Levels -> Nat] /\ tps \in [Indices -> Nat] /\ units \in [Indices -> Nat]
      /\ cuts \in [Tags -> Nat] /\ trail \in [at : 0..MaxPrice, stop : 0..MaxPrice]
      /\ floor \in 0..MaxPrice
  BY DEF TypeOK
<1>d. /\ stage \in [Procs -> {"start", "found", "cancelled"}]
      /\ found \in [Procs -> [Levels -> Nat]] /\ held \in [Procs -> 0..Size]
      /\ NoStops \in [Levels -> Nat]
  BY DEF TypeOK, NoStops
<1>1. ASSUME NEW t \in Ticks, Look(t) PROVE TypeOK'
  <2>1. looked' \in [Procs -> Seen] /\ banked' \in [Procs -> SUBSET Indices]
    <3>1. [size |-> size, px |-> px, taken |-> taken, managed |-> managed] \in Seen
      BY <1>b DEF Seen
    <3> QED BY <1>1, <1>a, <3>1 DEF Look
  <2>2. disturbed' \subseteq Disturbances
    BY <1>1 DEF TypeOK, Look, Disturb, Disturbances
  <2> QED BY <1>1, <2>1, <2>2 DEF TypeOK, Look, Seen, market, account, line
<1>2. ASSUME NEW t \in Ticks, Decide(t) PROVE TypeOK'
  <2>1. /\ todo'[t] \in Seq(Commands(t)) /\ disturbed' \subseteq disturbed \cup {"fetch"}
        /\ DOMAIN todo' = Procs /\ \A q \in Procs : q # t => todo'[q] = todo[q]
    <3> DEFINE Posted(fetched) == {i \in Indices : fetched /\ tps[i] > 0}
    <3>1. \E fetched \in BOOLEAN, hasStop \in BOOLEAN :
            /\ PlanIsSound(t, todo'[t], looked[t], hasStop, Posted(fetched))
            /\ fetched /\ ~hasStop => stops = NoStops
            /\ disturbed' = disturbed \cup (IF fetched THEN {} ELSE {"fetch"})
            /\ DOMAIN todo' = Procs /\ \A q \in Procs : q # t => todo'[q] = todo[q]
      BY <1>2, DecideFacts
    <3> HIDE DEF Posted
    <3>2. todo'[t] \in Seq(Commands(t))
      BY <3>1 DEF PlanIsSound
    <3>3. disturbed' \subseteq disturbed \cup {"fetch"}
      BY <3>1
    <3> QED BY <3>1, <3>2, <3>3
  <2>4. \A q \in Procs : todo'[q] \in Seq(Commands(q))
    BY <2>1 DEF TypeOK
  <2>5. looked' \in [Procs -> Seen]
    BY <1>2, <1>a DEF Decide
  <2>6. disturbed' \subseteq Disturbances
    BY <1>b, <2>1 DEF Disturbances
  <2> QED BY <1>2, <2>1, <2>4, <2>5, <2>6 DEF TypeOK, Decide, Seen, market, account, line
<1>3. ASSUME NEW l \in RoutineStops, RoutineMoves(l) PROVE TypeOK'
  <2>1. Command("move", l, 0) \in Commands(Routine)
    BY DEF Command, Commands
  <2>2. <<Command("move", l, 0)>> \in Seq(Commands(Routine))
    BY <2>1, OneCall
  <2>3. DOMAIN todo' = Procs /\ \A q \in Procs : todo'[q] \in Seq(Commands(q))
    BY <1>3, <2>2 DEF RoutineMoves, TypeOK
  <2>4. disturbed' \subseteq Disturbances
    BY <1>3 DEF RoutineMoves, TypeOK, Disturb, Disturbances
  <2> QED BY <1>3, <2>3, <2>4 DEF TypeOK, RoutineMoves, market, account, line
<1>4. ASSUME NEW p \in Procs, CallThrows(p) PROVE TypeOK'
  <2>1. todo[p] # <<>> /\ Done(p)
    BY <1>4 DEF CallThrows, At
  <2>2. Same
    BY <2>1, DoneType
  <2> QED BY <1>4, <2>2 DEF TypeOK, CallThrows, market, account, line, history
<1>5. ASSUME NEW p \in Procs, FindStops(p) PROVE TypeOK'
  <2>1. found' \in [Procs -> [Levels -> Nat]] /\ stage' \in [Procs -> {"start", "found", "cancelled"}]
    BY <1>5 DEF FindStops, TypeOK, NoStops
  <2>2. disturbed' \subseteq Disturbances
    BY <1>5 DEF FindStops, TypeOK, Disturb, Disturbances
  <2> QED BY <1>5, <2>1, <2>2 DEF TypeOK, FindStops, market, account, line
<1>6. ASSUME NEW p \in Procs, CancelStops(p) PROVE TypeOK'
  <2>1. \A l \in Levels : stops[l] - Smaller(found[p][l], stops[l]) \in Nat
    <3>1. \A l \in Levels : stops[l] \in Nat /\ found[p][l] \in Nat
      BY DEF TypeOK
    <3>2. \A a, b \in Nat : b - Smaller(a, b) \in Nat
      BY DEF Smaller
    <3> QED BY <3>1, <3>2
  <2>2. stops' \in [Levels -> Nat] /\ stage' \in [Procs -> {"start", "found", "cancelled"}]
    <3>1. PICK kept : stops' = [l \in Levels |-> IF l \in kept THEN stops[l]
                                                 ELSE stops[l] - Smaller(found[p][l], stops[l])]
      BY <1>6 DEF CancelStops
    <3>2. stage' = [stage EXCEPT ![p] = "cancelled"]
      BY <1>6 DEF CancelStops
    <3>3. stops' \in [Levels -> Nat]
      BY <1>c, <2>1, <3>1
    <3> QED BY <1>d, <3>2, <3>3
  <2> QED BY <1>6, <2>2 DEF TypeOK, CancelStops, market, account, line, history
<1>7. ASSUME NEW p \in Procs, CreateStop(p) PROVE TypeOK'
  <2>1. todo[p] # <<>> /\ Done(p) /\ Head(todo[p]).do = "move"
    BY <1>7 DEF CreateStop, At
  <2>2. Same
    BY <2>1, DoneType
  <2>3. Head(todo[p]).level \in Levels
    BY <2>1, MoveLevel
  <2>4. stops' \in [Levels -> Nat]
    BY <1>7, <1>c, <2>3 DEF CreateStop
  <2>5. floor' \in 0..MaxPrice
    BY <1>7, <1>c, <2>3 DEF CreateStop, Levels
  <2>6. disturbed' \subseteq Disturbances
    BY <1>7, <1>b, MishapType DEF CreateStop, Disturb
  <2> QED BY <1>7, <2>2, <2>4, <2>5, <2>6 DEF TypeOK, CreateStop, market, account, line
<1>8. ASSUME NEW p \in Procs, SetTrailing(p) PROVE TypeOK'
  <2>1. todo[p] # <<>> /\ Done(p) /\ Head(todo[p]).do = "trail"
    BY <1>8 DEF SetTrailing, At
  <2>2. Same
    BY <2>1, DoneType
  <2>3. Head(todo[p]).level \in 0..MaxPrice
    BY <2>1, HeadType DEF Commands
  <2>4. trail' \in [at : 0..MaxPrice, stop : 0..MaxPrice]
    BY <1>8, <2>3 DEF SetTrailing, TypeOK, Levels
  <2>5. disturbed' \subseteq Disturbances
    BY <1>8, MishapType DEF SetTrailing, TypeOK, Disturb, Disturbances
  <2> QED BY <1>8, <2>2, <2>4, <2>5 DEF TypeOK, SetTrailing, market, account, line
<1>9. ASSUME NEW p \in Procs, ReadSize(p) PROVE TypeOK'
  <2>1. todo[p] # <<>> /\ Head(todo[p]).do = "partial"
    BY <1>9 DEF ReadSize, At
  <2>2. Head(todo[p]).level \in {5, 10}
    BY <2>1, HeadType DEF Commands
  <2>3. (Head(todo[p]).level * size) \div 10 \in 0..Size
    <3>1. (5 * size) \div 10 \in 0..Size /\ (10 * size) \div 10 \in 0..Size
      BY <1>b
    <3> QED BY <2>2, <3>1
  <2>4. held' \in [Procs -> 0..Size] /\ stage' \in [Procs -> {"start", "found", "cancelled"}]
    BY <1>9, <2>3 DEF ReadSize, TypeOK
  <2> QED BY <1>9, <2>4 DEF TypeOK, ReadSize, market, account, line, history
<1>10. ASSUME NEW p \in Procs, SellPart(p) PROVE TypeOK'
  <2>1. todo[p] # <<>> /\ Done(p) /\ Head(todo[p]).do = "partial"
    BY <1>10 DEF SellPart, At
  <2>2. Same
    BY <2>1, DoneType
  <2>3. Head(todo[p]).amount \in Tags
    BY <2>1, HeadType DEF Commands
  <2>4. size' \in 0..Size
    <3>1. size' = size \/ size' = size - Smaller(held[p], size)
      BY <1>10 DEF SellPart
    <3>2. Smaller(held[p], size) \in 0..size
      BY <1>b DEF TypeOK, Smaller
    <3> QED BY <1>b, <3>1, <3>2
  <2>5. cuts' \in [Tags -> Nat]
    <3>1. cuts' = cuts \/ cuts' = [cuts EXCEPT ![Head(todo[p]).amount] = @ + 1]
      BY <1>10 DEF SellPart
    <3> QED BY <1>c, <2>3, <3>1
  <2>6. disturbed' \subseteq Disturbances
    <3>1. \E fate, possible : disturbed' = disturbed \cup Mishap(fate, possible)
      BY <1>10 DEF SellPart, Disturb
    <3> QED BY <1>b, <3>1, MishapType
  <2> QED BY <1>10, <2>2, <2>4, <2>5, <2>6 DEF TypeOK, SellPart, market, account, line
<1>11. ASSUME NEW p \in Procs, Bank(p) PROVE TypeOK'
  <2>1. todo[p] # <<>> /\ Done(p) /\ Head(todo[p]).do = "bank"
    BY <1>11 DEF Bank, At
  <2>2. Same
    BY <2>1, DoneType
  <2>3. Head(todo[p]).level \in Indices /\ Head(todo[p]).amount \in 0..Size
    BY <2>1, HeadType DEF Commands
  <2>4. Smaller(Head(todo[p]).amount, size) \in 0..size /\ size \in 0..Size
    BY <1>b, <2>3 DEF Smaller
  <2>5. size' \in 0..Size
    <3>1. size' = size \/ size' = size - Smaller(Head(todo[p]).amount, size)
      BY <1>11 DEF Bank
    <3> QED BY <2>4, <3>1
  <2>6. units' \in [Indices -> Nat]
    <3> DEFINE i == Head(todo[p]).level
               n == Smaller(Head(todo[p]).amount, size)
    <3>1. units' = units \/ units' = [units EXCEPT ![i] = @ + n]
      BY <1>11 DEF Bank
    <3>2. i \in Indices /\ n \in Nat
      BY <2>3, <2>4
    <3> HIDE DEF i, n
    <3>3. units \in [Indices -> Nat]
      BY <1>c
    <3>4. [units EXCEPT ![i] = @ + n] \in [Indices -> Nat]
      BY <3>2, <3>3
    <3> QED BY <3>1, <3>3, <3>4
  <2>7. banked' \in [Procs -> SUBSET Indices]
    <3> DEFINE i == Head(todo[p]).level
    <3>1. banked' = banked \/ banked' = [banked EXCEPT ![p] = @ \cup {i}]
      BY <1>11 DEF Bank
    <3>2. i \in Indices
      BY <2>3
    <3> HIDE DEF i
    <3>3. banked[p] \cup {i} \in SUBSET Indices
      BY <1>a, <3>2
    <3>4. [banked EXCEPT ![p] = @ \cup {i}] \in [Procs -> SUBSET Indices]
      BY <1>a, <3>3
    <3> QED BY <1>a, <3>1, <3>4
  <2>8. disturbed' \subseteq Disturbances
    BY <1>11, MishapType DEF Bank, TypeOK, Disturb
  <2> QED BY <1>11, <2>2, <2>5, <2>6, <2>7, <2>8 DEF TypeOK, Bank, market, account, line
<1>12. ASSUME NEW p \in Procs, Repost(p) PROVE TypeOK'
  <2>1. todo[p] # <<>> /\ Done(p) /\ Head(todo[p]).do = "repost"
    BY <1>12 DEF Repost, At
  <2>2. Same
    BY <2>1, DoneType
  <2>3. tps' \in [Indices -> Nat]
    <3>1. tps' = tps \/ tps' = [tps EXCEPT ![Head(todo[p]).level] = @ + 1]
      BY <1>12 DEF Repost
    <3> QED BY <1>c, <3>1
  <2>4. disturbed' \subseteq Disturbances
    BY <1>12, <1>b, MishapType DEF Repost, Disturb
  <2> QED BY <1>12, <2>2, <2>3, <2>4 DEF TypeOK, Repost, market, account, line
<1>13. ASSUME NEW p \in Procs, Save(p) PROVE TypeOK'
  <2>1. todo[p] # <<>> /\ Done(p)
    BY <1>13 DEF Save, At
  <2>2. Same
    BY <2>1, DoneType
  <2>3. taken' \subseteq Indices /\ banked' \in [Procs -> SUBSET Indices]
    BY <1>13 DEF Save, TypeOK
  <2> QED BY <1>13, <2>2, <2>3 DEF TypeOK, Save, market, account, history
<1>14. ASSUME NEW p \in Procs, SaveTag(p) PROVE TypeOK'
  <2>1. todo[p] # <<>> /\ Done(p) /\ Head(todo[p]).do = "tag"
    BY <1>14 DEF SaveTag, At
  <2>2. Same
    BY <2>1, DoneType
  <2>3. Head(todo[p]).amount \in Tags
    BY <2>1, HeadType DEF Commands
  <2>4. managed' \subseteq Tags
    BY <1>14, <2>3 DEF SaveTag, TypeOK
  <2> QED BY <1>14, <2>2, <2>4 DEF TypeOK, SaveTag, market, account, history
<1>15. ASSUME NEW t \in Ticks, Kill(t) PROVE TypeOK'
  <2>1. DOMAIN todo' = Procs /\ \A q \in Procs : todo'[q] \in Seq(Commands(q))
    BY <1>15 DEF Kill, TypeOK
  <2>2. looked' \in [Procs -> Seen] /\ banked' \in [Procs -> SUBSET Indices]
    BY <1>15, <1>a DEF Kill
  <2>3. /\ stage' \in [Procs -> {"start", "found", "cancelled"}]
        /\ found' \in [Procs -> [Levels -> Nat]] /\ held' \in [Procs -> 0..Size]
    <3>1. /\ stage' = [stage EXCEPT ![t] = "start"] /\ found' = [found EXCEPT ![t] = NoStops]
          /\ held' = [held EXCEPT ![t] = 0]
      BY <1>15 DEF Kill
    <3>2. stage' \in [Procs -> {"start", "found", "cancelled"}]
      BY <1>d, <3>1
    <3>3. found' \in [Procs -> [Levels -> Nat]]
      BY <1>d, <3>1
    <3>4. held' \in [Procs -> 0..Size]
      <4>1. 0 \in 0..Size
        BY <1>b
      <4>2. \A v \in 0..Size : [held EXCEPT ![t] = v] \in [Procs -> 0..Size]
        BY <1>d
      <4> QED BY <3>1, <4>1, <4>2
    <3> QED BY <3>2, <3>3, <3>4
  <2>4. disturbed' \subseteq Disturbances
    BY <1>15 DEF Kill, TypeOK, Disturb, Disturbances
  <2> QED BY <1>15, <2>1, <2>2, <2>3, <2>4 DEF TypeOK, Kill, Seen, market, account, line
<1>16. ASSUME NEW p \in Levels, PriceMoves(p) PROVE TypeOK'
  <2>1. size' \in 0..Size
    <3>1. Len(Targets) \in 0..Len(Targets)
      OBVIOUS
    <3>2. Sold(p)[Len(Targets)] \in 0..size /\ size \in 0..Size
      BY <3>1, SoldGrows DEF TypeOK
    <3> QED BY <1>16, <3>2 DEF PriceMoves
  <2>2. units' \in [Indices -> Nat]
    <3>1. units' = [i \in Indices |-> units[i] + SoldAt(i, p)]
      BY <1>16 DEF PriceMoves
    <3>2. \A i \in Indices : SoldAt(i, p) \in Nat /\ units[i] \in Nat
      BY <1>c, SoldGrows
    <3> QED BY <3>1, <3>2
  <2>3. tps' \in [Indices -> Nat]
    BY <1>16 DEF PriceMoves, TypeOK
  <2>4. trail' \in [at : 0..MaxPrice, stop : 0..MaxPrice]
    <3>1. p \in 0..MaxPrice /\ (p > Gap => p - Gap \in 0..MaxPrice)
      BY DEF Levels
    <3>2. trail' = trail \/ (p > Gap /\ trail' = [trail EXCEPT !.stop = p - Gap])
      BY <1>16 DEF PriceMoves
    <3> QED BY <1>c, <3>1, <3>2
  <2>5. px' \in Levels /\ touched' \in BOOLEAN
    BY <1>16 DEF PriceMoves, TypeOK
  <2> QED BY <1>16, <2>1, <2>2, <2>3, <2>4, <2>5 DEF TypeOK, PriceMoves, line, locals
<1>17. CASE GrowsOld
  BY <1>17 DEF GrowsOld, TypeOK, account, line, locals, history
<1>18. CASE UNCHANGED vars
  BY <1>18 DEF TypeOK, vars, market, account, line, locals, history
<1>19. Procs = Ticks \cup {Routine}
  BY DEF Procs
<1> QED BY <1>1, <1>2, <1>3, <1>4, <1>5, <1>6, <1>7, <1>8, <1>9, <1>10, <1>11, <1>12, <1>13,
           <1>14, <1>15, <1>16, <1>17, <1>18, <1>19 DEF Next, TickStep, Call

\* MonitorTick.TypeOK: the types of the position, of its line and of the ticks.
THEOREM MonitorTypes == Spec => []TypeOK
<1>1. TypeOK /\ [Next]_vars => TypeOK'
  BY TypeStep
<1> QED BY <1>1, TypeInit, PTL DEF Spec

-----------------------------------------------------------------------------
(* What the processes are doing                                             *)

\* What the end of a call changes.
LEMMA DoneFacts ==
  ASSUME TypeOK, NEW p \in Procs, todo[p] # <<>>, Done(p)
  PROVE  /\ \A q \in Procs : todo'[q] # <<>> => todo[q] # <<>>
         /\ \A q \in Procs : Len(todo'[q]) <= Len(todo[q])
         /\ \A q \in Procs : \A i \in DOMAIN todo'[q] :
              \E k \in DOMAIN todo[q] : todo'[q][i] = todo[q][k]
         /\ \A q \in Procs : stage'[q] = IF q = p THEN "start" ELSE stage[q]
         /\ \A q \in Procs : found'[q] = IF q = p THEN NoStops ELSE found[q]
<1>1. todo'[p] = Tail(todo[p]) /\ \A q \in Procs \ {p} : todo'[q] = todo[q]
  BY DoneType
<1>2. todo[p] \in Seq(Commands(p)) /\ \A q \in Procs : Len(todo[q]) \in Nat
  BY DEF TypeOK
<1>3. /\ Len(Tail(todo[p])) = Len(todo[p]) - 1
      /\ \A i \in DOMAIN Tail(todo[p]) :
           i + 1 \in DOMAIN todo[p] /\ Tail(todo[p])[i] = todo[p][i + 1]
  BY <1>2, TailOf
<1>4. \A q \in Procs : stage'[q] = IF q = p THEN "start" ELSE stage[q]
  BY DEF TypeOK, Done
<1>5. \A q \in Procs : found'[q] = IF q = p THEN NoStops ELSE found[q]
  BY DEF TypeOK, Done
<1>6. ASSUME NEW q \in Procs
      PROVE  /\ todo'[q] # <<>> => todo[q] # <<>>
             /\ Len(todo'[q]) <= Len(todo[q])
             /\ \A i \in DOMAIN todo'[q] : \E k \in DOMAIN todo[q] : todo'[q][i] = todo[q][k]
  <2>1. CASE q = p
    <3>1. todo'[q] = Tail(todo[p]) /\ Len(Tail(todo[p])) <= Len(todo[p])
      BY <1>1, <1>2, <1>3, <2>1
    <3>2. \A i \in DOMAIN Tail(todo[p]) : \E k \in DOMAIN todo[p] : Tail(todo[p])[i] = todo[p][k]
      BY <1>3
    <3> QED BY <2>1, <3>1, <3>2
  <2>2. CASE q # p
    <3>1. todo'[q] = todo[q] /\ Len(todo[q]) <= Len(todo[q])
      BY <1>1, <1>2, <2>2
    <3>2. \A i \in DOMAIN todo'[q] : i \in DOMAIN todo[q] /\ todo'[q][i] = todo[q][i]
      BY <3>1, Zenon
    <3> QED BY <3>1, <3>2
  <2> QED BY <2>1, <2>2
<1> QED BY <1>4, <1>5, <1>6

LEMMA OrderlyDone ==
  ASSUME TypeOK, Orderly, NEW p \in Procs, todo[p] # <<>>, Done(p), looked' = looked,
         banked'[Routine] = {}, disturbed \subseteq disturbed',
         trail' = trail \/ "trail" \in disturbed'
  PROVE  Orderly'
<1>0. Routine \in Procs /\ Len(todo[Routine]) \in Nat /\ Len(todo'[Routine]) \in Nat
  <2>1. \A q \in Procs : todo[q] \in Seq(Commands(q)) /\ todo'[q] \in Seq(Commands(q))
    BY DoneType DEF TypeOK
  <2>2. Routine \in Procs
    BY DEF Procs
  <2> QED BY <2>1, <2>2
<1>1. (\A q \in Procs : looked[q] # Nothing => q # Routine /\ todo[q] = <<>>)'
  BY DoneFacts DEF Orderly
<1>2. (\A q \in Procs : stage[q] = "cancelled" => todo[q] # <<>>)'
  <2> SUFFICES ASSUME NEW q \in Procs, stage'[q] = "cancelled" PROVE todo'[q] # <<>>
    OBVIOUS
  <2>1. q # p /\ stage[q] = "cancelled"
    BY DoneFacts
  <2> QED BY <2>1, DoneType DEF Orderly
<1>3. (\A q \in Procs, l \in Levels : l >= Entry => found[q][l] = 0)'
  BY DoneFacts DEF Orderly, NoStops
<1>4. (Len(todo[Routine]) <= 1 /\ banked[Routine] = {})'
  BY <1>0, DoneFacts DEF Orderly
<1>5. (\A q \in Procs : \A i \in DOMAIN todo[q] : todo[q][i].do \in {"partial", "tag"} => q \in Managing)'
  <2> SUFFICES ASSUME NEW q \in Procs, NEW i \in DOMAIN todo'[q], todo'[q][i].do \in {"partial", "tag"}
               PROVE  q \in Managing
    OBVIOUS
  <2>1. PICK k \in DOMAIN todo[q] : todo'[q][i] = todo[q][k]
    BY DoneFacts
  <2> QED BY <2>1 DEF Orderly
<1>6. (Undisturbed({"trail"}) => trail = NoTrail)'
  BY DEF Orderly, Undisturbed
<1>7. (Undisturbed({"overlap"}) => \A q, r \in Procs : ~Idle(q) /\ ~Idle(r) => q = r)'
  <2> SUFFICES ASSUME disturbed' \cap {"overlap"} = {}, NEW q \in Procs, NEW r \in Procs,
                      ~(looked'[q] = Nothing /\ todo'[q] = <<>>),
                      ~(looked'[r] = Nothing /\ todo'[r] = <<>>)
               PROVE  q = r
    BY DEF Undisturbed, Idle
  <2>1. ~Idle(q) /\ ~Idle(r)
    BY DoneFacts DEF Idle
  <2> QED BY <2>1 DEF Orderly, Undisturbed
<1> QED BY <1>1, <1>2, <1>3, <1>4, <1>5, <1>6, <1>7 DEF Orderly

LEMMA OrderlyInit == Init => Orderly
<1> SUFFICES ASSUME Init PROVE Orderly
  OBVIOUS
<1>1. \A p \in Procs : looked[p] = Nothing /\ todo[p] = <<>> /\ stage[p] = "start"
  BY DEF Init
<1>2. \A p \in Procs, l \in Levels : found[p][l] = 0
  BY DEF Init, NoStops
<1>3. Routine \in Procs /\ banked[Routine] = {} /\ trail = NoTrail
  BY DEF Init, Procs
<1>4. Len(<<>>) <= 1 /\ DOMAIN <<>> = {}
  OBVIOUS
<1> QED BY <1>1, <1>2, <1>3, <1>4 DEF Orderly, Idle

LEMMA OrderlyStep == TypeOK /\ Orderly /\ [Next]_vars => Orderly'
<1> SUFFICES ASSUME TypeOK, Orderly, [Next]_vars PROVE Orderly'
  OBVIOUS
<1> USE DEF Undisturbed
<1>a. /\ DOMAIN todo = Procs /\ looked \in [Procs -> Seen] /\ banked \in [Procs -> SUBSET Indices]
      /\ stage \in [Procs -> {"start", "found", "cancelled"}] /\ found \in [Procs -> [Levels -> Nat]]
      /\ Ticks \subseteq Procs /\ Routine \in Procs /\ Routine \notin Ticks
  BY ConstantsAssumption DEF TypeOK, Seen, Procs
<1>b. \A p \in Procs : todo[p] # <<>> /\ Head(todo[p]).do \in {"bank"} => p # Routine
  <2>1. ASSUME NEW p \in Procs, todo[p] # <<>>, Head(todo[p]).do = "bank" PROVE p # Routine
    BY <2>1, HeadType DEF Commands
  <2> QED BY <2>1
<1>1. ASSUME NEW t \in Ticks, Look(t) PROVE Orderly'
  <2>1. /\ UNCHANGED <<todo, stage, found, trail>> /\ Idle(t) /\ disturbed \subseteq disturbed'
        /\ \A q \in Procs : q # t => looked'[q] = looked[q] /\ banked'[q] = banked[q]
    BY <1>1, <1>a DEF Look, Disturb, account
  <2>2. "overlap" \notin disturbed' => \A q \in Procs \ {t} : Idle(q)
    BY <1>1 DEF Look, Disturb
  <2>3. (Undisturbed({"overlap"}) => \A p, q \in Procs : ~Idle(p) /\ ~Idle(q) => p = q)'
    <3>1. \A q \in Procs \ {t} : Idle(q) => Idle(q)'
      BY <2>1 DEF Idle
    <3> QED BY <2>2, <3>1
  <2> QED BY <1>a, <2>1, <2>3 DEF Orderly, Idle
<1>2. ASSUME NEW t \in Ticks, Decide(t) PROVE Orderly'
  <2>1. /\ \A k \in DOMAIN todo'[t] : todo'[t][k].do \in {"partial", "tag"} => t \in Managing
        /\ disturbed \subseteq disturbed' /\ \A q \in Procs : q # t => todo'[q] = todo[q]
    BY <1>2, DecideFacts DEF PlanIsSound
  <2>3. /\ UNCHANGED <<stage, found, trail, banked>> /\ looked[t] # Nothing
        /\ \A q \in Procs : q # t => looked'[q] = looked[q] /\ todo'[q] = todo[q]
        /\ looked'[t] = Nothing
    BY <1>2, <1>a, <2>1 DEF Decide, account
  <2>4. (Undisturbed({"overlap"}) => \A p, q \in Procs : ~Idle(p) /\ ~Idle(q) => p = q)'
    <3>1. \A q \in Procs \ {t} : Idle(q) => Idle(q)'
      BY <2>3 DEF Idle
    <3>2. ~Idle(t)
      BY <2>3 DEF Idle
    <3> QED BY <1>a, <2>1, <2>3, <3>1, <3>2 DEF Orderly
  <2>5. todo[t] = <<>> /\ stage[t] # "cancelled"
    BY <1>a, <2>3 DEF Orderly
  <2>6. (\A p \in Procs : \A i \in DOMAIN todo[p] : todo[p][i].do \in {"partial", "tag"} => p \in Managing)'
    BY <2>1 DEF Orderly
  <2>7. (/\ \A p \in Procs : looked[p] # Nothing => p # Routine /\ todo[p] = <<>>
         /\ \A p \in Procs : stage[p] = "cancelled" => todo[p] # <<>>)'
    BY <2>3, <2>5 DEF Orderly
  <2> QED BY <1>a, <2>1, <2>3, <2>4, <2>6, <2>7 DEF Orderly
<1>3. ASSUME NEW l \in RoutineStops, RoutineMoves(l) PROVE Orderly'
  <2> DEFINE c == Command("move", l, 0)
  <2>1. /\ todo' = [todo EXCEPT ![Routine] = <<c>>] /\ Idle(Routine)
        /\ UNCHANGED <<stage, found, trail, banked, looked>> /\ disturbed \subseteq disturbed'
    BY <1>3 DEF RoutineMoves, Disturb, account
  <2>2. /\ todo'[Routine] = <<c>> /\ \A q \in Procs : q # Routine => todo'[q] = todo[q]
        /\ Len(<<c>>) = 1 /\ DOMAIN <<c>> = {1} /\ <<c>>[1] = c /\ c.do = "move" /\ <<c>> # <<>>
    <3>1. c.do = "move"
      BY DEF Command
    <3> HIDE DEF c
    <3> QED BY <1>a, <2>1, <3>1
  <2> HIDE DEF c
  <2>3. "overlap" \notin disturbed' => \A q \in Ticks : Idle(q)
    BY <1>3 DEF RoutineMoves, Disturb
  <2>4. (Undisturbed({"overlap"}) => \A p, q \in Procs : ~Idle(p) /\ ~Idle(q) => p = q)'
    <3>1. \A q \in Ticks : Idle(q) => Idle(q)'
      BY <1>a, <2>1, <2>2 DEF Idle
    <3> QED BY <2>3, <3>1 DEF Procs
  <2>5. (\A p \in Procs : \A i \in DOMAIN todo[p] : todo[p][i].do \in {"partial", "tag"} => p \in Managing)'
    BY <2>2 DEF Orderly
  <2>6. (/\ \A p \in Procs : looked[p] # Nothing => p # Routine /\ todo[p] = <<>>
         /\ \A p \in Procs : stage[p] = "cancelled" => todo[p] # <<>>)'
    BY <2>1, <2>2 DEF Orderly, Idle
  <2> QED BY <1>a, <2>1, <2>2, <2>4, <2>5, <2>6 DEF Orderly
<1>4. ASSUME NEW p \in Procs, CallThrows(p) PROVE Orderly'
  BY <1>4, OrderlyDone DEF CallThrows, At, account, history, Orderly
<1>5. ASSUME NEW p \in Procs, FindStops(p) PROVE Orderly'
  <2>1. /\ UNCHANGED <<todo, trail, looked, banked>> /\ disturbed \subseteq disturbed'
        /\ stage' = [stage EXCEPT ![p] = "found"]
    BY <1>5 DEF FindStops, Disturb, account
  <2>2. \A l \in Levels : l >= Entry => found'[p][l] = 0
    <3>1. PICK fetched \in BOOLEAN :
            found' = [found EXCEPT ![p] = IF fetched
                      THEN [l \in Levels |-> IF l < Entry THEN stops[l] ELSE 0] ELSE NoStops]
      BY <1>5 DEF FindStops
    <3>2. \A l \in Levels : l >= Entry => ~(l < Entry)
      BY ConstantsAssumption DEF Levels
    <3> QED BY <1>a, <3>1, <3>2 DEF NoStops
  <2>3. \A q \in Procs \ {p} : found'[q] = found[q]
    BY <1>5, <1>a DEF FindStops
  <2>4. \A q \in Procs : stage'[q] = "cancelled" => stage[q] = "cancelled"
    BY <1>a, <2>1
  <2> QED BY <2>1, <2>2, <2>3, <2>4 DEF Orderly, Idle
<1>6. ASSUME NEW p \in Procs, CancelStops(p) PROVE Orderly'
  <2>1. /\ UNCHANGED <<todo, trail, looked, banked, found, disturbed>> /\ todo[p] # <<>>
        /\ stage' = [stage EXCEPT ![p] = "cancelled"]
    BY <1>6 DEF CancelStops, At, history
  <2> QED BY <1>a, <2>1 DEF Orderly, Idle
<1>7. ASSUME NEW p \in Procs, CreateStop(p) PROVE Orderly'
  BY <1>7, OrderlyDone DEF CreateStop, At, Disturb, Orderly
<1>8. ASSUME NEW p \in Procs, SetTrailing(p) PROVE Orderly'
  <2>1. disturbed \subseteq disturbed' /\ "trail" \in disturbed'
    BY <1>8 DEF SetTrailing, Disturb
  <2> QED BY <1>8, <2>1, OrderlyDone DEF SetTrailing, At, Orderly
<1>9. ASSUME NEW p \in Procs, ReadSize(p) PROVE Orderly'
  <2>1. /\ UNCHANGED <<todo, trail, looked, banked, found, disturbed>>
        /\ stage' = [stage EXCEPT ![p] = "found"]
    BY <1>9 DEF ReadSize, account, history
  <2>2. \A q \in Procs : stage'[q] = "cancelled" => stage[q] = "cancelled"
    BY <1>a, <2>1
  <2> QED BY <2>1, <2>2 DEF Orderly, Idle
<1>10. ASSUME NEW p \in Procs, SellPart(p) PROVE Orderly'
  BY <1>10, OrderlyDone DEF SellPart, At, Disturb, Orderly
<1>11. ASSUME NEW p \in Procs, Bank(p) PROVE Orderly'
  <2>1. p # Routine
    BY <1>11, <1>b DEF Bank, At
  <2>2. banked'[Routine] = {}
    BY <1>11, <1>a, <2>1 DEF Bank, Orderly
  <2> QED BY <1>11, <2>2, OrderlyDone DEF Bank, At, Disturb
<1>12. ASSUME NEW p \in Procs, Repost(p) PROVE Orderly'
  BY <1>12, OrderlyDone DEF Repost, At, Disturb, Orderly
<1>13. ASSUME NEW p \in Procs, Save(p) PROVE Orderly'
  <2>1. banked'[Routine] = {}
    BY <1>13, <1>a DEF Save, Orderly
  <2> QED BY <1>13, <2>1, OrderlyDone DEF Save, At, account, history
<1>14. ASSUME NEW p \in Procs, SaveTag(p) PROVE Orderly'
  BY <1>14, OrderlyDone DEF SaveTag, At, account, history, Orderly
<1>15. ASSUME NEW t \in Ticks, Kill(t) PROVE Orderly'
  <2>1. /\ looked' = [looked EXCEPT ![t] = Nothing] /\ todo' = [todo EXCEPT ![t] = <<>>]
        /\ stage' = [stage EXCEPT ![t] = "start"] /\ found' = [found EXCEPT ![t] = NoStops]
        /\ banked' = [banked EXCEPT ![t] = {}] /\ trail' = trail
        /\ disturbed \subseteq disturbed'
    BY <1>15 DEF Kill, Disturb, account
  <2>2. /\ looked'[t] = Nothing /\ todo'[t] = <<>> /\ stage'[t] = "start" /\ found'[t] = NoStops
        /\ \A q \in Procs \ {t} : /\ looked'[q] = looked[q] /\ todo'[q] = todo[q]
                                  /\ stage'[q] = stage[q] /\ found'[q] = found[q]
        /\ banked'[Routine] = banked[Routine]
    BY <1>a, <2>1
  <2>3. (Undisturbed({"overlap"}) => \A p, q \in Procs : ~Idle(p) /\ ~Idle(q) => p = q)'
    <3>1. \A q \in Procs : Idle(q) => Idle(q)'
      BY <2>2 DEF Idle
    <3> QED BY <2>1, <3>1 DEF Orderly
  <2>4. DOMAIN <<>> = {}
    OBVIOUS
  <2>5. todo'[Routine] = todo[Routine]
    BY <1>a, <2>2
  <2>6. (\A p \in Procs, l \in Levels : l >= Entry => found[p][l] = 0)'
    BY <2>2 DEF Orderly, NoStops
  <2> QED BY <2>1, <2>2, <2>3, <2>4, <2>5, <2>6 DEF Orderly
<1>16. ASSUME NEW p \in Levels, PriceMoves(p) PROVE Orderly'
  <2>1. UNCHANGED <<todo, looked, banked, found, stage, disturbed>>
    BY <1>16 DEF PriceMoves, locals
  <2>2. trail = NoTrail => trail' = NoTrail
    BY <1>16 DEF PriceMoves, NoTrail
  <2> QED BY <2>1, <2>2 DEF Orderly, Idle
<1>17. CASE GrowsOld
  BY <1>17 DEF GrowsOld, account, locals, history, Orderly, Idle
<1>18. CASE UNCHANGED vars
  BY <1>18 DEF vars, account, locals, history, Orderly, Idle
<1>19. Procs = Ticks \cup {Routine}
  BY DEF Procs
<1> QED BY <1>1, <1>2, <1>3, <1>4, <1>5, <1>6, <1>7, <1>8, <1>9, <1>10, <1>11, <1>12, <1>13,
           <1>14, <1>15, <1>16, <1>17, <1>18, <1>19 DEF Next, TickStep, Call

-----------------------------------------------------------------------------
(* The stop                                                                 *)

\* Where the stops are the same there is the same in force.
LEMMA InForceSame ==
  ASSUME stops' = stops, trail' = trail
  PROVE  InForce' = InForce /\ StopLevels' = StopLevels
BY DEF InForce, StopLevels

\* Without a trailing stop, the position is naked when no level has a stop.
OnlyStops ==
  trail = NoTrail =>
    /\ InForce = 0 <=> StopLevels = {}
    /\ InForce # 0 => InForce \in StopLevels
    /\ InForce \in Nat /\ \A m \in StopLevels : m <= InForce

LEMMA StopsInForce == TypeOK => OnlyStops
<1> SUFFICES ASSUME TypeOK, trail = NoTrail
             PROVE  /\ InForce = 0 <=> StopLevels = {}
                    /\ InForce # 0 => InForce \in StopLevels
                    /\ InForce \in Nat /\ \A m \in StopLevels : m <= InForce
  BY DEF OnlyStops
<1>1. trail.stop = 0
  BY DEF NoTrail
<1>2. StopLevels \subseteq Nat \ {0}
  BY ConstantsAssumption DEF StopLevels, Levels
<1> QED BY <1>1, <1>2, InForceIsHighest DEF HighestInForce

\* The calls that leave the stops alone.
SameStops == stops' = stops /\ trail' = trail

LEMMA StopInit == Init => StopUnlessDisturbed
<1> SUFFICES ASSUME Init, stops # NoStops PROVE InForce # 0
  BY DEF Init, StopUnlessDisturbed, Undisturbed, Naked
<1>1. TypeOK /\ trail = NoTrail
  BY TypeInit DEF Init
<1>2. StopLevels # {}
  <2>1. PICK n \in {0, 1} : stops = [l \in Levels |-> IF l = PlannedStop THEN n ELSE 0]
    BY DEF Init
  <2>2. n = 1
    <3>1. CASE n = 0
      BY <2>1, <3>1 DEF NoStops
    <3> QED BY <3>1
  <2>3. PlannedStop \in Levels
    BY ConstantsAssumption DEF Levels
  <2> QED BY <2>1, <2>2, <2>3 DEF StopLevels
<1> QED BY <1>1, <1>2, StopsInForce DEF OnlyStops

LEMMA StopStep ==
  TypeOK /\ Orderly /\ StopUnlessDisturbed /\ [Next]_vars => StopUnlessDisturbed'
<1> SUFFICES ASSUME TypeOK, Orderly, StopUnlessDisturbed, [Next]_vars,
                    Undisturbed({"naked", "order", "refused", "kill", "trail"})', Naked'
             PROVE  \E p \in Procs : stage'[p] = "cancelled"
  BY DEF StopUnlessDisturbed
<1>a. TypeOK' /\ Orderly'
  BY TypeStep, OrderlyStep
<1>b. trail' = NoTrail
  BY <1>a DEF Orderly, Undisturbed
<1>c. StopLevels' = {}
  <2>1. TypeOK' => OnlyStops'
    BY StopsInForce, PTL
  <2> QED BY <1>a, <1>b, <2>1 DEF Naked, OnlyStops
<1>d. stage \in [Procs -> {"start", "found", "cancelled"}] /\ Ticks \subseteq Procs /\ Routine \in Procs
  BY DEF TypeOK, Procs
\* An action that leaves the stops alone, and the stage of a call that is
\* replacing them, keeps the invariant.
<1>e. ASSUME SameStops, disturbed \subseteq disturbed', size' > 0 => size > 0,
             \A p \in Procs : stage[p] = "cancelled" => stage'[p] = "cancelled"
      PROVE  \E p \in Procs : stage'[p] = "cancelled"
  <2>1. Naked
    BY <1>e, InForceSame DEF Naked, SameStops
  <2>2. Undisturbed({"naked", "order", "refused", "kill", "trail"})
    BY <1>e DEF Undisturbed
  <2> QED BY <1>e, <2>1, <2>2 DEF StopUnlessDisturbed
<1>f. ASSUME NEW p \in Procs, todo[p] # <<>>, Done(p), stage[p] # "cancelled"
      PROVE  \A q \in Procs : stage[q] = "cancelled" => stage'[q] = "cancelled"
  BY <1>f, DoneFacts
<1>g. size \in Nat
  BY ConstantsAssumption DEF TypeOK
<1> HIDE DEF Undisturbed
<1>1. ASSUME NEW t \in Ticks, Look(t) PROVE \E p \in Procs : stage'[p] = "cancelled"
  BY <1>1, <1>e DEF Look, Disturb, account, SameStops
<1>2. ASSUME NEW t \in Ticks, Decide(t) PROVE \E p \in Procs : stage'[p] = "cancelled"
  <2>1. disturbed \subseteq disturbed'
    BY <1>2, DecideFacts
  <2> QED BY <1>2, <1>e, <2>1 DEF Decide, account, SameStops
<1>3. ASSUME NEW l \in RoutineStops, RoutineMoves(l) PROVE \E p \in Procs : stage'[p] = "cancelled"
  BY <1>3, <1>e DEF RoutineMoves, Disturb, account, SameStops
<1>4. ASSUME NEW p \in Procs, CallThrows(p) PROVE \E q \in Procs : stage'[q] = "cancelled"
  BY <1>4, <1>e, <1>f DEF CallThrows, At, account, history, SameStops
<1>5. ASSUME NEW p \in Procs, FindStops(p) PROVE \E q \in Procs : stage'[q] = "cancelled"
  <2>1. \A q \in Procs : stage[q] = "cancelled" => stage'[q] = "cancelled"
    BY <1>5, <1>d DEF FindStops, At
  <2> QED BY <1>5, <1>e, <2>1 DEF FindStops, Disturb, account, SameStops
<1>6. ASSUME NEW p \in Procs, CancelStops(p) PROVE \E q \in Procs : stage'[q] = "cancelled"
  BY <1>6, <1>d DEF CancelStops
<1>7. ASSUME NEW p \in Procs, CreateStop(p) PROVE \E q \in Procs : stage'[q] = "cancelled"
  <2> DEFINE level == Head(todo[p]).level
  <2> DEFINE possible == size > 0 /\ level < px /\ Orders < MaxOrders
  <2>1. PICK fate \in Fate(possible) :
          /\ stops' = IF fate = "refused" THEN stops ELSE [stops EXCEPT ![level] = @ + 1]
          /\ disturbed' = disturbed \cup Mishap(fate, possible)
    BY <1>7 DEF CreateStop, Disturb
  <2>2. fate # "refused"
    <3>1. Mishap("refused", possible) \cap {"order", "refused"} # {}
      BY DEF Mishap
    <3> QED BY <2>1, <3>1 DEF Undisturbed
  <2>3. level \in Levels
    BY <1>7, MoveLevel DEF CreateStop, At
  <2>4. stops'[level] > 0
    BY <2>1, <2>2, <2>3 DEF TypeOK
  <2> QED BY <1>c, <2>3, <2>4 DEF StopLevels
<1>8. ASSUME NEW p \in Procs, SetTrailing(p) PROVE \E q \in Procs : stage'[q] = "cancelled"
  BY <1>8 DEF SetTrailing, Disturb, Undisturbed
<1>9. ASSUME NEW p \in Procs, ReadSize(p) PROVE \E q \in Procs : stage'[q] = "cancelled"
  <2>1. \A q \in Procs : stage[q] = "cancelled" => stage'[q] = "cancelled"
    BY <1>9, <1>d DEF ReadSize, At
  <2> QED BY <1>9, <1>e, <2>1 DEF ReadSize, account, history, SameStops
<1>10. ASSUME NEW p \in Procs, SellPart(p) PROVE \E q \in Procs : stage'[q] = "cancelled"
  <2>1. size' > 0 => size > 0
    BY <1>10, <1>g, StaysClosed
  <2> QED BY <1>10, <1>e, <1>f, <2>1 DEF SellPart, At, Disturb, SameStops
<1>11. ASSUME NEW p \in Procs, Bank(p) PROVE \E q \in Procs : stage'[q] = "cancelled"
  <2>1. size' > 0 => size > 0
    BY <1>11, <1>g, StaysClosed
  <2> QED BY <1>11, <1>e, <1>f, <2>1 DEF Bank, At, Disturb, SameStops
<1>12. ASSUME NEW p \in Procs, Repost(p) PROVE \E q \in Procs : stage'[q] = "cancelled"
  BY <1>12, <1>e, <1>f DEF Repost, At, Disturb, SameStops
<1>13. ASSUME NEW p \in Procs, Save(p) PROVE \E q \in Procs : stage'[q] = "cancelled"
  BY <1>13, <1>e, <1>f DEF Save, At, account, history, SameStops
<1>14. ASSUME NEW p \in Procs, SaveTag(p) PROVE \E q \in Procs : stage'[q] = "cancelled"
  BY <1>14, <1>e, <1>f DEF SaveTag, At, account, history, SameStops
<1>15. ASSUME NEW t \in Ticks, Kill(t) PROVE \E p \in Procs : stage'[p] = "cancelled"
  BY <1>15 DEF Kill, Disturb, Undisturbed
<1>16. ASSUME NEW p \in Levels, PriceMoves(p) PROVE \E q \in Procs : stage'[q] = "cancelled"
  <2>1. disturbed' = disturbed /\ stops' = stops /\ stage' = stage /\ size > 0
    BY <1>16 DEF PriceMoves, locals
  <2>2. trail = NoTrail
    BY <2>1 DEF Orderly, Undisturbed
  <2> QED BY <1>b, <1>e, <2>1, <2>2 DEF SameStops
<1>17. CASE GrowsOld
  BY <1>17, <1>e DEF GrowsOld, account, locals, history, SameStops
<1>18. CASE UNCHANGED vars
  BY <1>18, <1>e DEF vars, account, locals, history, SameStops
<1>19. Procs = Ticks \cup {Routine}
  BY DEF Procs
<1> QED BY <1>1, <1>2, <1>3, <1>4, <1>5, <1>6, <1>7, <1>8, <1>9, <1>10, <1>11, <1>12, <1>13,
           <1>14, <1>15, <1>16, <1>17, <1>18, <1>19 DEF Next, TickStep, Call

\* What TLC calls undisturbed for the stop that is never loosened.
Calm == Undisturbed({"order", "refused", "kill", "trail", "fetch", "overlap"})

\* The highest stop so far stays what it was when no stop is created, and a
\* move that was still to come does, or was done.
LEMMA TighteningKept ==
  ASSUME Tightening, disturbed \subseteq disturbed', size' > 0 => size > 0, floor' = floor,
         \A l \in Levels : l >= Entry /\ stops[l] > 0 => stops'[l] > 0,
         \A q \in Procs : \A i \in DOMAIN todo'[q] :
           \E k \in DOMAIN todo[q] : todo'[q][i] = todo[q][k]
  PROVE  Tightening'
<1> SUFFICES ASSUME Calm', size' > 0, NEW q \in Procs, NEW i \in DOMAIN todo'[q],
                    todo'[q][i].do = "move"
             PROVE  todo'[q][i].level >= floor' \/ Anchored'
  BY DEF Tightening, Calm
<1>1. Calm /\ size > 0
  BY DEF Calm, Undisturbed
<1>2. PICK k \in DOMAIN todo[q] : todo'[q][i] = todo[q][k]
  OBVIOUS
<1>3. todo[q][k].level >= floor \/ Anchored
  BY <1>1, <1>2 DEF Tightening, Calm
<1>4. Anchored => Anchored'
  BY DEF Anchored
<1> QED BY <1>2, <1>3, <1>4

LEMMA TighteningStep ==
  TypeOK /\ Orderly /\ Tightening /\ NeverLoosened /\ [Next]_vars => Tightening'
<1> SUFFICES ASSUME TypeOK, Orderly, Tightening, NeverLoosened, [Next]_vars PROVE Tightening'
  OBVIOUS
<1>a. TypeOK' /\ Orderly'
  BY TypeStep, OrderlyStep
<1>b. /\ DOMAIN todo = Procs /\ size \in Nat /\ floor \in Nat
      /\ \A q \in Procs : todo[q] \in Seq(Commands(q))
      /\ stops \in [Levels -> Nat] /\ Ticks \subseteq Procs /\ Routine \in Procs \ Ticks
  BY ConstantsAssumption DEF TypeOK, Procs
<1>c. Levels \subseteq Nat /\ Entry \in Levels /\ PlannedStop \in Levels /\ BreakEven \in Levels
      /\ PlannedStop < Entry /\ Entry < BreakEven
  BY ConstantsAssumption DEF Levels, BreakEven
\* Who starts when nothing else is going on, and the trail is not set, finds
\* the highest stop in force.
<1>d. ASSUME NEW p \in Procs, \A q \in Procs : q # p => Idle(q), todo[p] = <<>>, Calm, size > 0
      PROVE  trail = NoTrail /\ InForce >= floor
  <2>1. \A q \in Procs : stage[q] # "cancelled"
    BY <1>d DEF Orderly, Idle
  <2> QED BY <1>d, <2>1 DEF NeverLoosened, Calm, Orderly, Undisturbed
<1>e. ASSUME Calm', disturbed \subseteq disturbed' PROVE Calm
  BY <1>e DEF Calm, Undisturbed
<1>1. ASSUME NEW t \in Ticks, Look(t) PROVE Tightening'
  BY <1>1, TighteningKept DEF Look, Disturb, account
<1>2. ASSUME NEW t \in Ticks, Decide(t) PROVE Tightening'
  <2>1. PICK fetched \in BOOLEAN, hasStop \in BOOLEAN :
          /\ PlanIsSound(t, todo'[t], looked[t], hasStop, {i \in Indices : fetched /\ tps[i] > 0})
          /\ fetched /\ ~hasStop => stops = NoStops
          /\ disturbed' = disturbed \cup (IF fetched THEN {} ELSE {"fetch"})
          /\ \A q \in Procs : q # t => todo'[q] = todo[q]
    BY <1>2, DecideFacts
  <2>2. /\ looked[t] # Nothing /\ UNCHANGED <<size, stops, floor, trail>>
    BY <1>2 DEF Decide, account
  <2>3. SUFFICES ASSUME Calm', size' > 0, NEW q \in Procs, NEW i \in DOMAIN todo'[q],
                        todo'[q][i].do = "move"
                 PROVE  todo'[q][i].level >= floor \/ Anchored
    BY <2>2 DEF Tightening, Calm, Anchored
  <2>4. Calm /\ fetched /\ todo[t] = <<>>
    BY <1>b, <1>e, <2>1, <2>2, <2>3 DEF Calm, Undisturbed, Orderly
  <2>5. \A r \in Procs : r # t => Idle(r)
    BY <1>b, <2>2, <2>4 DEF Calm, Undisturbed, Orderly, Idle
  <2>6. trail = NoTrail /\ InForce >= floor
    BY <1>b, <1>d, <2>2, <2>3, <2>4, <2>5
  <2>7. q = t
    <3>1. q # t => todo'[q] = <<>>
      BY <2>1, <2>5 DEF Idle
    <3> QED BY <2>3, <3>1
  <2>8. CASE todo'[t][i].level = PlannedStop /\ ~hasStop
    <3>1. StopLevels = {}
      BY <2>1, <2>4, <2>8 DEF StopLevels, NoStops
    <3>2. floor = 0
      BY <1>b, <2>6, <3>1, StopsInForce DEF OnlyStops
    <3> QED BY <1>c, <2>7, <2>8, <3>2
  <2>9. CASE todo'[t][i].level \in {Entry, BreakEven}
    <3>1. InForce \in Nat /\ (InForce # 0 => InForce \in StopLevels)
      BY <2>6, StopsInForce DEF OnlyStops
    <3>2. CASE InForce >= Entry
      <4>1. InForce \in StopLevels
        BY <1>c, <3>1, <3>2
      <4>2. InForce \in Levels /\ stops[InForce] > 0
        BY <4>1 DEF StopLevels
      <4>3. Anchored
        BY <2>6, <3>2, <4>2 DEF Anchored
      <4> QED BY <4>3
    <3>3. CASE ~(InForce >= Entry)
      BY <1>b, <1>c, <2>6, <2>7, <2>9, <3>1, <3>3
    <3> QED BY <3>2, <3>3
  <2> QED BY <2>1, <2>3, <2>7, <2>8, <2>9 DEF PlanIsSound
<1>3. ASSUME NEW l \in RoutineStops, RoutineMoves(l) PROVE Tightening'
  <2> DEFINE c == Command("move", l, 0)
  <2>1. /\ todo' = [todo EXCEPT ![Routine] = <<c>>] /\ Idle(Routine) /\ l > InForce
        /\ UNCHANGED <<size, stops, floor, trail>> /\ size > 0
        /\ disturbed \subseteq disturbed' /\ ("overlap" \notin disturbed' => \A q \in Ticks : Idle(q))
    BY <1>3 DEF RoutineMoves, Disturb, account
  <2>2. SUFFICES ASSUME Calm', NEW q \in Procs, NEW i \in DOMAIN todo'[q], todo'[q][i].do = "move"
                 PROVE  todo'[q][i].level >= floor
    BY <2>1 DEF Tightening, Calm
  <2>3. \A r \in Procs : Idle(r)
    BY <2>1, <2>2 DEF Procs, Calm, Undisturbed
  <2>4. InForce >= floor /\ trail = NoTrail
    BY <1>b, <1>d, <1>e, <2>1, <2>2, <2>3 DEF Idle
  <2>5. q = Routine
    <3>1. q # Routine => todo'[q] = <<>>
      BY <1>b, <2>1, <2>3 DEF Idle
    <3> QED BY <2>2, <3>1
  <2>6. todo'[q] = <<c>> /\ c.level = l
    BY <1>b, <2>1, <2>5 DEF Command
  <2>7. todo'[q][i] = c
    <3> HIDE DEF c
    <3> QED BY <2>2, <2>6
  <2>8. l \in Nat /\ InForce \in Nat
    BY <1>c, <2>4, ConstantsAssumption, StopsInForce DEF OnlyStops
  <2> QED BY <1>b, <2>1, <2>4, <2>6, <2>7, <2>8
<1>4. ASSUME NEW p \in Procs, CallThrows(p) PROVE Tightening'
  BY <1>4, TighteningKept, DoneFacts DEF CallThrows, At, account, history
<1>5. ASSUME NEW p \in Procs, FindStops(p) PROVE Tightening'
  BY <1>5, TighteningKept DEF FindStops, Disturb, account
<1>6. ASSUME NEW p \in Procs, CancelStops(p) PROVE Tightening'
  <2>1. \A l \in Levels : l >= Entry /\ stops[l] > 0 => stops'[l] > 0
    <3> SUFFICES ASSUME NEW l \in Levels, l >= Entry, stops[l] > 0 PROVE stops'[l] > 0
      OBVIOUS
    <3>1. found[p][l] = 0 /\ stops[l] \in Nat
      BY <1>b DEF Orderly
    <3>2. stops'[l] = stops[l] \/ stops'[l] = stops[l] - Smaller(found[p][l], stops[l])
      BY <1>6 DEF CancelStops
    <3> QED BY <3>1, <3>2 DEF Smaller
  <2> QED BY <1>6, <2>1, TighteningKept DEF CancelStops, history
<1>7. ASSUME NEW p \in Procs, CreateStop(p) PROVE Tightening'
  <2> DEFINE level == Head(todo[p]).level
  <2> DEFINE possible == size > 0 /\ level < px /\ Orders < MaxOrders
  <2>1. PICK fate \in Fate(possible) :
          /\ stops' = IF fate = "refused" THEN stops ELSE [stops EXCEPT ![level] = @ + 1]
          /\ disturbed' = disturbed \cup Mishap(fate, possible)
          /\ floor' = IF fate = "refused" \/ level < floor THEN floor ELSE level
    BY <1>7 DEF CreateStop, Disturb
  <2>2. /\ todo[p] # <<>> /\ Done(p) /\ Head(todo[p]).do = "move" /\ size' = size
        /\ disturbed \subseteq disturbed'
    BY <1>7, <2>1 DEF CreateStop, At
  <2>3. level \in Levels
    BY <2>2, MoveLevel
  <2> HIDE DEF level, possible
  <2>4. \A l \in Levels : stops[l] > 0 => stops'[l] > 0
    BY <1>b, <2>1, <2>3
  <2>5. CASE floor' = floor
    BY <2>2, <2>4, <2>5, TighteningKept, DoneFacts
  <2>6. CASE floor' # floor
    <3>1. floor' = level /\ stops'[level] > 0
      BY <1>b, <2>1, <2>3, <2>6
    <3>2. CASE level >= Entry
      <4>1. Anchored'
        BY <1>c, <2>3, <3>1, <3>2 DEF Anchored
      <4> QED BY <4>1 DEF Tightening
    <3>3. CASE ~(level >= Entry)
      <4> SUFFICES ASSUME Calm', size' > 0, NEW q \in Procs, NEW i \in DOMAIN todo'[q],
                          todo'[q][i].do = "move"
                   PROVE  todo'[q][i].level >= level
        BY <3>1 DEF Tightening, Calm
      <4>1. q = p
        <5>1. PICK k \in DOMAIN todo[q] : todo'[q][i] = todo[q][k]
          BY <2>2, DoneFacts
        <5>2. todo[q] # <<>>
          BY <5>1
        <5> QED BY <1>e, <2>2, <5>2 DEF Calm, Undisturbed, Orderly, Idle
      <4>2. p # Routine
        <5>1. todo'[p] = Tail(todo[p]) /\ Len(Tail(todo[p])) = Len(todo[p]) - 1
          BY <1>b, <2>2, DoneType, TailOf
        <5>2. i \in 1..Len(todo[p]) - 1 /\ Len(todo[p]) \in Nat
          <6>1. Tail(todo[p]) \in Seq(Commands(p)) /\ todo[p] \in Seq(Commands(p))
            BY <1>b, <2>2, TailOf
          <6> QED BY <4>1, <5>1, <6>1
        <5>3. Len(todo[Routine]) <= 1
          BY DEF Orderly
        <5> QED BY <5>2, <5>3
      <4>3. level = PlannedStop
        <5>1. level \in {PlannedStop, Entry, BreakEven}
          BY <2>2, <4>2, HeadType DEF Commands, level
        <5> QED BY <1>c, <3>3, <5>1
      <4>4. todo'[q][i].level \in {PlannedStop, Entry, BreakEven}
        <5>1. todo'[q][i] \in Commands(q)
          BY <2>2, DoneType
        <5> QED BY <4>1, <4>2, <5>1 DEF Commands
      <4> QED BY <1>c, <4>3, <4>4
    <3> QED BY <3>2, <3>3
  <2> QED BY <2>5, <2>6
<1>8. ASSUME NEW p \in Procs, SetTrailing(p) PROVE Tightening'
  BY <1>8 DEF SetTrailing, Disturb, Tightening, Undisturbed
<1>9. ASSUME NEW p \in Procs, ReadSize(p) PROVE Tightening'
  BY <1>9, TighteningKept DEF ReadSize, account, history
<1>10. ASSUME NEW p \in Procs, SellPart(p) PROVE Tightening'
  <2>1. size' > 0 => size > 0
    BY <1>10, <1>b, StaysClosed
  <2> QED BY <1>10, <2>1, TighteningKept, DoneFacts DEF SellPart, At, Disturb
<1>11. ASSUME NEW p \in Procs, Bank(p) PROVE Tightening'
  <2>1. size' > 0 => size > 0
    BY <1>11, <1>b, StaysClosed
  <2> QED BY <1>11, <2>1, TighteningKept, DoneFacts DEF Bank, At, Disturb
<1>12. ASSUME NEW p \in Procs, Repost(p) PROVE Tightening'
  BY <1>12, TighteningKept, DoneFacts DEF Repost, At, Disturb
<1>13. ASSUME NEW p \in Procs, Save(p) PROVE Tightening'
  BY <1>13, TighteningKept, DoneFacts DEF Save, At, account, history
<1>14. ASSUME NEW p \in Procs, SaveTag(p) PROVE Tightening'
  BY <1>14, TighteningKept, DoneFacts DEF SaveTag, At, account, history
<1>15. ASSUME NEW t \in Ticks, Kill(t) PROVE Tightening'
  BY <1>15 DEF Kill, Disturb, Tightening, Undisturbed
<1>16. ASSUME NEW p \in Levels, PriceMoves(p) PROVE Tightening'
  BY <1>16, TighteningKept DEF PriceMoves, locals
<1>17. CASE GrowsOld
  BY <1>17, TighteningKept DEF GrowsOld, account, locals, history
<1>18. CASE UNCHANGED vars
  BY <1>18, TighteningKept DEF vars, account, locals, history
<1>19. Procs = Ticks \cup {Routine}
  BY DEF Procs
<1> QED BY <1>1, <1>2, <1>3, <1>4, <1>5, <1>6, <1>7, <1>8, <1>9, <1>10, <1>11, <1>12, <1>13,
           <1>14, <1>15, <1>16, <1>17, <1>18, <1>19 DEF Next, TickStep, Call

LEMMA LoosenedStep ==
  TypeOK /\ Orderly /\ Tightening /\ NeverLoosened /\ [Next]_vars => NeverLoosened'
<1> SUFFICES ASSUME TypeOK, Orderly, Tightening, NeverLoosened, [Next]_vars,
                    Calm', size' > 0, \A p \in Procs : stage'[p] # "cancelled"
             PROVE  InForce' >= floor'
  BY DEF NeverLoosened, Calm
<1>a. TypeOK' /\ Orderly' /\ trail' = NoTrail
  BY TypeStep, OrderlyStep DEF Orderly, Calm, Undisturbed
<1>b. /\ DOMAIN todo = Procs /\ size \in Nat /\ floor \in Nat
      /\ stage \in [Procs -> {"start", "found", "cancelled"}]
      /\ stops \in [Levels -> Nat] /\ Ticks \subseteq Procs /\ Routine \in Procs \ Ticks
  BY ConstantsAssumption DEF TypeOK, Procs
<1>c. InForce' \in Nat /\ \A l \in Levels : stops'[l] > 0 => l <= InForce'
  <2>1. TypeOK' => OnlyStops'
    BY StopsInForce, PTL
  <2> QED BY <1>a, <2>1 DEF OnlyStops, StopLevels
<1>d. ASSUME disturbed \subseteq disturbed' PROVE Calm
  BY <1>d DEF Calm, Undisturbed
\* An action that leaves the stops alone, when no call was replacing them.
<1>e. ASSUME SameStops, disturbed \subseteq disturbed', size > 0, floor' = floor,
             \A p \in Procs : stage[p] # "cancelled"
      PROVE  InForce' >= floor'
  <2>1. Calm /\ InForce' = InForce
    BY <1>d, <1>e, InForceSame DEF SameStops
  <2> QED BY <1>e, <2>1 DEF NeverLoosened, Calm
<1>f. ASSUME NEW p \in Procs, todo[p] # <<>>, Done(p), stage[p] # "cancelled"
      PROVE  \A q \in Procs : stage[q] # "cancelled"
  BY <1>f, DoneFacts
<1>1. ASSUME NEW t \in Ticks, Look(t) PROVE InForce' >= floor'
  BY <1>1, <1>e DEF Look, Disturb, account, SameStops
<1>2. ASSUME NEW t \in Ticks, Decide(t) PROVE InForce' >= floor'
  <2>1. disturbed \subseteq disturbed'
    BY <1>2, DecideFacts
  <2> QED BY <1>2, <1>e, <2>1 DEF Decide, account, SameStops
<1>3. ASSUME NEW l \in RoutineStops, RoutineMoves(l) PROVE InForce' >= floor'
  BY <1>3, <1>e DEF RoutineMoves, Disturb, account, SameStops
<1>4. ASSUME NEW p \in Procs, CallThrows(p) PROVE InForce' >= floor'
  BY <1>4, <1>e, <1>f DEF CallThrows, At, account, history, SameStops
<1>5. ASSUME NEW p \in Procs, FindStops(p) PROVE InForce' >= floor'
  <2>1. \A q \in Procs : stage[q] # "cancelled"
    BY <1>5, <1>b DEF FindStops, At
  <2> QED BY <1>5, <1>e, <2>1 DEF FindStops, Disturb, account, SameStops
<1>6. ASSUME NEW p \in Procs, CancelStops(p) PROVE InForce' >= floor'
  BY <1>6, <1>b DEF CancelStops
<1>7. ASSUME NEW p \in Procs, CreateStop(p) PROVE InForce' >= floor'
  <2> DEFINE level == Head(todo[p]).level
  <2> DEFINE possible == size > 0 /\ level < px /\ Orders < MaxOrders
  <2>1. PICK fate \in Fate(possible) :
          /\ stops' = IF fate = "refused" THEN stops ELSE [stops EXCEPT ![level] = @ + 1]
          /\ disturbed' = disturbed \cup Mishap(fate, possible)
          /\ floor' = IF fate = "refused" \/ level < floor THEN floor ELSE level
    BY <1>7 DEF CreateStop, Disturb
  <2>2. fate # "refused"
    <3>1. Mishap("refused", possible) \cap {"order", "refused"} # {}
      BY DEF Mishap
    <3> QED BY <2>1, <3>1 DEF Calm, Undisturbed
  <2>3. todo[p] # <<>> /\ Head(todo[p]).do = "move" /\ size > 0
    BY <1>7 DEF CreateStop, At
  <2>4. level \in Levels
    BY <2>3, MoveLevel
  <2>5. level >= floor \/ Anchored
    <3>1. Calm
      BY <1>d, <2>1
    <3>2. 1 \in DOMAIN todo[p] /\ Head(todo[p]) = todo[p][1]
      <4>1. todo[p] \in Seq(Commands(p))
        BY DEF TypeOK
      <4> QED BY <2>3, <4>1, TailOf
    <3> QED BY <2>3, <3>1, <3>2 DEF Tightening, Calm
  <2> HIDE DEF level, possible
  <2>6. \A l \in Levels : stops[l] > 0 => stops'[l] > 0
    BY <1>b, <2>1, <2>4
  <2>7. stops'[level] > 0 /\ floor' = IF level < floor THEN floor ELSE level
    BY <1>b, <2>1, <2>2, <2>4
  <2>8. level <= InForce' /\ level \in Nat
    BY <1>c, <2>4, <2>7, ConstantsAssumption DEF Levels
  <2>9. CASE level >= floor
    BY <1>b, <1>c, <2>7, <2>8, <2>9
  <2>10. CASE Anchored
    <3>1. PICK l \in Levels : l >= floor /\ stops[l] > 0
      BY <2>10 DEF Anchored
    <3>2. l <= InForce' /\ l \in Nat
      BY <1>c, <2>6, <3>1, ConstantsAssumption DEF Levels
    <3> QED BY <1>b, <1>c, <2>7, <2>8, <3>1, <3>2
  <2> QED BY <2>5, <2>9, <2>10
<1>8. ASSUME NEW p \in Procs, SetTrailing(p) PROVE InForce' >= floor'
  BY <1>8 DEF SetTrailing, Disturb, Calm, Undisturbed
<1>9. ASSUME NEW p \in Procs, ReadSize(p) PROVE InForce' >= floor'
  <2>1. \A q \in Procs : stage[q] # "cancelled"
    BY <1>9, <1>b DEF ReadSize, At
  <2> QED BY <1>9, <1>e, <2>1 DEF ReadSize, account, history, SameStops
<1>10. ASSUME NEW p \in Procs, SellPart(p) PROVE InForce' >= floor'
  <2>1. size > 0
    BY <1>10, <1>b, StaysClosed
  <2> QED BY <1>10, <1>e, <1>f, <2>1 DEF SellPart, At, Disturb, SameStops
<1>11. ASSUME NEW p \in Procs, Bank(p) PROVE InForce' >= floor'
  <2>1. size > 0
    BY <1>11, <1>b, StaysClosed
  <2> QED BY <1>11, <1>e, <1>f, <2>1 DEF Bank, At, Disturb, SameStops
<1>12. ASSUME NEW p \in Procs, Repost(p) PROVE InForce' >= floor'
  BY <1>12, <1>e, <1>f DEF Repost, At, Disturb, SameStops
<1>13. ASSUME NEW p \in Procs, Save(p) PROVE InForce' >= floor'
  BY <1>13, <1>e, <1>f DEF Save, At, account, history, SameStops
<1>14. ASSUME NEW p \in Procs, SaveTag(p) PROVE InForce' >= floor'
  BY <1>14, <1>e, <1>f DEF SaveTag, At, account, history, SameStops
<1>15. ASSUME NEW t \in Ticks, Kill(t) PROVE InForce' >= floor'
  BY <1>15 DEF Kill, Disturb, Calm, Undisturbed
<1>16. ASSUME NEW p \in Levels, PriceMoves(p) PROVE InForce' >= floor'
  <2>1. disturbed' = disturbed /\ stops' = stops /\ stage' = stage /\ size > 0 /\ floor' = floor
    BY <1>16 DEF PriceMoves, locals
  <2>2. trail = NoTrail
    BY <2>1 DEF Orderly, Calm, Undisturbed
  <2> QED BY <1>a, <1>e, <2>1, <2>2 DEF SameStops
<1>17. CASE GrowsOld
  BY <1>17, <1>e DEF GrowsOld, account, locals, history, SameStops
<1>18. CASE UNCHANGED vars
  BY <1>18, <1>e DEF vars, account, locals, history, SameStops
<1>19. Procs = Ticks \cup {Routine}
  BY DEF Procs
<1> QED BY <1>1, <1>2, <1>3, <1>4, <1>5, <1>6, <1>7, <1>8, <1>9, <1>10, <1>11, <1>12, <1>13,
           <1>14, <1>15, <1>16, <1>17, <1>18, <1>19 DEF Next, TickStep, Call

LEMMA LoosenedInit == Init => Tightening /\ NeverLoosened
<1> SUFFICES ASSUME Init PROVE Tightening /\ NeverLoosened
  OBVIOUS
<1>1. Tightening
  BY DEF Init, Tightening
<1>2. InForce \in Nat /\ floor = InForce
  BY TypeInit, InForceIsHighest, ConstantsAssumption DEF HighestInForce, Init
<1> QED BY <1>1, <1>2 DEF NeverLoosened

-----------------------------------------------------------------------------
(* The one-shot profits                                                     *)

\* A list keeps its last call when it loses its first one.
LEMMA TailTags ==
  ASSUME NEW S, NEW s \in Seq(S), s # <<>>
  PROVE  /\ Tail(s) # <<>> => Tail(s)[Len(Tail(s))] = s[Len(s)] /\ Len(s) > 1
         /\ Len(s) > 1 => Tail(s) # <<>>
         /\ PartThenTag(s) => PartThenTag(Tail(s))
<1>1. /\ Tail(s) \in Seq(S) /\ Len(Tail(s)) = Len(s) - 1 /\ Len(s) \in Nat \ {0}
      /\ \A i \in DOMAIN Tail(s) : i + 1 \in DOMAIN s /\ Tail(s)[i] = s[i + 1]
      /\ (Tail(s) = <<>>) <=> (Len(s) = 1)
  BY TailOf
<1>2. DOMAIN Tail(s) = 1..Len(s) - 1
  BY <1>1
<1>3. Len(s) > 1 => Tail(s)[Len(Tail(s))] = s[Len(s)]
  <2>1. Len(s) > 1 => Len(s) - 1 \in DOMAIN Tail(s) /\ (Len(s) - 1) + 1 = Len(s)
    BY <1>1, <1>2
  <2> QED BY <1>1, <2>1
<1>4. ASSUME PartThenTag(s), NEW i \in DOMAIN Tail(s), Tail(s)[i].do = "tag"
      PROVE  i = Len(Tail(s))
  <2>1. i + 1 = Len(s)
    BY <1>1, <1>4 DEF PartThenTag
  <2> QED BY <1>1, <1>2, <2>1
<1>5. ASSUME PartThenTag(s), NEW i \in DOMAIN Tail(s), Tail(s)[i].do = "partial"
      PROVE  /\ Tail(s)[Len(Tail(s))] = Command("tag", 0, Tail(s)[i].amount)
             /\ \A j \in DOMAIN Tail(s) : Tail(s)[j].do = "partial" => j = i
  <2>1. Len(s) > 1
    BY <1>1, <1>2
  <2>2. s[Len(s)] = Command("tag", 0, Tail(s)[i].amount)
    BY <1>1, <1>5 DEF PartThenTag
  <2>3. ASSUME NEW j \in DOMAIN Tail(s), Tail(s)[j].do = "partial" PROVE j = i
    <3>1. j + 1 = i + 1
      BY <1>1, <1>5, <2>3 DEF PartThenTag
    <3> QED BY <1>2, <3>1
  <2> QED BY <1>3, <2>1, <2>2, <2>3
<1>6. PartThenTag(s) => PartThenTag(Tail(s))
  BY <1>4, <1>5 DEF PartThenTag
<1> QED BY <1>1, <1>3, <1>6

LEMMA ListsStep == TypeOK /\ OneShotLists /\ [Next]_vars => OneShotLists'
<1> SUFFICES ASSUME TypeOK, OneShotLists, [Next]_vars PROVE OneShotLists'
  OBVIOUS
<1>a. /\ DOMAIN todo = Procs /\ \A q \in Procs : todo[q] \in Seq(Commands(q))
      /\ Ticks \subseteq Procs /\ Routine \in Procs
  BY DEF TypeOK, Procs
<1>b. ASSUME NEW p \in Procs, \A q \in Procs : q # p => todo'[q] = todo[q], PartThenTag(todo'[p])
      PROVE  OneShotLists'
  BY <1>b DEF OneShotLists
<1>c. ASSUME NEW p \in Procs, todo[p] # <<>>, Done(p) PROVE OneShotLists'
  <2>1. todo'[p] = Tail(todo[p]) /\ \A q \in Procs \ {p} : todo'[q] = todo[q]
    BY <1>c, DoneType
  <2>2. PartThenTag(todo'[p])
    BY <1>a, <1>c, <2>1, TailTags DEF OneShotLists
  <2> QED BY <1>b, <2>1, <2>2
<1>d. ASSUME todo' = todo PROVE OneShotLists'
  BY <1>d DEF OneShotLists
<1>1. ASSUME NEW t \in Ticks, Decide(t) PROVE OneShotLists'
  <2>1. PICK fetched \in BOOLEAN, hasStop \in BOOLEAN :
          /\ PlanIsSound(t, todo'[t], looked[t], hasStop, {i \in Indices : fetched /\ tps[i] > 0})
          /\ \A q \in Procs : q # t => todo'[q] = todo[q]
    BY <1>1, DecideFacts
  <2>2. PartThenTag(todo'[t])
    BY <2>1 DEF PlanIsSound, PartThenTag
  <2> QED BY <1>a, <1>b, <2>1, <2>2
<1>2. ASSUME NEW l \in RoutineStops, RoutineMoves(l) PROVE OneShotLists'
  <2> DEFINE c == Command("move", l, 0)
  <2>1. todo'[Routine] = <<c>> /\ \A q \in Procs : q # Routine => todo'[q] = todo[q]
    BY <1>2, <1>a DEF RoutineMoves
  <2>2. c.do = "move"
    BY DEF Command
  <2>3. \A i \in DOMAIN todo'[Routine] : todo'[Routine][i].do = "move"
    <3> HIDE DEF c
    <3> QED BY <2>1, <2>2
  <2>4. PartThenTag(todo'[Routine])
    BY <2>3 DEF PartThenTag
  <2> QED BY <1>a, <1>b, <2>1, <2>4
<1>3. ASSUME NEW t \in Ticks, Kill(t) PROVE OneShotLists'
  <2>1. todo'[t] = <<>> /\ \A q \in Procs : q # t => todo'[q] = todo[q]
    BY <1>3, <1>a DEF Kill
  <2>2. PartThenTag(todo'[t])
    BY <2>1 DEF PartThenTag
  <2> QED BY <1>a, <1>b, <2>1, <2>2
<1>4. ASSUME NEW t \in Ticks, Look(t) PROVE OneShotLists'
  BY <1>4, <1>d DEF Look
<1>5. ASSUME NEW p \in Procs, CallThrows(p) \/ CreateStop(p) \/ SetTrailing(p) \/ SellPart(p)
                              \/ Bank(p) \/ Repost(p) \/ Save(p) \/ SaveTag(p)
      PROVE  OneShotLists'
  BY <1>5, <1>c DEF CallThrows, CreateStop, SetTrailing, SellPart, Bank, Repost, Save, SaveTag, At
<1>6. ASSUME NEW p \in Procs, FindStops(p) \/ CancelStops(p) \/ ReadSize(p) PROVE OneShotLists'
  BY <1>6, <1>d DEF FindStops, CancelStops, ReadSize
<1>7. CASE (\E p \in Levels : PriceMoves(p)) \/ GrowsOld \/ UNCHANGED vars
  BY <1>7, <1>d DEF PriceMoves, GrowsOld, vars, locals
<1>8. Procs = Ticks \cup {Routine}
  BY DEF Procs
<1> QED BY <1>1, <1>2, <1>3, <1>4, <1>5, <1>6, <1>7, <1>8 DEF Next, TickStep, Call

\* The end of a call takes no tag from a list but the one it records.
LEMMA TagsStay ==
  ASSUME TypeOK, NEW p \in Procs, todo[p] # <<>>, Done(p)
  PROVE  /\ \A q \in Procs : \A g : WillTag(q, g)' => WillTag(q, g)
         /\ Head(todo[p]).do # "tag" => \A q \in Procs : \A g : WillTag(q, g) => WillTag(q, g)'
         /\ Head(todo[p]).do # "partial" => \A q \in Procs : \A g : ToSell(q, g) => ToSell(q, g)'
<1>1. todo'[p] = Tail(todo[p]) /\ \A q \in Procs \ {p} : todo'[q] = todo[q]
  BY DoneType
<1>2. todo[p] \in Seq(Commands(p))
  BY DEF TypeOK
<1>3. /\ Tail(todo[p]) # <<>> => Tail(todo[p])[Len(Tail(todo[p]))] = todo[p][Len(todo[p])]
      /\ Len(todo[p]) > 1 => Tail(todo[p]) # <<>>
      /\ Len(todo[p]) \in Nat \ {0} /\ Head(todo[p]) = todo[p][1]
  BY <1>2, TailTags, TailOf
<1>4. ASSUME NEW q \in Procs, q # p, NEW g
      PROVE  (WillTag(q, g)' <=> WillTag(q, g)) /\ (ToSell(q, g) => ToSell(q, g)')
  <2>1. todo'[q] = todo[q]
    BY <1>1, <1>4
  <2> QED BY <2>1 DEF WillTag, ToSell
<1>5. ASSUME NEW g PROVE WillTag(p, g)' => WillTag(p, g)
  BY <1>1, <1>3 DEF WillTag
<1>6. ASSUME Head(todo[p]).do # "tag", NEW g, WillTag(p, g) PROVE WillTag(p, g)'
  <2>1. Len(todo[p]) # 1
    BY <1>3, <1>6 DEF WillTag, Command
  <2>2. Len(todo[p]) > 1
    <3>1. \A n \in Nat \ {0} : n # 1 => n > 1
      OBVIOUS
    <3>2. Len(todo[p]) \in Nat \ {0}
      BY <1>3
    <3> QED BY <2>1, <3>1, <3>2
  <2>3. Tail(todo[p]) # <<>> /\ Tail(todo[p])[Len(Tail(todo[p]))] = Command("tag", 0, g)
    BY <1>3, <1>6, <2>2 DEF WillTag
  <2> QED BY <1>1, <2>3 DEF WillTag
<1>7. ASSUME Head(todo[p]).do # "partial", NEW g, ToSell(p, g) PROVE ToSell(p, g)'
  <2>1. PICK i \in DOMAIN todo[p] : todo[p][i].do = "partial" /\ todo[p][i].amount = g
    BY <1>7 DEF ToSell
  <2>2. i # 1 /\ i \in 1..Len(todo[p])
    BY <1>2, <1>3, <1>7, <2>1
  <2>3. i - 1 \in 1..Len(todo[p]) - 1 /\ (i - 1) + 1 = i
    BY <1>3, <2>2
  <2>4. i - 1 \in DOMAIN Tail(todo[p]) /\ Tail(todo[p])[i - 1] = todo[p][(i - 1) + 1]
    <3>1. DOMAIN Tail(todo[p]) = 1..Len(todo[p]) - 1
      <4>1. Tail(todo[p]) \in Seq(Commands(p)) /\ Len(Tail(todo[p])) = Len(todo[p]) - 1
        BY <1>2, TailOf
      <4> QED BY <4>1
    <3> QED BY <1>2, <2>3, <3>1, TailOf
  <2> QED BY <1>1, <2>1, <2>3, <2>4 DEF ToSell
<1> QED BY <1>4, <1>5, <1>6, <1>7

\* A step that sells and records nothing, and loses no tag.
LEMMA SoldKept ==
  ASSUME SoldParts, managed' = managed, cuts' = cuts,
         \A p \in Managing : looked'[p] # Nothing => looked'[p].managed = managed,
         \A q \in Procs : \A i \in DOMAIN todo'[q] :
           \E k \in DOMAIN todo[q] : todo'[q][i] = todo[q][k],
         \A q \in Managing : \A g \in Tags : WillTag(q, g) => WillTag(q, g)'
  PROVE  SoldParts'
<1>1. (\A p \in Procs : \A i \in DOMAIN todo[p] :
         todo[p][i].do = "partial" => cuts[todo[p][i].amount] = 0)'
  <2> SUFFICES ASSUME NEW p \in Procs, NEW i \in DOMAIN todo'[p], todo'[p][i].do = "partial"
               PROVE  cuts[todo'[p][i].amount] = 0
    OBVIOUS
  <2>1. PICK k \in DOMAIN todo[p] : todo'[p][i] = todo[p][k]
    OBVIOUS
  <2> QED BY <2>1 DEF SoldParts
<1>2. (\A g \in Tags : cuts[g] >= 1 => g \in managed \/ \E p \in Managing : WillTag(p, g))'
  BY DEF SoldParts
<1> QED BY <1>1, <1>2 DEF SoldParts

LEMMA SoldStep ==
  TypeOK /\ Orderly /\ OneShotLists /\ SoldOnce /\ [Next]_vars => SoldOnce'
<1> SUFFICES ASSUME TypeOK, Orderly, OneShotLists, SoldOnce, [Next]_vars, Logged,
                    "kill" \notin disturbed'
             PROVE  SoldParts'
  BY DEF SoldOnce, Undisturbed
<1>a. /\ DOMAIN todo = Procs /\ \A q \in Procs : todo[q] \in Seq(Commands(q))
      /\ looked \in [Procs -> Seen] /\ cuts \in [Tags -> Nat]
      /\ Ticks \subseteq Procs /\ Routine \in Procs \ Ticks
      /\ Managing \subseteq Ticks /\ \A p, q \in Managing : p = q
  BY ConstantsAssumption DEF TypeOK, Seen, Procs
<1>b. ASSUME disturbed \subseteq disturbed' PROVE SoldParts
  BY <1>b DEF SoldOnce, Undisturbed
\* The end of a call that sells and records nothing.
<1>c. ASSUME NEW p \in Procs, todo[p] # <<>>, Done(p), Head(todo[p]).do # "tag", looked' = looked,
             managed' = managed, cuts' = cuts, disturbed \subseteq disturbed'
      PROVE  SoldParts'
  <2>1. \A q \in Managing : \A g \in Tags : WillTag(q, g) => WillTag(q, g)'
    BY <1>a, <1>c, TagsStay
  <2>2. SoldParts
    BY <1>b, <1>c
  <2>3. \A q \in Managing : looked'[q] # Nothing => looked'[q].managed = managed
    BY <1>c, <2>2 DEF SoldParts
  <2> QED BY <1>c, <2>1, <2>2, <2>3, SoldKept, DoneFacts
\* A step of another kind.
<1>d. ASSUME todo' = todo, managed' = managed, cuts' = cuts, disturbed \subseteq disturbed',
             \A p \in Managing : looked'[p] = looked[p] \/ looked'[p].managed = managed
      PROVE  SoldParts'
  <2>1. SoldParts
    BY <1>b, <1>d
  <2> QED BY <1>d, <2>1 DEF SoldParts, WillTag
<1>1. ASSUME NEW t \in Ticks, Look(t) PROVE SoldParts'
  <2>1. \A p \in Managing : looked'[p] = looked[p] \/ looked'[p].managed = managed
    BY <1>1, <1>a DEF Look
  <2> QED BY <1>1, <1>d, <2>1 DEF Look, Disturb, line
<1>2. ASSUME NEW t \in Ticks, Decide(t) PROVE SoldParts'
  <2>1. PICK fetched \in BOOLEAN, hasStop \in BOOLEAN :
          /\ PlanIsSound(t, todo'[t], looked[t], hasStop, {i \in Indices : fetched /\ tps[i] > 0})
          /\ disturbed \subseteq disturbed' /\ \A q \in Procs : q # t => todo'[q] = todo[q]
    BY <1>2, DecideFacts
  <2>2. /\ looked[t] # Nothing /\ looked'[t] = Nothing /\ managed' = managed /\ cuts' = cuts
        /\ \A q \in Procs : q # t => looked'[q] = looked[q]
    BY <1>2, <1>a DEF Decide, line
  <2>3. SoldParts /\ todo[t] = <<>>
    BY <1>a, <1>b, <2>1, <2>2 DEF Orderly
  <2>4. ASSUME NEW i \in DOMAIN todo'[t], todo'[t][i].do = "partial"
        PROVE  cuts[todo'[t][i].amount] = 0
    <3>1. t \in Managing /\ todo'[t][i].amount \notin looked[t].managed
      BY <2>1, <2>4 DEF PlanIsSound
    <3>2. todo'[t][i].amount \in Tags
      <4>1. todo'[t][i] \in Commands(t)
        BY <2>1 DEF PlanIsSound
      <4> QED BY <1>a, <2>4, <4>1 DEF Commands
    <3>3. \A g : ~WillTag(t, g)
      BY <2>3 DEF WillTag
    <3>4. ~(cuts[todo'[t][i].amount] >= 1)
      BY <1>a, <2>2, <2>3, <3>1, <3>2, <3>3 DEF SoldParts
    <3> QED BY <1>a, <3>2, <3>4
  <2>5. (\A p \in Procs : \A i \in DOMAIN todo[p] :
           todo[p][i].do = "partial" => cuts[todo[p][i].amount] = 0)'
    BY <2>1, <2>2, <2>3, <2>4 DEF SoldParts
  <2>6. \A p \in Procs, g \in Tags : WillTag(p, g) => WillTag(p, g)'
    BY <2>1, <2>3 DEF WillTag
  <2>7. (\A g \in Tags : cuts[g] >= 1 => g \in managed \/ \E p \in Managing : WillTag(p, g))'
    BY <1>a, <2>2, <2>3, <2>6 DEF SoldParts
  <2> QED BY <1>a, <2>2, <2>3, <2>5, <2>7 DEF SoldParts
<1>3. ASSUME NEW l \in RoutineStops, RoutineMoves(l) PROVE SoldParts'
  <2> DEFINE c == Command("move", l, 0)
  <2>1. /\ todo'[Routine] = <<c>> /\ \A q \in Procs : q # Routine => todo'[q] = todo[q]
        /\ UNCHANGED <<looked, managed, cuts>> /\ disturbed \subseteq disturbed'
    BY <1>3, <1>a DEF RoutineMoves, Disturb, line
  <2>2. c.do = "move"
    BY DEF Command
  <2>3. \A i \in DOMAIN todo'[Routine] : todo'[Routine][i].do = "move"
    <3> HIDE DEF c
    <3> QED BY <2>1, <2>2
  <2>4. SoldParts
    BY <1>b, <2>1
  <2>5. (\A p \in Procs : \A i \in DOMAIN todo[p] :
           todo[p][i].do = "partial" => cuts[todo[p][i].amount] = 0)'
    BY <2>1, <2>3, <2>4 DEF SoldParts
  <2>6. \A p \in Managing, g \in Tags : WillTag(p, g) => WillTag(p, g)'
    BY <1>a, <2>1 DEF WillTag
  <2>7. (\A g \in Tags : cuts[g] >= 1 => g \in managed \/ \E p \in Managing : WillTag(p, g))'
    BY <2>1, <2>4, <2>6 DEF SoldParts
  <2> QED BY <2>1, <2>4, <2>5, <2>7 DEF SoldParts
<1>4. ASSUME NEW p \in Procs,
             CallThrows(p) \/ CreateStop(p) \/ SetTrailing(p) \/ Bank(p) \/ Repost(p) \/ Save(p)
      PROVE  SoldParts'
  <2>1. /\ todo[p] # <<>> /\ Done(p) /\ Head(todo[p]).do # "tag"
        /\ UNCHANGED <<looked, managed, cuts>> /\ disturbed \subseteq disturbed'
    BY <1>4 DEF CallThrows, CreateStop, SetTrailing, Bank, Repost, Save, At, line, account, history,
                Disturb
  <2> QED BY <1>c, <2>1
<1>5. ASSUME NEW p \in Procs, FindStops(p) \/ CancelStops(p) \/ ReadSize(p) PROVE SoldParts'
  BY <1>5, <1>d DEF FindStops, CancelStops, ReadSize, Disturb, line, account, history
<1>6. ASSUME NEW p \in Procs, SellPart(p) PROVE SoldParts'
  <2> DEFINE tag == Head(todo[p]).amount
  <2>1. /\ todo[p] # <<>> /\ Done(p) /\ Head(todo[p]).do = "partial"
        /\ UNCHANGED <<looked, managed>> /\ disturbed \subseteq disturbed'
        /\ cuts' = cuts \/ cuts' = [cuts EXCEPT ![tag] = @ + 1]
    BY <1>6 DEF SellPart, At, Disturb, line
  <2>2. SoldParts
    BY <1>b, <2>1
  <2>3. tag \in Tags
    BY <2>1, HeadType DEF Commands
  <2>4. /\ 1 \in DOMAIN todo[p] /\ Head(todo[p]) = todo[p][1]
        /\ todo'[p] = Tail(todo[p]) /\ \A q \in Procs \ {p} : todo'[q] = todo[q]
        /\ \A i \in DOMAIN Tail(todo[p]) :
             i + 1 \in DOMAIN todo[p] /\ Tail(todo[p])[i] = todo[p][i + 1] /\ i \in Nat \ {0}
    <3>1. Tail(todo[p]) \in Seq(Commands(p))
      BY <1>a, <2>1, TailOf
    <3>2. \A i \in DOMAIN Tail(todo[p]) : i \in Nat \ {0}
      BY <3>1
    <3> QED BY <1>a, <2>1, <3>2, TailOf, DoneType
  <2>5. cuts[tag] = 0 /\ p \in Managing
    BY <2>1, <2>2, <2>4 DEF SoldParts, Orderly
  <2>6. WillTag(p, tag)
    BY <2>1, <2>4 DEF OneShotLists, PartThenTag, WillTag
  <2>7. \A q \in Procs, g \in Tags : WillTag(q, g) => WillTag(q, g)'
    BY <2>1, TagsStay
  <2> HIDE DEF tag
  <2>8. \A q \in Procs : \A i \in DOMAIN todo'[q] : todo'[q][i].do # "partial"
    <3> SUFFICES ASSUME NEW q \in Procs, NEW i \in DOMAIN todo'[q], todo'[q][i].do = "partial"
                 PROVE  FALSE
      OBVIOUS
    <3>1. q \in Managing
      <4>1. PICK k \in DOMAIN todo[q] : todo'[q][i] = todo[q][k]
        BY <2>1, DoneFacts
      <4> QED BY <4>1 DEF Orderly
    <3>2. q = p
      BY <1>a, <2>5, <3>1
    <3>3. i + 1 \in DOMAIN todo[p] /\ todo[p][i + 1].do = "partial" /\ i \in Nat \ {0}
      BY <2>4, <3>2
    <3>4. i + 1 = 1
      BY <2>1, <2>4, <3>3 DEF OneShotLists, PartThenTag
    <3> QED BY <3>3, <3>4
  <2>9. (\A g \in Tags : cuts[g] <= 1)'
    BY <1>a, <2>1, <2>2, <2>3, <2>5 DEF SoldParts
  <2>10. ASSUME NEW g \in Tags, cuts'[g] >= 1
         PROVE  g \in managed' \/ \E q \in Managing : WillTag(q, g)'
    <3>1. CASE g = tag
      BY <1>a, <2>5, <2>6, <2>7, <3>1
    <3>2. CASE g # tag
      <4>1. cuts[g] >= 1
        BY <1>a, <2>1, <2>3, <2>10, <3>2
      <4> QED BY <1>a, <2>1, <2>2, <2>7, <4>1 DEF SoldParts
    <3> QED BY <3>1, <3>2
  <2>11. (\A q \in Managing : looked[q] # Nothing => looked[q].managed = managed)'
    BY <2>1, <2>2 DEF SoldParts
  <2> QED BY <2>8, <2>9, <2>10, <2>11 DEF SoldParts
<1>7. ASSUME NEW p \in Procs, SaveTag(p) PROVE SoldParts'
  <2> DEFINE tag == Head(todo[p]).amount
  <2>1. /\ todo[p] # <<>> /\ Done(p) /\ Head(todo[p]).do = "tag"
        /\ UNCHANGED <<looked, cuts, disturbed>> /\ managed' = managed \cup {tag}
    BY <1>7 DEF SaveTag, At, history
  <2>2. SoldParts
    BY <1>b, <2>1
  <2>3. 1 \in DOMAIN todo[p] /\ Head(todo[p]) = todo[p][1]
    BY <1>a, <2>1, TailOf
  <2>4. p \in Managing /\ Len(todo[p]) = 1
    <3>1. todo[p][1].do = "tag"
      BY <2>1, <2>3
    <3>2. p \in Managing
      BY <2>3, <3>1 DEF Orderly
    <3>3. 1 = Len(todo[p])
      BY <2>3, <3>1 DEF OneShotLists, PartThenTag
    <3> QED BY <3>2, <3>3
  <2>5. (\A q \in Managing : looked[q] # Nothing => looked[q].managed = managed)'
    BY <1>a, <2>1, <2>4 DEF Orderly
  <2>6. (\A q \in Procs : \A i \in DOMAIN todo[q] :
           todo[q][i].do = "partial" => cuts[todo[q][i].amount] = 0)'
    <3> SUFFICES ASSUME NEW q \in Procs, NEW i \in DOMAIN todo'[q], todo'[q][i].do = "partial"
                 PROVE  cuts[todo'[q][i].amount] = 0
      BY <2>1
    <3>1. PICK k \in DOMAIN todo[q] : todo'[q][i] = todo[q][k]
      BY <2>1, DoneFacts
    <3> QED BY <2>2, <3>1 DEF SoldParts
  <2>7. ASSUME NEW g \in Tags, cuts[g] >= 1, g \notin managed' PROVE FALSE
    <3>1. PICK q \in Managing : WillTag(q, g)
      BY <2>1, <2>2, <2>7 DEF SoldParts
    <3>2. todo[p][1] = Command("tag", 0, g)
      BY <1>a, <2>4, <3>1 DEF WillTag
    <3>3. tag = g
      BY <2>3, <3>2 DEF Command
    <3> QED BY <2>1, <2>7, <3>3
  <2>8. (\A g \in Tags : cuts[g] >= 1 => g \in managed \/ \E q \in Managing : WillTag(q, g))'
    BY <2>1, <2>7
  <2> QED BY <2>1, <2>2, <2>5, <2>6, <2>8 DEF SoldParts
<1>8. ASSUME NEW t \in Ticks, Kill(t) PROVE SoldParts'
  BY <1>8 DEF Kill, Disturb
<1>9. CASE (\E p \in Levels : PriceMoves(p)) \/ GrowsOld \/ UNCHANGED vars
  BY <1>9, <1>d DEF PriceMoves, GrowsOld, vars, locals, line, history
<1>10. Procs = Ticks \cup {Routine}
  BY DEF Procs
<1> QED BY <1>1, <1>2, <1>3, <1>4, <1>5, <1>6, <1>7, <1>8, <1>9, <1>10 DEF Next, TickStep, Call

LEMMA TagsStep ==
  TypeOK /\ OneShotLists /\ TagStands /\ [Next]_vars => TagStands'
<1> SUFFICES ASSUME TypeOK, OneShotLists, TagStands, [Next]_vars,
                    disturbed' \cap {"order", "refused"} = {}
             PROVE  TagsMean'
  BY DEF TagStands, Undisturbed
<1>a. /\ DOMAIN todo = Procs /\ \A q \in Procs : todo[q] \in Seq(Commands(q))
      /\ cuts \in [Tags -> Nat] /\ size \in Nat /\ managed \subseteq Tags
      /\ Ticks \subseteq Procs /\ Routine \in Procs \ Ticks
  BY ConstantsAssumption DEF TypeOK, Procs
<1>b. ASSUME disturbed \subseteq disturbed' PROVE TagsMean
  BY <1>b DEF TagStands, Undisturbed
\* A step that closes the position, or sells, records and forgets nothing.
<1>c. ASSUME managed' = managed, cuts' = cuts, disturbed \subseteq disturbed',
             size = 0 => size' = 0,
             size' = 0 \/ \A q \in Procs, g \in Tags :
               WillTag(q, g)' => (WillTag(q, g) /\ (ToSell(q, g) => ToSell(q, g)')) \/ ToSell(q, g)'
      PROVE  TagsMean'
  <2>1. TagsMean
    BY <1>b, <1>c
  <2>2. CASE size' = 0
    BY <2>2 DEF TagsMean
  <2>3. CASE size' # 0
    BY <1>c, <2>1, <2>3 DEF TagsMean
  <2> QED BY <2>2, <2>3
<1>d. ASSUME todo' = todo, managed' = managed, cuts' = cuts, disturbed \subseteq disturbed',
             size = 0 => size' = 0
      PROVE  TagsMean'
  <2>1. \A q \in Procs, g \in Tags :
          (WillTag(q, g)' <=> WillTag(q, g)) /\ (ToSell(q, g)' <=> ToSell(q, g))
    BY <1>d DEF WillTag, ToSell
  <2> QED BY <1>c, <1>d, <2>1
<1>1. ASSUME NEW t \in Ticks, Look(t) PROVE TagsMean'
  BY <1>1, <1>d DEF Look, Disturb, line, account
<1>2. ASSUME NEW t \in Ticks, Decide(t) PROVE TagsMean'
  <2>1. PICK fetched \in BOOLEAN, hasStop \in BOOLEAN :
          /\ PlanIsSound(t, todo'[t], looked[t], hasStop, {i \in Indices : fetched /\ tps[i] > 0})
          /\ disturbed \subseteq disturbed' /\ \A q \in Procs : q # t => todo'[q] = todo[q]
    BY <1>2, DecideFacts
  <2>2. \A g \in Tags : WillTag(t, g)' => ToSell(t, g)'
    <3> SUFFICES ASSUME NEW g \in Tags, todo'[t][Len(todo'[t])] = Command("tag", 0, g)
                 PROVE  \E j \in DOMAIN todo'[t] : todo'[t][j].do = "partial" /\ todo'[t][j].amount = g
      BY DEF WillTag, ToSell
    <3>1. Len(todo'[t]) \in DOMAIN todo'[t]
      <4>1. todo'[t] \in Seq(Commands(t)) /\ todo'[t] # <<>>
        BY <2>1 DEF PlanIsSound
      <4> QED BY <4>1, TailOf
    <3>2. Command("tag", 0, g).do = "tag" /\ Command("tag", 0, g).amount = g
      BY DEF Command
    <3> QED BY <2>1, <3>1, <3>2 DEF PlanIsSound
  <2>3. \A q \in Procs, g \in Tags : q # t =>
          (WillTag(q, g)' <=> WillTag(q, g)) /\ (ToSell(q, g)' <=> ToSell(q, g))
    BY <2>1 DEF WillTag, ToSell
  <2>4. managed' = managed /\ cuts' = cuts /\ size' = size
    BY <1>2 DEF Decide, line, account
  <2> QED BY <1>c, <2>1, <2>2, <2>3, <2>4
<1>3. ASSUME NEW l \in RoutineStops, RoutineMoves(l) PROVE TagsMean'
  <2> DEFINE c == Command("move", l, 0)
  <2>1. /\ todo'[Routine] = <<c>> /\ \A q \in Procs : q # Routine => todo'[q] = todo[q]
        /\ UNCHANGED <<size, managed, cuts>> /\ disturbed \subseteq disturbed'
    BY <1>3, <1>a DEF RoutineMoves, Disturb, line, account
  <2>2. \A g \in Tags : ~WillTag(Routine, g)'
    <3>1. <<c>>[Len(<<c>>)] = c /\ \A g : c # Command("tag", 0, g)
      BY DEF Command
    <3> HIDE DEF c
    <3> QED BY <2>1, <3>1 DEF WillTag
  <2>3. \A q \in Procs, g \in Tags : q # Routine =>
          (WillTag(q, g)' <=> WillTag(q, g)) /\ (ToSell(q, g)' <=> ToSell(q, g))
    BY <2>1 DEF WillTag, ToSell
  <2> QED BY <1>c, <2>1, <2>2, <2>3
<1>4. ASSUME NEW p \in Procs,
             CallThrows(p) \/ CreateStop(p) \/ SetTrailing(p) \/ Bank(p) \/ Repost(p) \/ Save(p)
      PROVE  TagsMean'
  <2>1. /\ todo[p] # <<>> /\ Done(p) /\ (Head(todo[p]).do # "partial" \/ size' = 0)
        /\ UNCHANGED <<managed, cuts>> /\ disturbed \subseteq disturbed'
    BY <1>4 DEF CallThrows, CreateStop, SetTrailing, Bank, Repost, Save, At, line, account, history,
                Disturb
  <2>2. size = 0 => size' = 0
    BY <1>4, StaysClosed DEF CallThrows, CreateStop, SetTrailing, Repost, Save, account
  <2>3. size' = 0 \/ \A q \in Procs, g \in Tags :
          WillTag(q, g)' => (WillTag(q, g) /\ (ToSell(q, g) => ToSell(q, g)')) \/ ToSell(q, g)'
    BY <2>1, TagsStay
  <2> QED BY <1>c, <2>1, <2>2, <2>3
<1>5. ASSUME NEW p \in Procs, FindStops(p) \/ CancelStops(p) \/ ReadSize(p) PROVE TagsMean'
  BY <1>5, <1>d DEF FindStops, CancelStops, ReadSize, Disturb, line, account, history
<1>6. ASSUME NEW p \in Procs, SellPart(p) PROVE TagsMean'
  <2> DEFINE tag == Head(todo[p]).amount
  <2> DEFINE possible == size > 0 /\ held[p] > 0
  <2>1. PICK fate \in Fate(possible) :
          /\ cuts' = IF fate = "refused" THEN cuts ELSE [cuts EXCEPT ![tag] = @ + 1]
          /\ disturbed' = disturbed \cup Mishap(fate, possible)
    BY <1>6 DEF SellPart, Disturb
  <2>2. fate # "refused"
    <3>1. Mishap("refused", possible) \cap {"order", "refused"} # {}
      BY DEF Mishap
    <3> QED BY <2>1, <3>1
  <2>3. todo[p] # <<>> /\ Done(p) /\ Head(todo[p]).do = "partial" /\ managed' = managed
    BY <1>6 DEF SellPart, At, line
  <2>4. TagsMean /\ tag \in Tags
    BY <1>b, <2>1, <2>3, HeadType DEF Commands
  <2>5. size = 0 => size' = 0
    BY <1>6, StaysClosed
  <2> HIDE DEF tag, possible
  <2>6. \A g \in Tags : cuts'[g] >= cuts[g] /\ cuts'[g] \in Nat /\ cuts'[tag] >= 1
    BY <1>a, <2>1, <2>2, <2>4
  <2>7. \A g \in managed : cuts'[g] >= 1 \/ size' = 0
    BY <1>a, <2>4, <2>5, <2>6 DEF TagsMean
  <2>8. ASSUME NEW q \in Procs, NEW g \in Tags, WillTag(q, g)'
        PROVE  cuts'[g] >= 1 \/ size' = 0 \/ ToSell(q, g)'
    <3>1. WillTag(q, g)
      BY <2>3, <2>8, TagsStay
    <3>2. CASE g = tag
      BY <2>6, <3>2
    <3>3. CASE g # tag
      <4>1. cuts[g] >= 1 \/ size = 0 \/ ToSell(q, g)
        BY <2>4, <3>1 DEF TagsMean
      <4>2. ToSell(q, g) => ToSell(q, g)'
        <5>1. CASE q = p
          <6>1. ASSUME ToSell(p, g) PROVE FALSE
            <7>1. PICK i \in DOMAIN todo[p] : todo[p][i].do = "partial" /\ todo[p][i].amount = g
              BY <6>1 DEF ToSell
            <7>2. 1 \in DOMAIN todo[p] /\ Head(todo[p]) = todo[p][1]
              BY <1>a, <2>3, TailOf
            <7>3. i = 1
              BY <2>3, <7>1, <7>2 DEF OneShotLists, PartThenTag
            <7> QED BY <3>3, <7>1, <7>2, <7>3 DEF tag
          <6> QED BY <5>1, <6>1
        <5>2. CASE q # p
          <6>1. todo'[q] = todo[q]
            BY <2>3, <5>2, DoneType
          <6> QED BY <6>1 DEF ToSell
        <5> QED BY <5>1, <5>2
      <4>3. cuts[g] >= 1 => cuts'[g] >= 1
        BY <1>a, <2>6
      <4> QED BY <2>5, <4>1, <4>2, <4>3
    <3> QED BY <3>2, <3>3
  <2> QED BY <2>3, <2>7, <2>8 DEF TagsMean
<1>7. ASSUME NEW p \in Procs, SaveTag(p) PROVE TagsMean'
  <2> DEFINE tag == Head(todo[p]).amount
  <2>1. /\ todo[p] # <<>> /\ Done(p) /\ Head(todo[p]).do = "tag"
        /\ UNCHANGED <<size, cuts, disturbed>>
        /\ managed' = managed \/ managed' = managed \cup {tag}
    BY <1>7 DEF SaveTag, At, history, account
  <2>2. TagsMean
    BY <1>b, <2>1
  <2>3. 1 \in DOMAIN todo[p] /\ Head(todo[p]) = todo[p][1] /\ Head(todo[p]) \in Commands(p)
    BY <1>a, <2>1, TailOf
  <2>4. Len(todo[p]) = 1
    BY <2>1, <2>3 DEF OneShotLists, PartThenTag
  <2>5. tag \in Tags /\ Head(todo[p]) = Command("tag", 0, tag)
    BY <2>1, <2>3 DEF Commands, Command
  <2>6. WillTag(p, tag) /\ ~ToSell(p, tag)
    <3>1. DOMAIN todo[p] = 1..1
      BY <1>a, <2>4
    <3>2. \A i \in DOMAIN todo[p] : todo[p][i].do = "tag"
      BY <2>1, <2>3, <3>1
    <3> QED BY <2>1, <2>3, <2>4, <2>5, <3>2 DEF WillTag, ToSell
  <2>7. cuts[tag] >= 1 \/ size = 0
    BY <2>2, <2>5, <2>6 DEF TagsMean
  <2>8. \A g \in managed' : cuts'[g] >= 1 \/ size' = 0
    BY <2>1, <2>2, <2>7 DEF TagsMean
  <2>9. \A q \in Procs, g \in Tags : WillTag(q, g)' => WillTag(q, g) /\ (ToSell(q, g) => ToSell(q, g)')
    BY <2>1, TagsStay
  <2> QED BY <2>1, <2>2, <2>8, <2>9 DEF TagsMean
<1>8. ASSUME NEW t \in Ticks, Kill(t) PROVE TagsMean'
  <2>1. /\ todo'[t] = <<>> /\ \A q \in Procs : q # t => todo'[q] = todo[q]
        /\ UNCHANGED <<size, managed, cuts>> /\ disturbed \subseteq disturbed'
    BY <1>8, <1>a DEF Kill, Disturb, line, account
  <2>2. \A q \in Procs, g \in Tags : WillTag(q, g)' => WillTag(q, g) /\ (ToSell(q, g) => ToSell(q, g)')
    BY <2>1 DEF WillTag, ToSell
  <2> QED BY <1>c, <2>1, <2>2
<1>9. CASE (\E p \in Levels : PriceMoves(p)) \/ GrowsOld \/ UNCHANGED vars
  <2>1. size = 0 => size' = 0
    BY <1>9 DEF PriceMoves, GrowsOld, vars, account
  <2> QED BY <1>9, <1>d, <2>1 DEF PriceMoves, GrowsOld, vars, locals, line, history
<1>10. Procs = Ticks \cup {Routine}
  BY DEF Procs
<1> QED BY <1>1, <1>2, <1>3, <1>4, <1>5, <1>6, <1>7, <1>8, <1>9, <1>10 DEF Next, TickStep, Call

-----------------------------------------------------------------------------
(* The targets                                                              *)

\* A step after which no list, target or record is about more than before.
LEMMA EachKept ==
  ASSUME EachOnce, looked' = looked, taken' = taken, banked' = banked, todo' = todo,
         \A i \in Indices : tps[i] = 0 => tps'[i] = 0, TypeOK
  PROVE  EachOnce'
<1>1. taken \subseteq Indices /\ \A p \in Procs : banked[p] \subseteq Indices
  BY DEF TypeOK
<1>2. ASSUME NEW p \in Procs, NEW k \in DOMAIN todo[p], AboutTarget(todo[p][k])
      PROVE  todo[p][k].level \in Indices
  <2>1. todo[p][k] \in Commands(p)
    <3>1. todo[p] \in Seq(Commands(p))
      BY DEF TypeOK
    <3> QED BY <3>1
  <2> QED BY <1>2, <2>1 DEF Commands, AboutTarget
<1> QED BY <1>1, <1>2 DEF EachOnce

\* The end of a call that is about no target, or about one that is then in no
\* other place.
LEMMA EachDone ==
  ASSUME TypeOK, EachOnce, NEW p \in Procs, todo[p] # <<>>, Done(p), looked' = looked,
         \A q \in Procs : q # p => Idle(q), looked[p] = Nothing,
         \A i \in taken' : tps'[i] = 0,
         todo'[p] # <<>> => \A i \in banked'[p] : tps'[i] = 0,
         \A k \in DOMAIN todo[p] : k # 1 /\ AboutTarget(todo[p][k]) =>
           /\ todo[p][k].level \notin taken' \cup banked'[p]
           /\ tps'[todo[p][k].level] = 0
  PROVE  EachOnce'
<1>1. /\ todo'[p] = Tail(todo[p]) /\ \A q \in Procs \ {p} : todo'[q] = <<>>
      /\ \A i \in DOMAIN Tail(todo[p]) :
           i + 1 \in DOMAIN todo[p] /\ Tail(todo[p])[i] = todo[p][i + 1] /\ i \in Nat \ {0}
  <2>1. todo[p] \in Seq(Commands(p))
    BY DEF TypeOK
  <2>2. Tail(todo[p]) \in Seq(Commands(p))
    BY <2>1, TailOf
  <2>3. \A i \in DOMAIN Tail(todo[p]) : i \in Nat \ {0}
    BY <2>2
  <2>4. \A i \in DOMAIN Tail(todo[p]) : i + 1 \in DOMAIN todo[p] /\ Tail(todo[p])[i] = todo[p][i + 1]
    BY <2>1, TailOf
  <2>5. todo'[p] = Tail(todo[p]) /\ \A q \in Procs \ {p} : todo'[q] = todo[q]
    BY DoneType
  <2>6. \A q \in Procs \ {p} : todo[q] = <<>>
    BY DEF Idle
  <2> QED BY <2>3, <2>4, <2>5, <2>6
<1>2. \A q \in Procs : looked'[q] = Nothing
  BY DEF Idle
<1>3. ASSUME NEW q \in Procs, NEW k \in DOMAIN todo'[q], AboutTarget(todo'[q][k])
      PROVE  LET i == todo'[q][k].level
             IN  /\ i \notin taken' /\ i \notin banked'[q] /\ tps'[i] = 0
                 /\ \A m \in DOMAIN todo'[q] :
                      AboutTarget(todo'[q][m]) /\ todo'[q][m].level = i => m = k
  <2>1. q = p
    BY <1>1, <1>3
  <2>2. k + 1 \in DOMAIN todo[p] /\ todo'[q][k] = todo[p][k + 1] /\ k \in Nat \ {0}
    BY <1>1, <1>3, <2>1
  <2>3. todo'[q][k].level \notin taken' \cup banked'[p] /\ tps'[todo'[q][k].level] = 0
    <3>1. k + 1 # 1
      BY <2>2
    <3> QED BY <1>3, <2>2, <3>1
  <2>4. ASSUME NEW m \in DOMAIN todo'[q], AboutTarget(todo'[q][m]),
               todo'[q][m].level = todo'[q][k].level
        PROVE  m = k
    <3>1. m + 1 \in DOMAIN todo[p] /\ todo'[q][m] = todo[p][m + 1] /\ m \in Nat \ {0}
      BY <1>1, <2>1, <2>4
    <3>2. m + 1 = k + 1
      BY <1>3, <2>2, <2>4, <3>1 DEF EachOnce
    <3> QED BY <2>2, <3>1, <3>2
  <2> QED BY <2>1, <2>3, <2>4
<1>4. ASSUME NEW q \in Procs, todo'[q] # <<>> PROVE \A i \in banked'[q] : tps'[i] = 0
  BY <1>1, <1>4
<1> QED BY <1>2, <1>3, <1>4 DEF EachOnce

LEMMA TargetsStep ==
  TypeOK /\ Orderly /\ TargetsApart /\ [Next]_vars => TargetsApart'
<1> SUFFICES ASSUME TypeOK, Orderly, TargetsApart, [Next]_vars,
                    disturbed' \cap {"fetch", "overlap"} = {}
             PROVE  EachOnce'
  BY DEF TargetsApart, Undisturbed
<1>a. /\ DOMAIN todo = Procs /\ \A q \in Procs : todo[q] \in Seq(Commands(q))
      /\ looked \in [Procs -> Seen] /\ banked \in [Procs -> SUBSET Indices]
      /\ tps \in [Indices -> Nat] /\ taken \subseteq Indices
      /\ Ticks \subseteq Procs /\ Routine \in Procs \ Ticks
  BY ConstantsAssumption DEF TypeOK, Seen, Procs
<1>b. ASSUME disturbed \subseteq disturbed'
      PROVE  EachOnce /\ \A p, q \in Procs : ~Idle(p) /\ ~Idle(q) => p = q
  BY <1>b DEF TargetsApart, Orderly, Undisturbed
<1>c. ASSUME NEW p \in Procs, todo[p] # <<>>, disturbed \subseteq disturbed'
      PROVE  looked[p] = Nothing /\ \A q \in Procs : q # p => Idle(q)
  BY <1>b, <1>c DEF Orderly, Idle
\* The end of a call that is about no target.
<1>d. ASSUME NEW p \in Procs, todo[p] # <<>>, Done(p), disturbed \subseteq disturbed',
             UNCHANGED <<looked, taken, banked, tps>>
      PROVE  EachOnce'
  <2>1. EachOnce /\ looked[p] = Nothing /\ \A q \in Procs : q # p => Idle(q)
    BY <1>b, <1>c, <1>d
  <2>2. /\ \A i \in taken : tps[i] = 0
        /\ \A i \in banked[p] : tps[i] = 0
        /\ \A k \in DOMAIN todo[p] : AboutTarget(todo[p][k]) =>
             todo[p][k].level \notin taken \cup banked[p] /\ tps[todo[p][k].level] = 0
    BY <1>d, <2>1 DEF EachOnce
  <2> QED BY <1>d, <2>1, <2>2, EachDone
\* The target of the first call is in no other place.
<1>e. ASSUME NEW p \in Procs, todo[p] # <<>>, AboutTarget(Head(todo[p])), EachOnce
      PROVE  LET i == Head(todo[p]).level
             IN  /\ i \in Indices /\ i \notin taken /\ i \notin banked[p] /\ tps[i] = 0
                 /\ \A k \in DOMAIN todo[p] :
                      k # 1 /\ AboutTarget(todo[p][k]) => todo[p][k].level # i
  <2>1. 1 \in DOMAIN todo[p] /\ Head(todo[p]) = todo[p][1]
    BY <1>a, <1>e, TailOf
  <2>2. Head(todo[p]).level \in Indices
    BY <1>e, HeadType DEF Commands, AboutTarget
  <2> QED BY <1>e, <2>1, <2>2 DEF EachOnce
<1>1. ASSUME NEW t \in Ticks, Look(t) PROVE EachOnce'
  <2>1. /\ UNCHANGED <<todo, taken, tps>> /\ disturbed \subseteq disturbed' /\ Idle(t)
        /\ looked'[t].taken = taken /\ banked'[t] = {}
        /\ \A q \in Procs : q # t => looked'[q] = looked[q] /\ banked'[q] = banked[q]
    BY <1>1, <1>a DEF Look, Disturb, line, account
  <2>2. EachOnce
    BY <1>b, <2>1
  <2>3. todo[t] = <<>> /\ DOMAIN <<>> = {}
    BY <2>1 DEF Idle
  <2>4. (\A p \in Procs : looked[p] # Nothing => looked[p].taken = taken /\ banked[p] = {})'
    BY <2>1, <2>2 DEF EachOnce
  <2>5. (\A p \in Procs : todo[p] # <<>> => \A i \in banked[p] : tps[i] = 0)'
    BY <2>1, <2>2, <2>3 DEF EachOnce
  <2>6. ASSUME NEW p \in Procs, NEW k \in DOMAIN todo'[p] PROVE p # t /\ k \in DOMAIN todo[p]
    BY <2>1, <2>3, <2>6
  <2> QED BY <2>1, <2>2, <2>4, <2>5, <2>6 DEF EachOnce
<1>2. ASSUME NEW t \in Ticks, Decide(t) PROVE EachOnce'
  <2>1. PICK fetched \in BOOLEAN, hasStop \in BOOLEAN :
          /\ PlanIsSound(t, todo'[t], looked[t], hasStop, {i \in Indices : fetched /\ tps[i] > 0})
          /\ disturbed' = disturbed \cup (IF fetched THEN {} ELSE {"fetch"})
          /\ \A q \in Procs : q # t => todo'[q] = todo[q]
    BY <1>2, DecideFacts
  <2>2. /\ looked[t] # Nothing /\ looked'[t] = Nothing /\ UNCHANGED <<taken, tps, banked>>
        /\ \A q \in Procs : q # t => looked'[q] = looked[q]
    BY <1>2, <1>a DEF Decide, line, account
  <2>3. EachOnce /\ fetched
    BY <1>b, <2>1
  <2>4. looked[t].taken = taken /\ banked[t] = {}
    BY <1>a, <2>2, <2>3 DEF EachOnce
  <2>5. AboutOnce(todo'[t], Len(Targets), {i \in Indices : tps[i] > 0} \cup taken)
    <3>1. {i \in Indices : fetched /\ tps[i] > 0} = {i \in Indices : tps[i] > 0}
      BY <2>3
    <3> QED BY <2>1, <2>4, <3>1 DEF PlanIsSound
  <2>6. ASSUME NEW k \in DOMAIN todo'[t], AboutTarget(todo'[t][k])
        PROVE  LET i == todo'[t][k].level
               IN  /\ i \notin taken /\ i \notin banked[t] /\ tps[i] = 0
                   /\ \A m \in DOMAIN todo'[t] :
                        AboutTarget(todo'[t][m]) /\ todo'[t][m].level = i => m = k
    <3>1. todo'[t][k].level \in Indices
      <4>1. todo'[t][k] \in Commands(t)
        BY <2>1 DEF PlanIsSound
      <4> QED BY <2>6, <4>1 DEF Commands, AboutTarget
    <3>2. todo'[t][k].level \notin {i \in Indices : tps[i] > 0} \cup taken
      BY <2>5, <2>6 DEF AboutOnce
    <3>3. tps[todo'[t][k].level] = 0
      BY <1>a, <3>1, <3>2
    <3> QED BY <2>4, <2>5, <2>6, <3>2, <3>3 DEF AboutOnce
  <2>7. (\A p \in Procs : looked[p] # Nothing => looked[p].taken = taken /\ banked[p] = {})'
    BY <2>2, <2>3 DEF EachOnce
  <2>8. (\A p \in Procs : todo[p] # <<>> => \A i \in banked[p] : tps[i] = 0)'
    BY <2>1, <2>2, <2>3, <2>4 DEF EachOnce
  <2> QED BY <2>1, <2>2, <2>3, <2>6, <2>7, <2>8 DEF EachOnce
<1>3. ASSUME NEW l \in RoutineStops, RoutineMoves(l) PROVE EachOnce'
  <2> DEFINE c == Command("move", l, 0)
  <2>1. /\ todo'[Routine] = <<c>> /\ \A q \in Procs : q # Routine => todo'[q] = todo[q]
        /\ UNCHANGED <<looked, taken, banked, tps>> /\ disturbed \subseteq disturbed'
    BY <1>3, <1>a DEF RoutineMoves, Disturb, line, account
  <2>2. ~AboutTarget(c)
    BY DEF Command, AboutTarget
  <2>3. \A i \in DOMAIN todo'[Routine] : ~AboutTarget(todo'[Routine][i])
    <3> HIDE DEF c
    <3> QED BY <2>1, <2>2
  <2>4. EachOnce /\ banked[Routine] = {}
    BY <1>b, <2>1 DEF Orderly
  <2> QED BY <2>1, <2>3, <2>4 DEF EachOnce
<1>4. ASSUME NEW p \in Procs,
             CallThrows(p) \/ CreateStop(p) \/ SetTrailing(p) \/ SellPart(p) \/ SaveTag(p)
      PROVE  EachOnce'
  <2>1. /\ todo[p] # <<>> /\ Done(p) /\ disturbed \subseteq disturbed'
        /\ UNCHANGED <<looked, taken, banked, tps>>
    BY <1>4 DEF CallThrows, CreateStop, SetTrailing, SellPart, SaveTag, At, line, account, history,
                Disturb
  <2> QED BY <1>d, <2>1
<1>5. ASSUME NEW p \in Procs, FindStops(p) \/ CancelStops(p) \/ ReadSize(p) PROVE EachOnce'
  <2>1. UNCHANGED <<todo, looked, taken, banked, tps>> /\ disturbed \subseteq disturbed'
    BY <1>5 DEF FindStops, CancelStops, ReadSize, Disturb, line, account, history
  <2> QED BY <1>b, <2>1, EachKept
<1>6. ASSUME NEW p \in Procs, Bank(p) PROVE EachOnce'
  <2> DEFINE i == Head(todo[p]).level
  <2>1. /\ todo[p] # <<>> /\ Done(p) /\ AboutTarget(Head(todo[p])) /\ disturbed \subseteq disturbed'
        /\ UNCHANGED <<looked, taken, tps>>
        /\ banked' = banked \/ banked' = [banked EXCEPT ![p] = @ \cup {i}]
    BY <1>6 DEF Bank, At, line, Disturb, AboutTarget
  <2>2. EachOnce /\ looked[p] = Nothing /\ \A q \in Procs : q # p => Idle(q)
    BY <1>b, <1>c, <2>1
  <2>3. banked'[p] \subseteq banked[p] \cup {i}
    BY <1>a, <2>1
  <2>4. /\ i \in Indices /\ i \notin taken /\ i \notin banked[p] /\ tps[i] = 0
        /\ \A k \in DOMAIN todo[p] : k # 1 /\ AboutTarget(todo[p][k]) => todo[p][k].level # i
    BY <1>e, <2>1, <2>2
  <2> HIDE DEF i
  <2>5. \A j \in banked'[p] : tps[j] = 0
    BY <2>1, <2>2, <2>3, <2>4 DEF EachOnce
  <2>6. \A k \in DOMAIN todo[p] : k # 1 /\ AboutTarget(todo[p][k]) =>
          todo[p][k].level \notin taken \cup banked'[p] /\ tps[todo[p][k].level] = 0
    BY <2>2, <2>3, <2>4 DEF EachOnce
  <2>7. \A j \in taken : tps[j] = 0
    BY <2>2 DEF EachOnce
  <2> QED BY <2>1, <2>2, <2>5, <2>6, <2>7, EachDone
<1>7. ASSUME NEW p \in Procs, Repost(p) PROVE EachOnce'
  <2> DEFINE i == Head(todo[p]).level
  <2>1. /\ todo[p] # <<>> /\ Done(p) /\ AboutTarget(Head(todo[p])) /\ disturbed \subseteq disturbed'
        /\ UNCHANGED <<looked, taken, banked>>
        /\ tps' = tps \/ tps' = [tps EXCEPT ![i] = @ + 1]
    BY <1>7 DEF Repost, At, line, Disturb, AboutTarget
  <2>2. EachOnce /\ looked[p] = Nothing /\ \A q \in Procs : q # p => Idle(q)
    BY <1>b, <1>c, <2>1
  <2>3. \A j \in Indices : j # i => tps'[j] = tps[j]
    BY <1>a, <2>1
  <2>4. /\ i \in Indices /\ i \notin taken /\ i \notin banked[p]
        /\ \A k \in DOMAIN todo[p] : k # 1 /\ AboutTarget(todo[p][k]) => todo[p][k].level # i
    BY <1>e, <2>1, <2>2
  <2> HIDE DEF i
  <2>5. \A j \in taken \cup banked[p] : tps'[j] = 0
    BY <1>a, <2>1, <2>2, <2>3, <2>4 DEF EachOnce
  <2>6. ASSUME NEW k \in DOMAIN todo[p], k # 1, AboutTarget(todo[p][k])
        PROVE  todo[p][k].level \notin taken \cup banked[p] /\ tps'[todo[p][k].level] = 0
    <3>1. todo[p][k].level \in Indices
      <4>1. todo[p][k] \in Commands(p)
        BY <1>a
      <4> QED BY <2>6, <4>1 DEF Commands, AboutTarget
    <3> QED BY <2>2, <2>3, <2>4, <2>6, <3>1 DEF EachOnce
  <2> QED BY <2>1, <2>2, <2>5, <2>6, EachDone
<1>8. ASSUME NEW p \in Procs, Save(p) PROVE EachOnce'
  <2>1. /\ todo[p] # <<>> /\ Done(p) /\ UNCHANGED <<looked, tps, disturbed>>
        /\ taken' \subseteq taken \cup banked[p] /\ banked'[p] = {}
    BY <1>8, <1>a DEF Save, At, history, account
  <2>2. EachOnce /\ looked[p] = Nothing /\ \A q \in Procs : q # p => Idle(q)
    BY <1>b, <1>c, <2>1
  <2>3. \A i \in taken' : tps[i] = 0
    BY <2>1, <2>2 DEF EachOnce
  <2>4. \A k \in DOMAIN todo[p] : AboutTarget(todo[p][k]) =>
          todo[p][k].level \notin taken \cup banked[p] /\ tps[todo[p][k].level] = 0
    BY <2>2 DEF EachOnce
  <2> QED BY <2>1, <2>2, <2>3, <2>4, EachDone
<1>9. ASSUME NEW t \in Ticks, Kill(t) PROVE EachOnce'
  <2>1. /\ looked'[t] = Nothing /\ todo'[t] = <<>> /\ banked'[t] = {}
        /\ \A q \in Procs : q # t =>
             looked'[q] = looked[q] /\ todo'[q] = todo[q] /\ banked'[q] = banked[q]
        /\ UNCHANGED <<taken, tps>> /\ disturbed \subseteq disturbed'
    BY <1>9, <1>a DEF Kill, Disturb, line, account
  <2>2. EachOnce
    BY <1>b, <2>1
  <2>3. DOMAIN <<>> = {}
    OBVIOUS
  <2> QED BY <2>1, <2>2, <2>3 DEF EachOnce
<1>10. ASSUME NEW p \in Levels, PriceMoves(p) PROVE EachOnce'
  <2>1. UNCHANGED <<todo, looked, taken, banked, disturbed>>
    BY <1>10 DEF PriceMoves, locals, line
  <2>2. \A i \in Indices : tps[i] = 0 => tps'[i] = 0
    BY <1>10 DEF PriceMoves
  <2> QED BY <1>b, <2>1, <2>2, EachKept
<1>11. CASE GrowsOld \/ UNCHANGED vars
  <2>1. UNCHANGED <<todo, looked, taken, banked, tps, disturbed>>
    BY <1>11 DEF GrowsOld, vars, locals, line, account, history
  <2> QED BY <1>b, <2>1, EachKept
<1>12. Procs = Ticks \cup {Routine}
  BY DEF Procs
<1> QED BY <1>1, <1>2, <1>3, <1>4, <1>5, <1>6, <1>7, <1>8, <1>9, <1>10, <1>11, <1>12
     DEF Next, TickStep, Call

-----------------------------------------------------------------------------
(* The theorems                                                             *)

LEMMA InvInit == Init => Inv
<1> SUFFICES ASSUME Init PROVE Inv
  OBVIOUS
<1>1. TypeOK /\ Orderly /\ StopUnlessDisturbed /\ Tightening /\ NeverLoosened
  BY TypeInit, OrderlyInit, StopInit, LoosenedInit
<1>2. /\ \A p \in Procs : looked[p] = Nothing /\ todo[p] = <<>> /\ banked[p] = {}
      /\ \A g \in Tags : cuts[g] = 0
      /\ managed = {} /\ taken = {} /\ Managing \subseteq Procs
  BY ConstantsAssumption DEF Init, Procs
<1>3. OneShotLists
  BY <1>2 DEF OneShotLists, PartThenTag
<1>4. SoldParts
  BY <1>2 DEF SoldParts
<1>5. TagsMean
  BY <1>2 DEF TagsMean, WillTag
<1>6. EachOnce
  BY <1>2 DEF EachOnce
<1> QED BY <1>1, <1>3, <1>4, <1>5, <1>6 DEF Inv, SoldOnce, TagStands, TargetsApart

LEMMA InvStep == Inv /\ [Next]_vars => Inv'
BY TypeStep, OrderlyStep, StopStep, TighteningStep, LoosenedStep, ListsStep, SoldStep, TagsStep,
   TargetsStep DEF Inv

\* The inductive invariant holds in every state.
THEOREM MonitorInvariant == Spec => []Inv
BY InvInit, InvStep, PTL DEF Spec

\* MonitorTick.StopUnlessDisturbed: the position is without a stop only inside
\* a call of the skill that is replacing it.
THEOREM MonitorKeepsStop == Spec => []StopUnlessDisturbed
<1>1. Inv => StopUnlessDisturbed
  BY DEF Inv
<1> QED BY <1>1, MonitorInvariant, PTL

\* MonitorTick.NeverLoosened: one tick or the routine at a time never leaves
\* the stop lower than it has been.
THEOREM MonitorNeverLoosens == Spec => []NeverLoosened
<1>1. Inv => NeverLoosened
  BY DEF Inv
<1> QED BY <1>1, MonitorInvariant, PTL

\* MonitorTick.OneShotOnce: a one-shot profit is taken once, and a recorded
\* tag means that it was.
THEOREM MonitorOneShotOnce == Spec => []OneShotOnce
<1>1. Inv => OneShotOnce
  BY DEF Inv, OneShotOnce, SoldOnce, SoldParts, TagStands, TagsMean
<1> QED BY <1>1, MonitorInvariant, PTL

\* MonitorTick.BankedOnce: nothing is sold any more at a target recorded as
\* banked, by a tick or by an order posted for it.
THEOREM MonitorBankedOnce == Spec => BankedOnce
<1> DEFINE Banked == Undisturbed({"fetch", "overlap"}) => \A i \in taken : units'[i] = units[i]
<1>1. Inv /\ [Next]_vars => [Banked]_vars
  <2> SUFFICES ASSUME Inv, Next, Undisturbed({"fetch", "overlap"}), NEW i \in taken
               PROVE  units'[i] = units[i]
    OBVIOUS
  <2>1. TypeOK /\ EachOnce /\ i \in Indices /\ units \in [Indices -> Nat]
    BY DEF Inv, TargetsApart, TypeOK
  <2>2. ASSUME NEW p \in Procs, Bank(p) PROVE units'[i] = units[i]
    <3>1. /\ todo[p] # <<>> /\ Head(todo[p]).do = "bank"
          /\ \/ units' = units
             \/ \E n : units' = [units EXCEPT ![Head(todo[p]).level] = @ + n]
      BY <2>2 DEF Bank, At
    <3>2. 1 \in DOMAIN todo[p] /\ Head(todo[p]) = todo[p][1]
      <4>1. todo[p] \in Seq(Commands(p))
        BY <2>1 DEF TypeOK
      <4> QED BY <3>1, <4>1, TailOf
    <3>3. i # Head(todo[p]).level
      BY <2>1, <3>1, <3>2 DEF EachOnce, AboutTarget
    <3> QED BY <2>1, <3>1, <3>3
  <2>3. ASSUME NEW p \in Levels, PriceMoves(p) PROVE units'[i] = units[i]
    <3>1. i \notin Fired(p)
      BY <2>1 DEF EachOnce, Fired
    <3>2. SoldAt(i, p) = 0
      BY <2>1, <3>1, SoldGrows
    <3> QED BY <2>1, <2>3, <3>2 DEF PriceMoves
  <2>4. ASSUME NEW p \in Procs,
               \/ CallThrows(p) \/ FindStops(p) \/ CancelStops(p) \/ CreateStop(p) \/ SetTrailing(p)
               \/ ReadSize(p) \/ SellPart(p) \/ Repost(p) \/ Save(p) \/ SaveTag(p)
        PROVE  units' = units
    BY <2>4 DEF CallThrows, FindStops, CancelStops, CreateStop, SetTrailing, ReadSize, SellPart,
                Repost, Save, SaveTag, history
  <2>5. ASSUME NEW t \in Ticks, Look(t) \/ Decide(t) \/ Kill(t) PROVE units' = units
    BY <2>5 DEF Look, Decide, Kill
  <2>6. ASSUME (\E l \in RoutineStops : RoutineMoves(l)) \/ GrowsOld PROVE units' = units
    BY <2>6 DEF RoutineMoves, GrowsOld, history
  <2>7. Procs = Ticks \cup {Routine}
    BY DEF Procs
  <2> QED BY <2>2, <2>3, <2>4, <2>5, <2>6, <2>7 DEF Next, TickStep, Call
<1> HIDE DEF Banked
<1>2. Spec => [][Banked]_vars
  BY <1>1, MonitorInvariant, PTL DEF Spec
<1> QED BY <1>2 DEF BankedOnce, Banked
=============================================================================
