--------------------------- MODULE ReconcileProofs ---------------------------
(***************************************************************************)
(* Reconcile, for any trades, pairs, levels and faults: every variable has *)
(* its type, an id names one line, the main loop of a pass finds every     *)
(* line that it sets or closes, and a line counts exits of its pair only.  *)
(* For the trades that are logged, alone on their pair and no ladder       *)
(* (Own), whatever else the account holds: the journal mirrors the         *)
(* exchange, forgets no exit, and a pass repeated changes nothing.         *)
(***************************************************************************)
EXTENDS Reconcile, Induction

-----------------------------------------------------------------------------
(* Parts of a sequence                                                     *)

\* m says of each element of q where s has it: at the indices of S up to n,
\* in their order.
Places(m, q, s, S, n) ==
  /\ m \in [1..Len(q) -> {i \in 1..n : i \in S}]
  /\ \A k \in 1..Len(q) : q[k] = s[m[k]]
  /\ \A k, l \in 1..Len(q) : k < l => m[k] < m[l]
  /\ \A i \in 1..n : i \in S => \E k \in 1..Len(q) : m[k] = i

LEMMA PlacesMore ==
  ASSUME NEW V, NEW s \in Seq(V), NEW S, NEW i \in 1..Len(s), NEW q \in Seq(V), NEW m,
         Places(m, q, s, S, i - 1)
  PROVE  \E p : Places(p, IF i \in S THEN Append(q, s[i]) ELSE q, s, S, i)
<1>1. /\ m \in [1..Len(q) -> {j \in 1..(i - 1) : j \in S}]
      /\ \A k \in 1..Len(q) : q[k] = s[m[k]]
      /\ \A k, l \in 1..Len(q) : k < l => m[k] < m[l]
      /\ \A j \in 1..(i - 1) : j \in S => \E k \in 1..Len(q) : m[k] = j
  BY DEF Places
<1>2. CASE i \notin S
  <2>1. m \in [1..Len(q) -> {j \in 1..i : j \in S}]
    BY <1>1
  <2>2. \A j \in 1..i : j \in S => j \in 1..(i - 1)
    BY <1>2
  <2>3. Places(m, q, s, S, i)
    BY <1>1, <2>1, <2>2 DEF Places
  <2> QED BY <1>2, <2>3
<1>3. CASE i \in S
  <2> DEFINE n == Len(q)
             w == Append(q, s[i])
             p == [k \in 1..(n + 1) |-> IF k = n + 1 THEN i ELSE m[k]]
  <2>1. n \in Nat /\ Len(w) = n + 1 /\ w[n + 1] = s[i] /\ \A k \in 1..n : w[k] = q[k]
    OBVIOUS
  <2>2. \A k \in 1..(n + 1) : k = n + 1 \/ k \in 1..n
    BY <2>1
  <2>3. p[n + 1] = i /\ \A k \in 1..n : p[k] = m[k] /\ m[k] \in 1..(i - 1) /\ m[k] \in S
    <3>1. \A k \in 1..n : m[k] \in 1..(i - 1) /\ m[k] \in S
      BY <1>1
    <3>2. n + 1 \in 1..(n + 1) /\ \A k \in 1..n : k \in 1..(n + 1) /\ k # n + 1
      BY <2>1
    <3> HIDE DEF n
    <3>3. p[n + 1] = i /\ \A k \in 1..n : p[k] = m[k]
      BY <3>2
    <3> QED BY <3>1, <3>3
  <2>4. p \in [1..(n + 1) -> {j \in 1..i : j \in S}]
    <3>1. ASSUME NEW k \in 1..(n + 1) PROVE p[k] \in {j \in 1..i : j \in S}
      <4> HIDE DEF p, n
      <4> QED BY <1>3, <2>2, <2>3
    <3> QED BY <3>1
  <2> HIDE DEF n, w, p
  <2>5. \A k \in 1..(n + 1) : w[k] = s[p[k]]
    BY <1>1, <2>1, <2>2, <2>3 DEF n
  <2>6. \A k, l \in 1..(n + 1) : k < l => p[k] < p[l]
    <3> SUFFICES ASSUME NEW k \in 1..(n + 1), NEW l \in 1..(n + 1), k < l PROVE p[k] < p[l]
      OBVIOUS
    <3>1. k \in 1..n
      BY <2>1
    <3>2. CASE l = n + 1
      BY <2>3, <3>1, <3>2
    <3>3. CASE l \in 1..n
      BY <1>1, <2>3, <3>1, <3>3 DEF n
    <3> QED BY <2>2, <3>2, <3>3
  <2>7. ASSUME NEW j \in 1..i, j \in S PROVE \E k \in 1..(n + 1) : p[k] = j
    <3>1. CASE j = i
      <4>1. n + 1 \in 1..(n + 1)
        BY <2>1
      <4> QED BY <2>3, <3>1, <4>1
    <3>2. CASE j # i
      <4>1. j \in 1..(i - 1)
        BY <3>2
      <4>2. PICK k \in 1..n : m[k] = j
        BY <1>1, <2>7, <4>1 DEF n
      <4>3. k \in 1..(n + 1) /\ p[k] = j
        BY <2>1, <2>3, <4>2
      <4> QED BY <4>3
    <3> QED BY <3>1, <3>2
  <2>8. Places(p, w, s, S, i)
    BY <2>1, <2>4, <2>5, <2>6, <2>7 DEF Places
  <2> QED BY <1>3, <2>8 DEF w
<1> QED BY <1>2, <1>3

LEMMA AmongHas ==
  ASSUME NEW V, NEW s \in Seq(V), NEW S
  PROVE  Among(s, S) \in Seq(V) /\ \E m : Places(m, Among(s, S), s, S, Len(s))
<1> DEFINE n == Len(s)
           IsTaken(f) == f = [i \in 0..n |-> IF i = 0 THEN <<>>
                                             ELSE IF i \in S THEN Append(f[i - 1], s[i]) ELSE f[i - 1]]
           taken == CHOOSE f : IsTaken(f)
           step == [i \in 1..n |-> [q \in Seq(V) |-> IF i \in S THEN Append(q, s[i]) ELSE q]]
<1>1. Among(s, S) = taken[n]
  BY DEF Among
<1>2. n \in Nat /\ step \in [1..n -> [Seq(V) -> Seq(V)]] /\ <<>> \in Seq(V)
  OBVIOUS
<1>3. PICK f \in [0..n -> Seq(V)] : Recurs(f, n, <<>>, step)
  <2> HIDE DEF step
  <2> QED BY <1>2, RecursionExists
<1>4. \A i \in 0..n : f[i] = IF i = 0 THEN <<>> ELSE IF i \in S THEN Append(f[i - 1], s[i]) ELSE f[i - 1]
  <2> SUFFICES ASSUME NEW i \in 0..n, i # 0
               PROVE  f[i] = IF i \in S THEN Append(f[i - 1], s[i]) ELSE f[i - 1]
    BY <1>3 DEF Recurs
  <2>1. i \in 1..n /\ i - 1 \in 0..n
    BY <1>2
  <2>2. f[i] = step[i][f[i - 1]] /\ f[i - 1] \in Seq(V)
    <3> HIDE DEF step
    <3> QED BY <1>3, <2>1 DEF Recurs
  <2> QED BY <2>1, <2>2
<1>5. IsTaken(f)
  <2>1. f = [i \in 0..n |-> f[i]]
    OBVIOUS
  <2> HIDE DEF step
  <2> QED BY <1>4, <2>1
<1>6. IsTaken(taken)
  <2> HIDE DEF IsTaken
  <2> QED BY <1>5
<1>7. \A i \in 0..n : taken[i] = IF i = 0 THEN <<>>
                                 ELSE IF i \in S THEN Append(taken[i - 1], s[i]) ELSE taken[i - 1]
  <2> HIDE DEF taken
  <2> QED BY <1>6
<1> HIDE DEF taken, IsTaken, step
<1> DEFINE Good == {i \in 0..n : taken[i] \in Seq(V) /\ \E m : Places(m, taken[i], s, S, i)}
<1>8. 0 \in Good
  <2>1. taken[0] = <<>>
    BY <1>2, <1>7
  <2> DEFINE m == [k \in 1..0 |-> 0]
  <2>2. \A k \in 1..0 : FALSE
    OBVIOUS
  <2>3. Len(<<>>) = 0 /\ m \in [1..0 -> {i \in 1..0 : i \in S}]
    BY <2>2
  <2>4. Places(m, <<>>, s, S, 0)
    <3> HIDE DEF m
    <3> QED BY <2>2, <2>3 DEF Places
  <2> HIDE DEF m
  <2>5. \E p : Places(p, taken[0], s, S, 0)
    BY <2>1, <2>4
  <2>6. taken[0] \in Seq(V) /\ 0 \in 0..n
    BY <1>2, <2>1
  <2> QED BY <2>5, <2>6
<1>9. ASSUME NEW i \in 1..n, i - 1 \in Good PROVE i \in Good
  <2> DEFINE q == taken[i - 1]
  <2>1. q \in Seq(V) /\ \E m : Places(m, q, s, S, i - 1)
    BY <1>9
  <2>2. i \in 0..n /\ i # 0 /\ s[i] \in V
    BY <1>2
  <2>3. taken[i] = IF i \in S THEN Append(q, s[i]) ELSE q
    BY <1>7, <2>2
  <2> HIDE DEF q
  <2>4. taken[i] \in Seq(V)
    BY <2>1, <2>2, <2>3
  <2>5. \E p : Places(p, taken[i], s, S, i)
    BY <2>1, <2>3, PlacesMore
  <2> QED BY <2>2, <2>4, <2>5
<1> HIDE DEF Good
<1>10. \A i \in 0..n : i \in Good
  BY <1>2, <1>8, <1>9, AlongInduction
<1>11. n \in Good
  BY <1>2, <1>10
<1> QED BY <1>1, <1>11 DEF Good

-----------------------------------------------------------------------------
(* The journal file                                                        *)

\* No id is given twice, and what an id names.
Unique(j) == \A a, b \in DOMAIN j : j[a].id = j[b].id => a = b
Names(j, id) == \E i \in DOMAIN j : j[i].id = id

\* A part of a file keeps both.
LEMMA AmongKeeps ==
  ASSUME NEW j \in Seq(Line), Unique(j), NEW S
  PROVE  /\ Among(j, S) \in Seq(Line) /\ Unique(Among(j, S))
         /\ \A i \in DOMAIN Among(j, S) : Names(j, Among(j, S)[i].id)
<1> DEFINE q == Among(j, S)
<1>1. q \in Seq(Line) /\ \E m : Places(m, q, j, S, Len(j))
  BY AmongHas
<1> HIDE DEF q
<1>2. PICK m : Places(m, q, j, S, Len(j))
  BY <1>1
<1>3. /\ m \in [1..Len(q) -> {i \in 1..Len(j) : i \in S}]
      /\ \A k \in 1..Len(q) : q[k] = j[m[k]]
      /\ \A k, l \in 1..Len(q) : k < l => m[k] < m[l]
  BY <1>2 DEF Places
<1>4. DOMAIN q = 1..Len(q) /\ DOMAIN j = 1..Len(j) /\ Len(q) \in Nat /\ Len(j) \in Nat
  BY <1>1
<1>5. \A k \in 1..Len(q) : m[k] \in 1..Len(j) /\ q[k] = j[m[k]]
  BY <1>3
<1>6. \A i \in DOMAIN q : Names(j, q[i].id)
  BY <1>4, <1>5 DEF Names
<1>7. Unique(q)
  <2> SUFFICES ASSUME NEW a \in 1..Len(q), NEW b \in 1..Len(q), q[a].id = q[b].id PROVE a = b
    BY <1>4 DEF Unique
  <2>1. m[a] = m[b] /\ m[a] \in 1..Len(j) /\ m[b] \in 1..Len(j)
    BY <1>4, <1>5 DEF Unique
  <2>2. ~ (a < b) /\ ~ (b < a)
    BY <1>3, <2>1
  <2> QED BY <1>4, <2>2
<1> QED BY <1>1, <1>6, <1>7 DEF q

\* A line is rewritten in its place.
LEMMA RewriteKeeps ==
  ASSUME NEW j \in Seq(Line), Unique(j), NEW new \in Line
  PROVE  /\ Rewrite(j, new) \in Seq(Line) /\ Unique(Rewrite(j, new))
         /\ \A id : Names(Rewrite(j, new), id) <=> Names(j, id)
<1> DEFINE q == Rewrite(j, new)
<1>1. q = [i \in DOMAIN j |-> IF j[i].id = new.id THEN new ELSE j[i]]
  BY DEF Rewrite
<1>2. DOMAIN j = 1..Len(j) /\ Len(j) \in Nat /\ \A i \in 1..Len(j) : j[i] \in Line
  OBVIOUS
<1> HIDE DEF q
<1>3. DOMAIN q = DOMAIN j /\ \A i \in DOMAIN j : q[i] \in Line /\ q[i].id = j[i].id
  BY <1>1, <1>2
<1>4. q \in Seq(Line)
  BY <1>1, <1>2
<1>5. Unique(q) /\ \A id : Names(q, id) <=> Names(j, id)
  BY <1>3 DEF Unique, Names
<1> QED BY <1>4, <1>5 DEF q

\* A line is appended when its id is new.
LEMMA AppendKeeps ==
  ASSUME NEW j \in Seq(Line), Unique(j), NEW new \in Line, ~ Names(j, new.id)
  PROVE  /\ Append(j, new) \in Seq(Line) /\ Unique(Append(j, new))
         /\ \A id : Names(j, id) => Names(Append(j, new), id)
<1> DEFINE q == Append(j, new)
<1>1. /\ q \in Seq(Line) /\ DOMAIN j = 1..Len(j) /\ Len(j) \in Nat /\ DOMAIN q = 1..(Len(j) + 1)
      /\ q[Len(j) + 1] = new /\ \A i \in 1..Len(j) : q[i] = j[i]
  OBVIOUS
<1> HIDE DEF q
<1>2. \A i \in DOMAIN q : i \in DOMAIN j \/ i = Len(j) + 1
  BY <1>1
<1>3. \A i \in DOMAIN j : i \in DOMAIN q /\ q[i] = j[i] /\ j[i].id # new.id
  BY <1>1 DEF Names
<1>4. Unique(q)
  BY <1>1, <1>2, <1>3 DEF Unique
<1>5. \A id : Names(j, id) => Names(q, id)
  BY <1>3 DEF Names
<1> QED BY <1>1, <1>4, <1>5 DEF q

\* The line of an id that has one.
LEMMA LineOfIs ==
  ASSUME journal \in Seq(Line), NEW id, HasLine(id)
  PROVE  LineOf(id) \in Line /\ LineOf(id).id = id
<1> DEFINE i == CHOOSE i \in DOMAIN journal : journal[i].id = id
<1>1. i \in DOMAIN journal /\ journal[i].id = id
  BY DEF HasLine
<1> HIDE DEF i
<1>2. journal[i] \in Line
  BY <1>1
<1> QED BY <1>1, <1>2 DEF LineOf, i

LEMMA HasIsNames == \A id : HasLine(id) <=> Names(journal, id)
BY DEF HasLine, Names

-----------------------------------------------------------------------------
(* Rows and groups                                                         *)

LEMMA ExitIs ==
  ASSUME NEW x \in Exit
  PROVE  /\ x.no \in Nat /\ x.trade \in Trades /\ x.entry \in Nat /\ x.day \in Nat
         /\ PairOf[x.trade] \in Pairs
BY ConstantsAssumption DEF Exit, Pairs

\* The last row of some rows is one of them.
LEMMA LastIs ==
  ASSUME NEW rs \in SUBSET Exit, IsFiniteSet(rs), rs # {}
  PROVE  LastOf(rs) \in rs
<1> DEFINE nos == {x.no : x \in rs}
           no == [x \in rs |-> x.no]
<1>1. no \in Surjection(rs, nos)
  BY DEF Surjection
<1>2. nos \in SUBSET Nat /\ nos # {}
  BY ExitIs
<1>3. \A x \in rs : x.no \in nos
  OBVIOUS
<1>4. \A n \in nos : \E x \in rs : n = x.no
  OBVIOUS
<1> HIDE DEF nos, no
<1>5. IsFiniteSet(nos)
  BY <1>1, FS_Surjection
<1>6. PICK n \in nos : \A k \in nos : n >= k
  BY <1>2, <1>5, GreatestOfFinite
<1>7. PICK x \in rs : n = x.no
  BY <1>4
<1>8. \A y \in rs : y.no <= x.no
  BY <1>2, <1>3, <1>6, <1>7
<1>9. \E z \in rs : \A y \in rs : y.no <= z.no
  BY <1>8
<1> QED BY <1>9 DEF LastOf

\* The mean of their entry prices is their sum by their number.
LEMMA MeanOf ==
  ASSUME NEW rs \in SUBSET Exit, IsFiniteSet(rs), rs # {}
  PROVE  \E f : \E h \in [SUBSET rs -> Nat] :
           /\ Sums(h, f, rs) /\ MeanEntry(rs) = h[rs] \div Cardinality(rs)
           /\ \A x \in rs : f[x] = x.entry
<1> DEFINE f == [x \in rs |-> x.entry]
           IsIter(h) == h = [s \in SUBSET rs |-> IF s = {} THEN 0
                                                ELSE LET x == CHOOSE x \in s : TRUE IN x.entry + h[s \ {x}]]
           iter == CHOOSE h : IsIter(h)
           sum == MapThenSumSet(LAMBDA x : x.entry, rs)
<1>1. sum = iter[rs]
  BY DEF MapThenSumSet, MapThenFoldSet
<1>2. Weighs(f, rs) /\ \A x \in rs : f[x] = x.entry
  BY ExitIs DEF Weighs
<1> HIDE DEF f
<1>3. PICK h \in [SUBSET rs -> Nat] : Sums(h, f, rs)
  BY <1>2, SumsExists
<1>4. \A s \in SUBSET rs : s # {} => f[Pick(s)] = Pick(s).entry
  BY <1>2 DEF Pick
<1>5. h = [s \in SUBSET rs |-> IF s = {} THEN 0 ELSE Pick(s).entry + h[s \ {Pick(s)}]]
  BY <1>3, <1>4 DEF Sums
<1>6. IsIter(h)
  BY <1>5 DEF Pick
<1>7. IsIter(iter)
  <2> HIDE DEF IsIter
  <2> QED BY <1>6
<1> HIDE DEF iter
<1>8. iter = [s \in SUBSET rs |-> IF s = {} THEN 0 ELSE Pick(s).entry + iter[s \ {Pick(s)}]]
  BY <1>7 DEF Pick
<1> HIDE DEF IsIter
<1>9. Sums(iter, f, rs)
  BY <1>4, <1>8 DEF Sums
<1>10. iter[rs] = h[rs]
  <2>1. rs \subseteq rs /\ (\A x \in rs : f[x] = f[x]) /\ rs \in SUBSET rs
    OBVIOUS
  <2> QED BY <1>3, <1>9, <2>1, SumsAgree
<1>11. MeanEntry(rs) = sum \div Cardinality(rs)
  BY DEF MeanEntry
<1> HIDE DEF sum
<1> QED BY <1>1, <1>2, <1>3, <1>10, <1>11

\* It is a price, between the lowest and the highest of them.
LEMMA MeanIs ==
  ASSUME NEW rs \in SUBSET Exit, IsFiniteSet(rs), rs # {}
  PROVE  MeanEntry(rs) \in Nat /\ Cardinality(rs) \in Nat
<1>1. PICK h \in [SUBSET rs -> Nat] : MeanEntry(rs) = h[rs] \div Cardinality(rs)
  BY MeanOf
<1>2. Cardinality(rs) \in Nat /\ Cardinality(rs) # 0 /\ h[rs] \in Nat
  BY FS_CardinalityType, FS_EmptySet
<1> QED BY <1>1, <1>2

LEMMA Shares ==
  ASSUME NEW sum \in Nat, NEW k \in Nat, k # 0, NEW lo \in Nat, NEW hi \in Nat,
         k * lo <= sum, sum <= k * hi
  PROVE  lo <= sum \div k /\ sum \div k <= hi
OBVIOUS

LEMMA MeanBetween ==
  ASSUME NEW rs \in SUBSET Exit, IsFiniteSet(rs), rs # {}, NEW lo \in Nat, NEW hi \in Nat,
         \A x \in rs : lo <= x.entry /\ x.entry <= hi
  PROVE  lo <= MeanEntry(rs) /\ MeanEntry(rs) <= hi
<1>0. PICK f : \E h \in [SUBSET rs -> Nat] : /\ Sums(h, f, rs) /\ MeanEntry(rs) = h[rs] \div Cardinality(rs)
                                             /\ \A x \in rs : f[x] = x.entry
  BY MeanOf
<1>1. PICK h \in [SUBSET rs -> Nat] : /\ Sums(h, f, rs) /\ MeanEntry(rs) = h[rs] \div Cardinality(rs)
                                      /\ \A x \in rs : f[x] = x.entry
  BY <1>0
<1> DEFINE P == {s \in SUBSET rs : Cardinality(s) * lo <= h[s] /\ h[s] <= Cardinality(s) * hi}
<1>2. {} \in P
  <2>1. h[{}] = 0
    BY <1>1 DEF Sums
  <2> QED BY <2>1, FS_EmptySet
<1>3. ASSUME NEW s \in SUBSET rs, s # {}, \A x \in s : s \ {x} \in P PROVE s \in P
  <2>1. PICK x \in s : h[s] = f[x] + h[s \ {x}]
    BY <1>1, <1>3 DEF Sums, Pick
  <2>2. IsFiniteSet(s)
    BY FS_Subset
  <2>3. Cardinality(s) \in Nat /\ Cardinality(s \ {x}) = Cardinality(s) - 1 /\ Cardinality(s \ {x}) \in Nat
    BY <2>2, FS_RemoveElement, FS_CardinalityType, FS_Subset
  <2>4. s \ {x} \in P /\ lo <= f[x] /\ f[x] <= hi /\ f[x] \in Nat /\ h[s \ {x}] \in Nat
    BY <1>1, <1>3, ExitIs
  <2> DEFINE c == Cardinality(s) r == h[s \ {x}] e == f[x]
  <2>5. (c - 1) * lo <= r /\ r <= (c - 1) * hi
    BY <2>3, <2>4
  <2>6. c \in Nat /\ r \in Nat /\ e \in Nat /\ lo <= e /\ e <= hi
    BY <2>3, <2>4
  <2> HIDE DEF c, r, e
  <2>7. (c - 1) * lo = c * lo - lo /\ (c - 1) * hi = c * hi - hi
    BY <2>6
  <2>8. c * lo \in Nat /\ c * hi \in Nat
    BY <2>6
  <2>9. c * lo <= e + r /\ e + r <= c * hi
    BY <2>5, <2>6, <2>7, <2>8
  <2> QED BY <2>1, <2>9 DEF c, r, e
<1>4. P = SUBSET rs
  <2>1. Inherits(P, rs)
    <3>1. P \subseteq SUBSET rs
      OBVIOUS
    <3> HIDE DEF P
    <3> QED BY <1>2, <1>3, <3>1 DEF Inherits
  <2> HIDE DEF P
  <2> QED BY <2>1, SubsetInduction
<1>5. Cardinality(rs) * lo <= h[rs] /\ h[rs] <= Cardinality(rs) * hi
  BY <1>4
<1>6. Cardinality(rs) \in Nat /\ Cardinality(rs) # 0 /\ h[rs] \in Nat
  BY FS_CardinalityType, FS_EmptySet
<1> QED BY <1>1, <1>5, <1>6, Shares

LEMMA GroupsAre ==
  ASSUME NEW rs \in SUBSET Exit, IsFiniteSet(rs), NEW g \in Groups(rs)
  PROVE  /\ g.pair \in Pairs /\ g.entry \in Nat
         /\ g.rows \in SUBSET rs /\ g.rows # {} /\ IsFiniteSet(g.rows)
<1>1. PICK x \in rs : g = [pair |-> PairOf[x.trade], entry |-> x.entry,
                           rows |-> {y \in rs : PairOf[y.trade] = PairOf[x.trade] /\ y.entry = x.entry}]
  BY DEF Groups
<1>2. g.pair \in Pairs /\ g.entry \in Nat
  BY <1>1, ExitIs
<1>3. x \in g.rows /\ g.rows \in SUBSET rs
  BY <1>1
<1>4. IsFiniteSet(g.rows)
  BY <1>3, FS_Subset
<1> QED BY <1>2, <1>3, <1>4

LEMMA RowsAre ==
  ASSUME NEW rs \in SUBSET Exit, IsFiniteSet(rs), NEW gs \in SUBSET Groups(rs), gs # {}
  PROVE  /\ RowsOf(gs) \in SUBSET rs /\ RowsOf(gs) # {} /\ IsFiniteSet(RowsOf(gs))
<1>1. \A g \in gs : g.rows \in SUBSET rs /\ g.rows # {}
  BY GroupsAre
<1>2. RowsOf(gs) \in SUBSET rs /\ RowsOf(gs) # {}
  BY <1>1 DEF RowsOf
<1>3. IsFiniteSet(RowsOf(gs))
  BY <1>2, FS_Subset
<1> QED BY <1>2, <1>3

-----------------------------------------------------------------------------
(* The lines that are written                                              *)

LEMMA IdIs ==
  ASSUME NEW t \in Line
  PROVE  t.id \in Id /\ ChildId(t.id) \in Id
BY DEF Line, Id, ChildId

LEMMA ChildIs ==
  ASSUME NEW t \in Line, NEW rs \in SUBSET Exit, IsFiniteSet(rs), NEW gs \in SUBSET Groups(rs), gs # {}
  PROVE  Child(t, gs) \in Line /\ Child(t, gs).id = ChildId(t.id)
<1> DEFINE net == RowsOf(gs)
<1>1. net \in SUBSET Exit /\ net # {} /\ IsFiniteSet(net)
  BY RowsAre
<1>2. ChildId(t.id) \in Id
  BY IdIs
<1> HIDE DEF net
<1>3. MeanEntry(net) \in Nat /\ Cardinality(net) \in Nat /\ LastOf(net).day \in Nat
  BY <1>1, MeanIs, LastIs, ExitIs
<1>4. Child(t, gs) = [id |-> ChildId(t.id), status |-> "closed", entry |-> MeanEntry(net),
                      day |-> LastOf(net).day, net |-> net, size |-> Cardinality(net)]
  BY DEF Child, net
<1> QED BY <1>1, <1>2, <1>3, <1>4 DEF Line

LEMMA OrphanLineIs ==
  ASSUME NEW rs \in SUBSET Exit, IsFiniteSet(rs), NEW g \in Groups(rs)
  PROVE  OrphanLine(g) \in Line
<1>1. g.pair \in Pairs /\ g.entry \in Nat /\ g.rows \in SUBSET Exit /\ g.rows # {} /\ IsFiniteSet(g.rows)
  BY GroupsAre
<1>2. LastOf(g.rows).no \in Nat /\ LastOf(g.rows).day \in Nat /\ Cardinality(g.rows) \in Nat
  BY <1>1, LastIs, ExitIs, FS_CardinalityType
<1>3. Rounded(g.entry) \in Nat
  BY <1>1 DEF Rounded
<1>4. OrphanLine(g).id \in Id
  BY <1>1, <1>2, <1>3 DEF OrphanLine, Id
<1> QED BY <1>1, <1>2, <1>4 DEF OrphanLine, Line

-----------------------------------------------------------------------------
(* The invariant                                                           *)

\* The trades on the exchange: an open position has a unit left to exit.
MarketHolds ==
  /\ life \in [Trades -> {"none", "resting", "open", "between", "flat", "withdrawn", "shared", "merged"}]
  /\ avg \in [Trades -> Nat] /\ left \in [Trades -> Nat] /\ legs \in [Trades -> BOOLEAN]
  /\ \A n \in Trades : life[n] \in {"open", "shared"} => left[n] # 0
  /\ exits \subseteq Exit /\ IsFiniteSet(exits) /\ visible \subseteq exits
  /\ day \in Nat /\ calm \in 0..2 /\ raced \in BOOLEAN

FileHolds == journal \in Seq(Line) /\ Unique(journal)

\* A pass works from rows that the exchange has listed; nothing is claimed
\* before the rows and the positions are there.
PassHolds ==
  /\ pc \in {"idle", "positions", "orders", "ladder", "scaleout", "main"}
  /\ rows \subseteq exits
  /\ positions \subseteq [pair : Pairs, entry : Nat, size : Nat]
  /\ orders \subseteq [pair : Pairs, entry : Nat, reduce : BOOLEAN]
  /\ lines \in Seq(Line)
  /\ usedG \subseteq Groups(rows) /\ usedP \subseteq positions /\ handled \subseteq Id
  /\ pc \in {"idle", "positions"} => usedG = {} /\ usedP = {}

\* Every line that the main loop has still to look at is in the file.
MainLoopFinds == pc = "main" => \A i \in DOMAIN lines : HasLine(lines[i].id)

RecInv == MarketHolds /\ FileHolds /\ PassHolds /\ MainLoopFinds

\* The file after a step: no name is lost.
FileKept ==
  /\ journal' \in Seq(Line) /\ Unique(journal')
  /\ \A id : Names(journal, id) => Names(journal', id)

\* A step of the market or of another process leaves the pass as it is.
LEMMA PassUndisturbed ==
  ASSUME RecInv, MarketHolds', exits \subseteq exits', FileKept, UNCHANGED pass
  PROVE  RecInv'
<1>1. FileHolds'
  BY DEF FileKept, FileHolds
<1>2. PassHolds'
  BY DEF RecInv, PassHolds, pass
<1>3. MainLoopFinds'
  BY HasIsNames DEF RecInv, MainLoopFinds, FileKept, pass, HasLine, Names
<1> QED BY <1>1, <1>2, <1>3 DEF RecInv

\* What is left alone of the exchange is as good as before.
LEMMA MarketUntouched ==
  ASSUME RecInv, UNCHANGED exchange, calm' \in 0..2, raced' \in BOOLEAN
  PROVE  MarketHolds' /\ exits \subseteq exits' /\ IsFiniteSet(exits)
BY DEF RecInv, MarketHolds, exchange

LEMMA FileUntouched ==
  ASSUME RecInv, UNCHANGED journal
  PROVE  FileKept
BY DEF RecInv, FileHolds, FileKept

LEMMA MovesTyped ==
  ASSUME RecInv, Moves
  PROVE  calm' \in 0..2 /\ raced' \in BOOLEAN
BY DEF RecInv, MarketHolds, Moves

-----------------------------------------------------------------------------
(* The market and the other processes                                      *)

LEMMA OutliveIs == Outlive \subseteq BOOLEAN
<1>1. CASE "legs" \in Faults
  <2>1. ("legs" \in Faults) = TRUE
    BY <1>1
  <2> QED BY <2>1 DEF Outlive
<1>2. CASE "legs" \notin Faults
  <2>1. ("legs" \in Faults) = FALSE
    BY <1>2
  <2> QED BY <2>1 DEF Outlive
<1> QED BY <1>1, <1>2

LEMMA PlaceKeeps ==
  ASSUME RecInv, NEW n \in Trades, Place(n) PROVE RecInv'
<1>1. MarketHolds' /\ exits \subseteq exits'
  BY MovesTyped DEF RecInv, MarketHolds, Place
<1> QED BY <1>1, FileUntouched, PassUndisturbed DEF Place

LEMMA LogKeeps ==
  ASSUME RecInv, NEW n \in Trades, Log(n) PROVE RecInv'
<1> DEFINE new == [id |-> TradeId(n), status |-> "pending", entry |-> Level[n], day |-> day,
                   net |-> {}, size |-> Units]
<1>1. MarketHolds' /\ exits \subseteq exits'
  BY MovesTyped, MarketUntouched DEF Log
<1>2. TradeId(n) \in Id
  BY ConstantsAssumption DEF TradeId, Id, Pairs
<1>3. new \in Line
  BY <1>2, ConstantsAssumption DEF Line, RecInv, MarketHolds
<1>4. new.id = TradeId(n) /\ journal' = Append(journal, new) /\ ~ HasLine(TradeId(n)) /\ UNCHANGED pass
  BY DEF Log
<1> HIDE DEF new
<1>5. FileKept
  BY <1>3, <1>4, HasIsNames, AppendKeeps DEF RecInv, FileHolds, FileKept
<1> QED BY <1>1, <1>4, <1>5, PassUndisturbed

LEMMA FillKeeps ==
  ASSUME RecInv, NEW n \in Trades, Fill(n) PROVE RecInv'
<1>1. MarketHolds' /\ exits \subseteq exits'
  BY MovesTyped, ConstantsAssumption DEF RecInv, MarketHolds, Fill
<1> QED BY <1>1, FileUntouched, PassUndisturbed DEF Fill

LEMMA ScaleInKeeps ==
  ASSUME RecInv, NEW n \in Trades, ScaleIn(n) PROVE RecInv'
<1>1. MarketHolds' /\ exits \subseteq exits'
  BY MovesTyped, ConstantsAssumption DEF RecInv, MarketHolds, ScaleIn
<1> QED BY <1>1, FileUntouched, PassUndisturbed DEF ScaleIn

LEMMA FillSecondKeeps ==
  ASSUME RecInv, NEW n \in Trades, FillSecond(n) PROVE RecInv'
<1>1. MarketHolds' /\ exits \subseteq exits'
  BY MovesTyped, ConstantsAssumption DEF RecInv, MarketHolds, FillSecond
<1> QED BY <1>1, FileUntouched, PassUndisturbed DEF FillSecond

\* The position that a second entry fills into has more left, at a mean price.
LEMMA MergeKeeps ==
  ASSUME RecInv, NEW n \in Trades, NEW m \in Trades, Merge(n, m) PROVE RecInv'
<1> DEFINE a == avg[m] * left[m] + Level[n] * Units
           b == left[m] + Units
<1>1. avg[m] \in Nat /\ left[m] \in Nat /\ Level[n] \in Nat /\ Units \in Nat \ {0}
  BY ConstantsAssumption DEF RecInv, MarketHolds
<1>2. avg[m] * left[m] \in Nat /\ Level[n] * Units \in Nat
  BY <1>1
<1>3. a \in Nat /\ b \in Nat \ {0}
  BY <1>1, <1>2
<1> HIDE DEF a, b
<1>4. a \div b \in Nat
  BY <1>3
<1>5. /\ life' = [life EXCEPT ![n] = "merged", ![m] = "shared"]
      /\ avg' = [avg EXCEPT ![m] = a \div b] /\ left' = [left EXCEPT ![m] = b]
      /\ legs' = [legs EXCEPT ![n] = FALSE, ![m] = legs[m] \/ legs[n]]
      /\ UNCHANGED <<exits, visible, day, journal, pass>> /\ Moves /\ n # m
  BY DEF Merge, a, b
<1>6. \A k \in Trades : life'[k] \in {"open", "shared"} => left'[k] # 0
  BY <1>3, <1>5 DEF RecInv, MarketHolds
<1>7. legs' \in [Trades -> BOOLEAN]
  BY <1>5, Zenon DEF RecInv, MarketHolds
<1>8. MarketHolds' /\ exits \subseteq exits'
  BY <1>3, <1>4, <1>5, <1>6, <1>7, MovesTyped DEF RecInv, MarketHolds
<1> QED BY <1>5, <1>8, FileUntouched, PassUndisturbed

LEMMA EndsAre == ASSUME NEW n PROVE Ends(n) \subseteq {"flat", "between", "merged"}
BY DEF Ends

\* The unit that exits is a new row, and the position keeps one or is closed.
LEMMA ExitUnitKeeps ==
  ASSUME RecInv, NEW n \in Trades, ExitUnit(n) PROVE RecInv'
<1> DEFINE x == [no |-> Cardinality(exits) + 1, trade |-> n, entry |-> avg[n], day |-> day]
<1>1. Cardinality(exits) \in Nat
  BY FS_CardinalityType DEF RecInv, MarketHolds
<1>2. x \in Exit
  BY <1>1 DEF RecInv, MarketHolds, Exit
<1>3. exits' = exits \cup {x} /\ visible' = visible \cup {x}
  BY DEF ExitUnit
<1> HIDE DEF x
<1>4. IsFiniteSet(exits')
  BY <1>3, FS_AddElement DEF RecInv, MarketHolds
<1>5. exits' \subseteq Exit /\ visible' \subseteq exits' /\ exits \subseteq exits'
  BY <1>2, <1>3 DEF RecInv, MarketHolds
<1>6. left' = [left EXCEPT ![n] = @ - 1] /\ left[n] \in Nat /\ left[n] # 0
  BY DEF ExitUnit, RecInv, MarketHolds, Holds
<1>7. left' \in [Trades -> Nat]
  BY <1>6 DEF RecInv, MarketHolds
<1>8. /\ life' \in [Trades -> {"none", "resting", "open", "between", "flat", "withdrawn", "shared", "merged"}]
      /\ legs' \in [Trades -> BOOLEAN]
      /\ \A m \in Trades : life'[m] \in {"open", "shared"} => left'[m] # 0
  <2>1. CASE left[n] = 1
    <3>1. PICK end \in {"flat", "between", "merged"} : life' = [life EXCEPT ![n] = end]
      BY <2>1, EndsAre DEF ExitUnit
    <3>2. PICK stay \in BOOLEAN : legs' = [legs EXCEPT ![n] = stay]
      BY <2>1, OutliveIs, Zenon DEF ExitUnit
    <3>3. \A m \in Trades : life'[m] \in {"open", "shared"} => m # n /\ life[m] \in {"open", "shared"}
      BY <3>1 DEF RecInv, MarketHolds
    <3>4. \A m \in Trades : m # n => left'[m] = left[m]
      BY <1>6 DEF RecInv, MarketHolds
    <3> QED BY <3>1, <3>2, <3>3, <3>4 DEF RecInv, MarketHolds
  <2>2. CASE left[n] # 1
    <3>1. UNCHANGED <<life, legs>>
      BY <2>2 DEF ExitUnit
    <3>2. left[n] - 1 # 0
      BY <1>6, <2>2
    <3> QED BY <1>6, <3>1, <3>2 DEF RecInv, MarketHolds
  <2> QED BY <2>1, <2>2
<1>9. UNCHANGED <<avg, day, journal, pass>> /\ Moves
  BY DEF ExitUnit
<1>10. MarketHolds'
  BY <1>4, <1>5, <1>7, <1>8, <1>9, MovesTyped DEF RecInv, MarketHolds
<1> QED BY <1>5, <1>9, <1>10, FileUntouched, PassUndisturbed

LEMMA WithdrawKeeps ==
  ASSUME RecInv, NEW n \in Trades, Withdraw(n) PROVE RecInv'
<1>1. PICK stay \in BOOLEAN : legs' = [legs EXCEPT ![n] = stay]
  BY OutliveIs, Zenon DEF Withdraw
<1>2. MarketHolds' /\ exits \subseteq exits'
  BY <1>1, MovesTyped DEF RecInv, MarketHolds, Withdraw
<1> QED BY <1>2, FileUntouched, PassUndisturbed DEF Withdraw

LEMMA ForgetKeeps ==
  ASSUME RecInv, NEW x \in visible, Forget(x) PROVE RecInv'
<1>1. visible' \subseteq visible /\ raced' \in BOOLEAN
  BY DEF RecInv, MarketHolds, Forget
<1>2. MarketHolds' /\ exits \subseteq exits'
  BY <1>1 DEF RecInv, MarketHolds, Forget
<1> QED BY <1>2, FileUntouched, PassUndisturbed DEF Forget

LEMMA NextDayKeeps ==
  ASSUME RecInv, NextDay PROVE RecInv'
<1>1. MarketHolds' /\ exits \subseteq exits'
  BY DEF RecInv, MarketHolds, NextDay
<1> QED BY <1>1, FileUntouched, PassUndisturbed DEF NextDay

\* The line that sync closes is one of the file, with the rows of it.
LEMMA SyncKeeps ==
  ASSUME RecInv, NEW i \in DOMAIN journal, SyncLine(journal[i]) PROVE RecInv'
<1> DEFINE t == journal[i]
           rs == SyncRows(t)
           new == [t EXCEPT !.status = "closed", !.net = rs, !.entry = MeanEntry(rs)]
<1>1. t \in Line
  BY DEF RecInv, FileHolds
<1>2. rs \in SUBSET Exit /\ rs \in SUBSET exits /\ rs # {}
  BY DEF SyncLine, SyncRows, RecInv, MarketHolds
<1>3. IsFiniteSet(rs)
  BY <1>2, FS_Subset DEF RecInv, MarketHolds
<1>4. journal' = Rewrite(journal, new) /\ Moves /\ UNCHANGED <<exchange, pass>>
  BY DEF SyncLine
<1> HIDE DEF t, rs
<1>5. MeanEntry(rs) \in Nat
  BY <1>2, <1>3, MeanIs
<1>6. new \in Line
  BY <1>1, <1>2, <1>5 DEF Line
<1> HIDE DEF new
<1>7. FileKept
  BY <1>4, <1>6, RewriteKeeps DEF RecInv, FileHolds, FileKept
<1> QED BY <1>4, <1>7, MovesTyped, MarketUntouched, PassUndisturbed

-----------------------------------------------------------------------------
(* The pass                                                                *)

\* What a step of the pass has to show.
LEMMA PassGoesOn ==
  ASSUME RecInv, UNCHANGED exchange, calm' \in 0..2, raced' \in BOOLEAN,
         FileHolds', PassHolds', MainLoopFinds'
  PROVE  RecInv'
BY MarketUntouched DEF RecInv

LEMMA RowsFinite == RecInv => rows \in SUBSET Exit /\ IsFiniteSet(rows)
BY FS_Subset DEF RecInv, MarketHolds, PassHolds

LEMMA PassTyped ==
  RecInv => calm \in 0..2 /\ raced \in BOOLEAN /\ FileHolds /\ PassHolds /\ exits \subseteq Exit
BY DEF RecInv, MarketHolds

\* The line at the head, and those after it.
LEMMA NextLineIs ==
  ASSUME RecInv, NEW at, NextLine(at)
  PROVE  /\ Head(lines) \in Line /\ lines' \in Seq(Line) /\ pc \in at
         /\ pc = "main" => HasLine(Head(lines).id) /\ \A i \in DOMAIN lines' : HasLine(lines'[i].id)
<1>1. lines \in Seq(Line) /\ lines # <<>> /\ lines' = Tail(lines) /\ pc \in at
  BY DEF RecInv, PassHolds, NextLine
<1>2. Head(lines) \in Line /\ lines' \in Seq(Line) /\ 1 \in DOMAIN lines /\ Head(lines) = lines[1]
  BY <1>1
<1>3. \A i \in DOMAIN lines' : i + 1 \in DOMAIN lines /\ lines'[i] = lines[i + 1]
  BY <1>1
<1>4. pc = "main" => \A i \in DOMAIN lines : HasLine(lines[i].id)
  BY DEF RecInv, MainLoopFinds
<1>5. ASSUME pc = "main", NEW i \in DOMAIN lines' PROVE HasLine(lines'[i].id)
  <2>1. i + 1 \in DOMAIN lines /\ lines'[i] = lines[i + 1]
    BY <1>3
  <2>2. HasLine(lines[i + 1].id)
    BY <1>4, <1>5, <2>1
  <2> QED BY <2>1, <2>2
<1> QED BY <1>1, <1>2, <1>4, <1>5

LEMMA ClaimsAre ==
  ASSUME RecInv, NEW t \in Line
  PROVE  /\ ClaimedGroups(t) \in SUBSET Groups(rows) /\ FreeGroups(t) \in SUBSET Groups(rows)
         /\ ClaimedPosition(t) \in SUBSET positions /\ FreePositions(t) \in SUBSET positions
BY DEF ClaimedGroups, ClaimedPosition, FreeGroups, FreePositions

\* The journal with a child written or brought up to date, when the parent
\* was rewritten before.
LEMMA UpsertKeeps ==
  ASSUME RecInv, NEW j \in Seq(Line), Unique(j), \A id : Names(j, id) <=> Names(journal, id),
         NEW child \in Line
  PROVE  Upsert(j, child) \in Seq(Line) /\ Unique(Upsert(j, child))
<1>1. CASE ~ HasLine(child.id)
  <2>1. ~ Names(j, child.id) /\ Upsert(j, child) = Append(j, child)
    BY <1>1, HasIsNames DEF Upsert
  <2> QED BY <2>1, AppendKeeps
<1>2. CASE HasLine(child.id) /\ LineOf(child.id).net = child.net
  BY <1>2 DEF Upsert
<1>3. CASE HasLine(child.id) /\ LineOf(child.id).net # child.net
  <2> DEFINE new == [child EXCEPT !.day = LineOf(child.id).day]
  <2>1. LineOf(child.id) \in Line
    BY <1>3, LineOfIs DEF RecInv, FileHolds
  <2>2. new \in Line
    BY <2>1 DEF Line
  <2>3. Upsert(j, child) = Rewrite(j, new)
    BY <1>3 DEF Upsert
  <2> HIDE DEF new
  <2> QED BY <2>2, <2>3, RewriteKeeps
<1> QED BY <1>1, <1>2, <1>3

LEMMA FetchRowsKeeps == RecInv /\ FetchRows => RecInv'
<1> SUFFICES ASSUME RecInv, FetchRows PROVE RecInv'
  OBVIOUS
<1>1. calm' \in 0..2 /\ raced' \in BOOLEAN /\ UNCHANGED exchange
  BY PassTyped DEF FetchRows
<1>2. FileHolds' /\ MainLoopFinds'
  BY PassTyped DEF FetchRows, FileHolds, MainLoopFinds
<1>3. PassHolds'
  BY <1>1 DEF RecInv, MarketHolds, PassHolds, FetchRows, exchange
<1> QED BY <1>1, <1>2, <1>3, PassGoesOn

LEMMA FetchPositionsKeeps == RecInv /\ FetchPositions => RecInv'
<1> SUFFICES ASSUME RecInv, FetchPositions PROVE RecInv'
  OBVIOUS
<1>1. calm' \in 0..2 /\ raced' \in BOOLEAN /\ UNCHANGED exchange
  BY PassTyped DEF FetchPositions
<1>2. FileHolds' /\ MainLoopFinds'
  BY PassTyped DEF FetchPositions, FileHolds, MainLoopFinds
<1>3. \A n \in Trades : [pair |-> PairOf[n], entry |-> avg[n], size |-> left[n]]
                          \in [pair : Pairs, entry : Nat, size : Nat]
  BY DEF RecInv, MarketHolds, Pairs
<1>4. positions' \subseteq [pair : Pairs, entry : Nat, size : Nat]
  BY <1>3 DEF FetchPositions
<1>5. PassHolds'
  BY <1>1, <1>4 DEF RecInv, PassHolds, FetchPositions, exchange
<1> QED BY <1>1, <1>2, <1>5, PassGoesOn

LEMMA OrdersAre ==
  ASSUME NEW pair \in Pairs
  PROVE  OrdersOf(pair) \subseteq [pair : Pairs, entry : Nat, reduce : BOOLEAN]
<1> SUFFICES ASSUME NEW o \in OrdersOf(pair) PROVE o \in [pair : Pairs, entry : Nat, reduce : BOOLEAN]
  OBVIOUS
<1>1. \/ \E n \in Trades : o = [pair |-> pair, entry |-> Level[n], reduce |-> FALSE]
      \/ \E n \in Ladders : o = [pair |-> pair, entry |-> Level[n] + 2 * AddUp, reduce |-> FALSE]
      \/ o = [pair |-> pair, entry |-> 0, reduce |-> TRUE]
  BY DEF OrdersOf
<1>2. AddUp \in Nat /\ Ladders \subseteq Trades /\ \A n \in Trades : Level[n] \in Nat
  BY ConstantsAssumption
<1>3. \A n \in Trades : Level[n] + 2 * AddUp \in Nat
  BY <1>2
<1>4. \E e \in Nat, r \in BOOLEAN : o = [pair |-> pair, entry |-> e, reduce |-> r]
  BY <1>1, <1>2, <1>3
<1> QED BY <1>4

LEMMA FetchOrdersKeeps == RecInv /\ FetchOrders => RecInv'
<1> SUFFICES ASSUME RecInv, FetchOrders PROVE RecInv'
  OBVIOUS
<1>1. PICK failed :
        /\ orders' = {o \in UNION {OrdersOf(pair) : pair \in Pairs} : <<o.pair, o.reduce>> \notin failed}
        /\ calm' = IF failed = {} THEN calm ELSE 0
        /\ raced' = (raced \/ failed # {})
  BY DEF FetchOrders
<1>2. calm' \in 0..2 /\ raced' \in BOOLEAN /\ UNCHANGED exchange
  BY <1>1, PassTyped DEF FetchOrders
<1>3. orders' \subseteq [pair : Pairs, entry : Nat, reduce : BOOLEAN]
  BY <1>1, OrdersAre
<1>4. lines' \in Seq(Line)
  BY PassTyped, AmongKeeps DEF FetchOrders, FileHolds, LadderLines
<1>5. FileHolds' /\ MainLoopFinds'
  BY PassTyped DEF FetchOrders, FileHolds, MainLoopFinds
<1>6. PassHolds'
  BY <1>2, <1>3, <1>4 DEF RecInv, PassHolds, FetchOrders, exchange
<1> QED BY <1>2, <1>5, <1>6, PassGoesOn

-----------------------------------------------------------------------------
(* The pre-passes                                                          *)

\* A step of a loop: the exchange, what was fetched and the pc stay.
LoopStep ==
  /\ UNCHANGED <<exchange, pc, rows, positions, orders, calm, raced>>
  /\ lines' \in Seq(Line) /\ usedG' \subseteq Groups(rows) /\ usedP' \subseteq positions
  /\ handled' \subseteq Id /\ pc \notin {"idle", "positions"}

LEMMA LoopGoesOn ==
  ASSUME RecInv, LoopStep, FileHolds', MainLoopFinds'
  PROVE  RecInv'
<1>1. PassHolds'
  BY DEF RecInv, PassHolds, LoopStep, exchange
<1> QED BY <1>1, PassGoesOn, PassTyped DEF LoopStep

LEMMA PrePassNothingKeeps == RecInv /\ PrePassNothing => RecInv'
<1> SUFFICES ASSUME RecInv, PrePassNothing PROVE RecInv'
  OBVIOUS
<1>1. lines' \in Seq(Line) /\ pc \in PrePasses
  BY NextLineIs DEF PrePassNothing
<1>2. LoopStep
  BY <1>1 DEF PrePassNothing, PrePasses, LoopStep, RecInv, PassHolds
<1>3. FileHolds' /\ MainLoopFinds'
  BY <1>1, PassTyped DEF PrePassNothing, PrePasses, FileHolds, MainLoopFinds
<1> QED BY <1>2, <1>3, LoopGoesOn

\* The line of t is open, and the exits so far are in its child.
LEMMA PrePassOpenKeeps == RecInv /\ PrePassOpen => RecInv'
<1> SUFFICES ASSUME RecInv, PrePassOpen PROVE RecInv'
  OBVIOUS
<1> DEFINE t == Head(lines)
           claim == ClaimedGroups(t)
<1>1. t \in Line /\ lines' \in Seq(Line) /\ pc \in PrePasses
  BY NextLineIs DEF PrePassOpen
<1>2. /\ usedG' = usedG \cup claim /\ handled' = handled \cup {t.id}
      /\ UNCHANGED <<exchange, pc, rows, positions, orders, calm, raced>>
  BY DEF PrePassOpen
<1> DEFINE opened(p) == IF ReadsOpen(t, p) THEN journal ELSE Rewrite(journal, Opened(t, p))
<1>3. PICK p \in ClaimedPosition(t) :
        /\ ReadsOpen(t, p) \/ HasLine(t.id)
        /\ usedP' = usedP \cup {p}
        /\ journal' = IF claim = {} THEN opened(p) ELSE Upsert(opened(p), Child(t, claim))
  BY DEF PrePassOpen
<1> HIDE DEF t, claim
<1>4. claim \in SUBSET Groups(rows) /\ p \in positions /\ p.size \in Nat
  BY <1>1, ClaimsAre DEF claim, RecInv, PassHolds
<1>5. LoopStep
  BY <1>1, <1>2, <1>3, <1>4, IdIs DEF PrePasses, LoopStep, RecInv, PassHolds
<1>6. opened(p) \in Seq(Line) /\ Unique(opened(p)) /\ \A id : Names(opened(p), id) <=> Names(journal, id)
  <2>1. CASE ReadsOpen(t, p)
    BY <2>1 DEF RecInv, FileHolds
  <2>2. CASE ~ ReadsOpen(t, p)
    <3>1. LineOf(t.id) \in Line
      BY <1>3, <2>2, LineOfIs DEF RecInv, FileHolds
    <3>2. Opened(t, p) \in Line
      BY <1>4, <3>1 DEF Opened, Line
    <3> QED BY <2>2, <3>2, RewriteKeeps DEF RecInv, FileHolds
  <2> QED BY <2>1, <2>2
<1> HIDE DEF opened
<1>7. FileHolds'
  <2>1. CASE claim = {}
    BY <1>3, <1>6, <2>1 DEF FileHolds
  <2>2. CASE claim # {}
    <3>1. Child(t, claim) \in Line
      BY <1>1, <1>4, <2>2, RowsFinite, ChildIs
    <3>2. journal' = Upsert(opened(p), Child(t, claim))
      BY <1>3, <2>2
    <3> QED BY <1>6, <3>1, <3>2, UpsertKeeps DEF FileHolds
  <2> QED BY <2>1, <2>2
<1>8. MainLoopFinds'
  BY <1>1, <1>2 DEF PrePasses, MainLoopFinds
<1> QED BY <1>5, <1>7, <1>8, LoopGoesOn

\* All the groups of t make one closed line, and its child goes.
LEMMA PrePassFlatKeeps == RecInv /\ PrePassFlat => RecInv'
<1> SUFFICES ASSUME RecInv, PrePassFlat PROVE RecInv'
  OBVIOUS
<1> DEFINE t == Head(lines)
           claim == ClaimedGroups(t)
           net == RowsOf(claim)
           done == [LineOf(t.id) EXCEPT !.status = "closed", !.net = net, !.size = Cardinality(net),
                                        !.entry = IF IsLadder(t) THEN @ ELSE MeanEntry(net)]
           kept == IF ReadsClosed(t, net) THEN journal ELSE Rewrite(journal, done)
<1>1. t \in Line /\ lines' \in Seq(Line) /\ pc \in PrePasses
  BY NextLineIs DEF PrePassFlat
<1>2. /\ usedG' = usedG \cup claim /\ handled' = handled \cup {t.id}
      /\ UNCHANGED <<exchange, pc, rows, positions, orders, usedP, calm, raced>>
      /\ ReadsClosed(t, net) \/ HasLine(t.id)
      /\ journal' = Without(kept, ChildId(t.id))
      /\ Engaged(t) /\ ClaimedPosition(t) = {}
  BY DEF PrePassFlat
<1>3. claim # {}
  BY <1>2 DEF Engaged
<1> HIDE DEF t, claim
<1>4. claim \in SUBSET Groups(rows)
  BY <1>1, ClaimsAre DEF claim
<1>5. net \in SUBSET Exit /\ net # {} /\ IsFiniteSet(net)
  BY <1>3, <1>4, RowsFinite, RowsAre
<1>6. LoopStep
  BY <1>1, <1>2, <1>4, IdIs DEF PrePasses, LoopStep, RecInv, PassHolds
<1> HIDE DEF net
<1>7. MeanEntry(net) \in Nat /\ Cardinality(net) \in Nat
  BY <1>5, MeanIs
<1>8. kept \in Seq(Line) /\ Unique(kept)
  <2>1. CASE ReadsClosed(t, net)
    BY <2>1 DEF RecInv, FileHolds
  <2>2. CASE ~ ReadsClosed(t, net)
    <3>1. LineOf(t.id) \in Line
      BY <1>2, <2>2, LineOfIs DEF RecInv, FileHolds
    <3>2. done \in Line
      BY <1>5, <1>7, <3>1 DEF Line
    <3> HIDE DEF done
    <3> QED BY <2>2, <3>2, RewriteKeeps DEF RecInv, FileHolds
  <2> QED BY <2>1, <2>2
<1> HIDE DEF kept
<1>9. FileHolds'
  BY <1>2, <1>8, AmongKeeps DEF FileHolds, Without
<1>10. MainLoopFinds'
  BY <1>1, <1>2 DEF PrePasses, MainLoopFinds
<1> QED BY <1>6, <1>9, <1>10, LoopGoesOn

LEMMA StartScaleOutKeeps == RecInv /\ StartScaleOut => RecInv'
<1> SUFFICES ASSUME RecInv, StartScaleOut PROVE RecInv'
  OBVIOUS
<1>1. lines' \in Seq(Line)
  BY PassTyped, AmongKeeps DEF StartScaleOut, FileHolds, OtherLines
<1>2. FileHolds' /\ MainLoopFinds'
  BY PassTyped DEF StartScaleOut, FileHolds, MainLoopFinds
<1>3. PassHolds'
  BY <1>1 DEF RecInv, PassHolds, StartScaleOut, exchange
<1> QED BY <1>2, <1>3, PassTyped, PassGoesOn DEF StartScaleOut

\* The main loop starts from the file as it is.
LEMMA StartMainLoopKeeps == RecInv /\ StartMainLoop => RecInv'
<1> SUFFICES ASSUME RecInv, StartMainLoop PROVE RecInv'
  OBVIOUS
<1>1. lines' = journal /\ journal' = journal /\ journal \in Seq(Line)
  BY PassTyped DEF StartMainLoop, FileHolds
<1>2. FileHolds' /\ MainLoopFinds'
  BY <1>1, PassTyped DEF FileHolds, MainLoopFinds, HasLine
<1>3. PassHolds'
  BY <1>1 DEF RecInv, PassHolds, StartMainLoop, exchange
<1> QED BY <1>2, <1>3, PassTyped, PassGoesOn DEF StartMainLoop

-----------------------------------------------------------------------------
(* The main loop                                                           *)

\* A step of the main loop keeps every name.
LEMMA MainGoesOn ==
  ASSUME RecInv, LoopStep, NextLine({"main"}), FileKept
  PROVE  RecInv'
<1>1. \A i \in DOMAIN lines' : HasLine(lines'[i].id)
  BY NextLineIs
<1>2. \A i \in DOMAIN lines' : Names(journal', lines'[i].id)
  BY <1>1, HasIsNames DEF FileKept
<1>3. MainLoopFinds'
  BY <1>2 DEF MainLoopFinds, HasLine, Names
<1> QED BY <1>3, LoopGoesOn DEF FileKept, FileHolds

\* Nor does a line that is set or closed in its place lose one.
LEMMA SetKeeps ==
  ASSUME RecInv, NEW new \in Line, journal' = Rewrite(journal, new)
  PROVE  FileKept
BY RewriteKeeps DEF RecInv, FileHolds, FileKept

LEMMA MainSkipsKeeps == RecInv /\ MainSkips => RecInv'
<1> SUFFICES ASSUME RecInv, MainSkips PROVE RecInv'
  OBVIOUS
<1>1. NextLine({"main"})
  BY DEF MainSkips
<1>2. LoopStep
  BY <1>1, NextLineIs DEF MainSkips, LoopStep, RecInv, PassHolds
<1> QED BY <1>1, <1>2, MainGoesOn, FileUntouched DEF MainSkips

LEMMA MainOpensKeeps == RecInv /\ MainOpens => RecInv'
<1> SUFFICES ASSUME RecInv, MainOpens PROVE RecInv'
  OBVIOUS
<1> DEFINE t == Head(lines)
           new(p) == [Opened(t, p) EXCEPT !.entry = p.entry]
<1>1. NextLine({"main"}) /\ UNCHANGED <<exchange, pc, rows, positions, orders, usedG, handled, calm, raced>>
  BY DEF MainOpens, Matches
<1>2. t \in Line /\ lines' \in Seq(Line) /\ pc = "main" /\ HasLine(t.id)
  BY <1>1, NextLineIs
<1>3. PICK p \in FreePositions(t) :
        /\ usedP' = usedP \cup {p}
        /\ journal' = IF ReadsOpen(t, p) THEN journal ELSE Rewrite(journal, new(p))
  BY DEF MainOpens
<1> HIDE DEF t
<1>4. p \in positions /\ p.size \in Nat /\ p.entry \in Nat
  BY <1>2, ClaimsAre DEF RecInv, PassHolds
<1>5. LoopStep
  BY <1>1, <1>2, <1>3, <1>4 DEF LoopStep, RecInv, PassHolds
<1>6. LineOf(t.id) \in Line
  BY <1>2, LineOfIs DEF RecInv, FileHolds
<1>7. new(p) \in Line
  BY <1>4, <1>6 DEF Opened, Line
<1> HIDE DEF new
<1>8. FileKept
  BY <1>3, <1>7, SetKeeps, FileUntouched
<1> QED BY <1>1, <1>5, <1>8, MainGoesOn

LEMMA MainClosesKeeps == RecInv /\ MainCloses => RecInv'
<1> SUFFICES ASSUME RecInv, MainCloses PROVE RecInv'
  OBVIOUS
<1> DEFINE t == Head(lines)
           new(g) == [LineOf(t.id) EXCEPT !.status = "closed", !.entry = g.entry,
                                          !.net = g.rows, !.size = Cardinality(g.rows)]
<1>1. NextLine({"main"}) /\ UNCHANGED <<exchange, pc, rows, positions, orders, usedP, handled, calm, raced>>
  BY DEF MainCloses, Matches
<1>2. t \in Line /\ lines' \in Seq(Line) /\ pc = "main" /\ HasLine(t.id)
  BY <1>1, NextLineIs
<1>3. PICK g \in FreeGroups(t) :
        /\ usedG' = usedG \cup {g}
        /\ journal' = IF ReadsClosed(t, g.rows) THEN journal ELSE Rewrite(journal, new(g))
  BY DEF MainCloses
<1> HIDE DEF t
<1>4. g \in Groups(rows)
  BY <1>2, ClaimsAre
<1>5. g.entry \in Nat /\ g.rows \in SUBSET Exit /\ Cardinality(g.rows) \in Nat
  BY <1>4, RowsFinite, GroupsAre, FS_CardinalityType
<1>6. LoopStep
  BY <1>1, <1>2, <1>3, <1>4 DEF LoopStep, RecInv, PassHolds
<1>7. LineOf(t.id) \in Line
  BY <1>2, LineOfIs DEF RecInv, FileHolds
<1>8. new(g) \in Line
  BY <1>5, <1>7 DEF Line
<1> HIDE DEF new
<1>9. FileKept
  BY <1>3, <1>8, SetKeeps, FileUntouched
<1> QED BY <1>1, <1>6, <1>9, MainGoesOn

LEMMA MainCancelsKeeps == RecInv /\ MainCancels => RecInv'
<1> SUFFICES ASSUME RecInv, MainCancels PROVE RecInv'
  OBVIOUS
<1> DEFINE t == Head(lines)
           new == [LineOf(t.id) EXCEPT !.status = "cancelled"]
<1>1. /\ NextLine({"main"}) /\ UNCHANGED <<exchange, pc, rows, positions, orders, usedG, usedP, handled>>
      /\ UNCHANGED <<calm, raced>>
      /\ journal' = IF t.status = "closed" \/ StillResting(t) THEN journal ELSE Rewrite(journal, new)
  BY DEF MainCancels, Matches
<1>2. t \in Line /\ lines' \in Seq(Line) /\ pc = "main" /\ HasLine(t.id)
  BY <1>1, NextLineIs
<1> HIDE DEF t
<1>3. LoopStep
  BY <1>1, <1>2 DEF LoopStep, RecInv, PassHolds
<1>4. LineOf(t.id) \in Line
  BY <1>2, LineOfIs DEF RecInv, FileHolds
<1>5. new \in Line
  BY <1>4 DEF Line
<1> HIDE DEF new
<1>6. FileKept
  BY <1>1, <1>5, SetKeeps, FileUntouched
<1> QED BY <1>1, <1>3, <1>6, MainGoesOn

-----------------------------------------------------------------------------
(* Orphans, and the end of the pass                                        *)

LEMMA OrphanGroupKeeps == RecInv /\ OrphanGroup => RecInv'
<1> SUFFICES ASSUME RecInv, OrphanGroup PROVE RecInv'
  OBVIOUS
<1>1. /\ pc = "main" /\ lines = <<>>
      /\ UNCHANGED <<exchange, pc, rows, positions, orders, lines, usedP, handled, calm, raced>>
  BY DEF OrphanGroup
<1>2. PICK g \in Groups(rows) :
        /\ usedG' = usedG \cup {g}
        /\ journal' = IF HasLine(OrphanLine(g).id) THEN journal ELSE Append(journal, OrphanLine(g))
  BY DEF OrphanGroup
<1>3. LoopStep
  BY <1>1, <1>2 DEF LoopStep, RecInv, PassHolds
<1>4. OrphanLine(g) \in Line
  BY RowsFinite, OrphanLineIs
<1>5. FileHolds'
  BY <1>2, <1>4, HasIsNames, AppendKeeps DEF RecInv, FileHolds
<1>6. MainLoopFinds'
  BY <1>1 DEF MainLoopFinds
<1> QED BY <1>3, <1>5, <1>6, LoopGoesOn

LEMMA OrphanPositionKeeps == RecInv /\ OrphanPosition => RecInv'
<1> SUFFICES ASSUME RecInv, OrphanPosition PROVE RecInv'
  OBVIOUS
<1> DEFINE id(p) == [kind |-> "open", pair |-> p.pair, n |-> Rounded(p.entry), last |-> 0, depth |-> 0]
           new(p) == [id |-> id(p), status |-> "open", entry |-> p.entry, day |-> day, net |-> {},
                      size |-> p.size]
<1>1. /\ pc = "main" /\ lines = <<>>
      /\ UNCHANGED <<exchange, pc, rows, positions, orders, lines, usedG, handled, calm, raced>>
  BY DEF OrphanPosition
<1>2. PICK p \in positions :
        /\ usedP' = usedP \cup {p}
        /\ journal' = IF HasLine(id(p)) THEN journal ELSE Append(journal, new(p))
  BY DEF OrphanPosition
<1>3. LoopStep
  BY <1>1, <1>2 DEF LoopStep, RecInv, PassHolds
<1>4. p.pair \in Pairs /\ p.entry \in Nat /\ p.size \in Nat /\ day \in Nat
  BY DEF RecInv, PassHolds, MarketHolds
<1>5. Rounded(p.entry) \in Nat
  BY <1>4 DEF Rounded
<1>6. id(p) \in Id
  BY <1>4, <1>5 DEF Id
<1>7. new(p).id = id(p)
  OBVIOUS
<1>8. new(p) \in Line
  <2> HIDE DEF id
  <2> QED BY <1>4, <1>6 DEF Line
<1> HIDE DEF id, new
<1>9. FileHolds'
  BY <1>2, <1>7, <1>8, HasIsNames, AppendKeeps DEF RecInv, FileHolds
<1>10. MainLoopFinds'
  BY <1>1 DEF MainLoopFinds
<1> QED BY <1>3, <1>9, <1>10, LoopGoesOn

\* A pass that ends or dies keeps nothing of what it fetched.
LEMMA ForgetsKeeps ==
  ASSUME RecInv, Forgets, UNCHANGED journal
  PROVE  FileHolds' /\ PassHolds' /\ MainLoopFinds'
<1>1. FileHolds' /\ MainLoopFinds'
  BY PassTyped DEF Forgets, FileHolds, MainLoopFinds
<1>2. PassHolds'
  BY DEF Forgets, PassHolds
<1> QED BY <1>1, <1>2

LEMMA EndPassHolds == RecInv /\ EndPass => RecInv'
<1> SUFFICES ASSUME RecInv, EndPass PROVE RecInv'
  OBVIOUS
<1>1. UNCHANGED <<avg, left, legs, exits, visible, day, journal, calm, raced>> /\ Forgets
  BY DEF EndPass
<1>2. PICK done :
        life' = [n \in Trades |-> IF PairOf[n] \in done /\ life[n] = "resting" THEN "withdrawn"
                                  ELSE IF PairOf[n] \in done /\ life[n] = "between" THEN "flat"
                                  ELSE life[n]]
  BY DEF EndPass, CancelOrphans
<1>3. MarketHolds'
  BY <1>1, <1>2 DEF RecInv, MarketHolds
<1> QED BY <1>1, <1>3, ForgetsKeeps DEF RecInv

LEMMA DiesKeeps == RecInv /\ Dies => RecInv'
<1> SUFFICES ASSUME RecInv, Dies PROVE RecInv'
  OBVIOUS
<1>1. UNCHANGED exchange /\ UNCHANGED journal /\ calm' \in 0..2 /\ raced' \in BOOLEAN /\ Forgets
  BY PassTyped DEF Dies
<1> QED BY <1>1, ForgetsKeeps, PassGoesOn

-----------------------------------------------------------------------------
(* The theorems                                                            *)

LEMMA RecInit == Init => RecInv
<1> SUFFICES ASSUME Init PROVE RecInv
  OBVIOUS
<1>1. MarketHolds
  <2>1. Level \in [Trades -> Nat] /\ IsFiniteSet({})
    BY ConstantsAssumption, FS_EmptySet
  <2>2. /\ life = [n \in Trades |-> "none"] /\ avg = Level
        /\ left = [n \in Trades |-> 0] /\ legs = [n \in Trades |-> FALSE]
        /\ exits = {} /\ visible = {} /\ day = 0 /\ calm = 0 /\ raced = FALSE
    BY DEF Init
  <2>3. raced \in BOOLEAN /\ exits \subseteq Exit /\ IsFiniteSet(exits) /\ visible \subseteq exits
    BY <2>1, <2>2
  <2>4. /\ life \in [Trades -> {"none", "resting", "open", "between", "flat", "withdrawn", "shared", "merged"}]
        /\ \A n \in Trades : life[n] \in {"open", "shared"} => left[n] # 0
    BY <2>2
  <2>5. avg \in [Trades -> Nat] /\ left \in [Trades -> Nat] /\ legs \in [Trades -> BOOLEAN]
    BY <2>1, <2>2
  <2>6. day \in Nat /\ calm \in 0..2
    BY <2>2
  <2> QED BY <2>3, <2>4, <2>5, <2>6 DEF MarketHolds
<1>2. FileHolds /\ MainLoopFinds
  BY DEF Init, FileHolds, Unique, MainLoopFinds
<1>3. PassHolds
  BY DEF Init, PassHolds
<1> QED BY <1>1, <1>2, <1>3 DEF RecInv

LEMMA PassStepKeeps == RecInv /\ PassStep => RecInv'
BY FetchRowsKeeps, FetchPositionsKeeps, FetchOrdersKeeps, PrePassNothingKeeps, PrePassOpenKeeps,
   PrePassFlatKeeps, StartScaleOutKeeps, StartMainLoopKeeps, MainSkipsKeeps, MainOpensKeeps,
   MainClosesKeeps, MainCancelsKeeps, OrphanGroupKeeps, OrphanPositionKeeps, EndPassHolds
   DEF PassStep

LEMMA RecNext == RecInv /\ [Next]_vars => RecInv'
<1> SUFFICES ASSUME RecInv, [Next]_vars PROVE RecInv'
  OBVIOUS
<1>1. ASSUME NEW n \in Trades,
             \/ Place(n) \/ Log(n) \/ Fill(n) \/ ScaleIn(n) \/ ExitUnit(n)
             \/ FillSecond(n) \/ Withdraw(n) \/ \E m \in Trades : Merge(n, m)
      PROVE  RecInv'
  BY <1>1, PlaceKeeps, LogKeeps, FillKeeps, ScaleInKeeps, ExitUnitKeeps, FillSecondKeeps,
     WithdrawKeeps, MergeKeeps
<1>2. ASSUME NEW i \in DOMAIN journal, SyncLine(journal[i]) PROVE RecInv'
  BY <1>2, SyncKeeps
<1>3. ASSUME UNCHANGED vars PROVE RecInv'
  <2>1. UNCHANGED <<exchange, journal, pass, calm, raced>>
    BY <1>3 DEF vars
  <2>2. MarketHolds' /\ exits \subseteq exits'
    BY <2>1, PassTyped, MarketUntouched
  <2> QED BY <2>1, <2>2, FileUntouched, PassUndisturbed
<1> QED BY <1>1, <1>2, <1>3, ForgetKeeps, NextDayKeeps, DiesKeeps, PassStepKeeps DEF Next

\* In every reachable state the pass, the file and the exchange are as
\* RecInv says: the invariant that the theorems rest on.
THEOREM ReconcileInvariant == Spec => []RecInv
<1> QED BY RecInit, RecNext, PTL DEF Spec

\* Every variable has its type: the line written by a pass from a group, a
\* position or a claim is a line, whatever is logged, synced or lost
\* meanwhile.
THEOREM ReconcileTypes == Spec => []TypeOK
<1>1. RecInv => TypeOK
  BY DEF RecInv, MarketHolds, FileHolds, PassHolds, TypeOK
<1> QED BY <1>1, ReconcileInvariant, PTL

\* An id names one line of trades.jsonl, however passes, logs, syncs and
\* deaths of a pass interleave: cmd_set and cmd_close rewrite the one line they
\* mean (journal.js:213-221, :365-385), and the lines a pass makes up have ids
\* that it has looked for (journal.js:1015, :1085, :1094).
THEOREM LinesHaveTheirIds == Spec => []OneLinePerId
<1>1. RecInv => OneLinePerId
  BY DEF RecInv, FileHolds, Unique, OneLinePerId
<1> QED BY <1>1, ReconcileInvariant, PTL

\* The main loop finds every line that it sets or closes: what it has read
\* at its start (journal.js:1029) is not lost before it comes to it, whatever
\* is logged or synced meanwhile, and cmd_set and cmd_close do not throw.  Of
\* the loops of the pre-passes this is false: they drop children.
THEOREM MainLoopFindsItsLines == Spec => []MainLoopFinds
<1>1. RecInv => MainLoopFinds
  BY DEF RecInv
<1> QED BY <1>1, ReconcileInvariant, PTL

-----------------------------------------------------------------------------
(* The lines of a file as a set                                            *)

LinesOf(j) == {j[i] : i \in DOMAIN j}

LEMMA LineAt ==
  ASSUME NEW j, NEW l \in LinesOf(j)
  PROVE  \E i \in DOMAIN j : l = j[i]
BY DEF LinesOf

LEMMA NamesIs == \A j, id : Names(j, id) <=> \E l \in LinesOf(j) : l.id = id
BY DEF Names, LinesOf

\* Of two lines of a file, no two have one id.
LEMMA OneOfEach ==
  ASSUME NEW j, Unique(j), NEW k \in LinesOf(j), NEW l \in LinesOf(j), k.id = l.id
  PROVE  k = l
BY DEF LinesOf, Unique

LEMMA LinesTyped ==
  ASSUME NEW j \in Seq(Line), NEW l \in LinesOf(j)
  PROVE  l \in Line
BY DEF LinesOf

LEMMA LineOfHere ==
  ASSUME NEW id, HasLine(id)
  PROVE  LineOf(id) \in LinesOf(journal) /\ LineOf(id).id = id
<1> DEFINE i == CHOOSE i \in DOMAIN journal : journal[i].id = id
<1>1. i \in DOMAIN journal /\ journal[i].id = id
  BY DEF HasLine
<1> HIDE DEF i
<1> QED BY <1>1 DEF LineOf, i, LinesOf

LEMMA RewriteLines ==
  ASSUME NEW j, NEW new, Names(j, new.id)
  PROVE  LinesOf(Rewrite(j, new)) = {l \in LinesOf(j) : l.id # new.id} \cup {new}
<1> DEFINE q == Rewrite(j, new)
<1>1. DOMAIN q = DOMAIN j /\ \A i \in DOMAIN j : q[i] = IF j[i].id = new.id THEN new ELSE j[i]
  BY DEF Rewrite
<1> HIDE DEF q
<1>2. PICK k \in DOMAIN j : j[k].id = new.id
  BY DEF Names
<1>3. ASSUME NEW l \in LinesOf(q) PROVE l = new \/ l \in {m \in LinesOf(j) : m.id # new.id}
  BY <1>1, <1>3 DEF LinesOf
<1>4. ASSUME NEW l \in LinesOf(j), l.id # new.id PROVE l \in LinesOf(q)
  BY <1>1, <1>4 DEF LinesOf
<1>5. new \in LinesOf(q)
  BY <1>1, <1>2 DEF LinesOf
<1> QED BY <1>3, <1>4, <1>5 DEF q

LEMMA AppendLines ==
  ASSUME NEW V, NEW j \in Seq(V), NEW new \in V
  PROVE  LinesOf(Append(j, new)) = LinesOf(j) \cup {new}
<1> DEFINE q == Append(j, new)
<1>1. /\ DOMAIN j = 1..Len(j) /\ Len(j) \in Nat /\ DOMAIN q = 1..(Len(j) + 1)
      /\ q[Len(j) + 1] = new /\ \A i \in 1..Len(j) : q[i] = j[i]
  OBVIOUS
<1> HIDE DEF q
<1>2. \A i \in DOMAIN q : i \in DOMAIN j \/ i = Len(j) + 1
  BY <1>1
<1>3. \A l \in LinesOf(q) : l = new \/ l \in LinesOf(j)
  BY <1>1, <1>2 DEF LinesOf
<1>4. Len(j) + 1 \in DOMAIN q /\ \A i \in DOMAIN j : i \in DOMAIN q
  BY <1>1
<1>5. \A l \in LinesOf(j) : l \in LinesOf(q)
  BY <1>1, <1>4 DEF LinesOf
<1>6. new \in LinesOf(q)
  BY <1>1, <1>4 DEF LinesOf
<1> QED BY <1>3, <1>5, <1>6 DEF q

\* The part of a file at some indices: where its lines are in the file.
LEMMA AmongIs ==
  ASSUME NEW V, NEW j \in Seq(V), NEW S \in SUBSET (DOMAIN j)
  PROVE  /\ Among(j, S) \in Seq(V)
         /\ \E m \in [DOMAIN Among(j, S) -> S] :
              /\ \A k \in DOMAIN Among(j, S) : Among(j, S)[k] = j[m[k]]
              /\ \A k, l \in DOMAIN Among(j, S) : k < l => m[k] < m[l]
              /\ \A i \in S : \E k \in DOMAIN Among(j, S) : m[k] = i
<1> DEFINE q == Among(j, S)
<1>1. q \in Seq(V) /\ \E m : Places(m, q, j, S, Len(j))
  BY AmongHas
<1> HIDE DEF q
<1>2. PICK m : Places(m, q, j, S, Len(j))
  BY <1>1
<1>3. DOMAIN q = 1..Len(q) /\ DOMAIN j = 1..Len(j) /\ {i \in 1..Len(j) : i \in S} = S
  BY <1>1
<1>4. m \in [DOMAIN q -> S]
  BY <1>2, <1>3, Zenon DEF Places
<1>5. \A i \in S : i \in 1..Len(j)
  BY <1>3
<1>6. /\ \A k \in DOMAIN q : q[k] = j[m[k]]
      /\ \A k, l \in DOMAIN q : k < l => m[k] < m[l]
      /\ \A i \in S : \E k \in DOMAIN q : m[k] = i
  BY <1>2, <1>3, <1>5 DEF Places
<1> QED BY <1>1, <1>4, <1>6 DEF q

LEMMA AmongLines ==
  ASSUME NEW V, NEW j \in Seq(V), NEW S \in SUBSET (DOMAIN j)
  PROVE  LinesOf(Among(j, S)) = {j[i] : i \in S}
<1> DEFINE q == Among(j, S)
<1>1. PICK m \in [DOMAIN q -> S] :
        /\ \A k \in DOMAIN q : q[k] = j[m[k]]
        /\ \A i \in S : \E k \in DOMAIN q : m[k] = i
  BY AmongIs
<1> HIDE DEF q
<1>2. \A l \in LinesOf(q) : l \in {j[i] : i \in S}
  BY <1>1 DEF LinesOf
<1>3. \A i \in S : j[i] \in LinesOf(q)
  BY <1>1 DEF LinesOf
<1> QED BY <1>2, <1>3 DEF q

LEMMA WithoutLines ==
  ASSUME NEW V, NEW j \in Seq(V), NEW id
  PROVE  LinesOf(Without(j, id)) = {l \in LinesOf(j) : l.id # id}
<1> DEFINE S == {i \in DOMAIN j : j[i].id # id}
<1>1. LinesOf(Without(j, id)) = {j[i] : i \in S}
  BY AmongLines DEF Without
<1>2. {j[i] : i \in S} = {l \in LinesOf(j) : l.id # id}
  BY DEF LinesOf
<1> QED BY <1>1, <1>2

-----------------------------------------------------------------------------
(* Their order                                                             *)

Part(n) == ChildId(TradeId(n))

\* A child comes after its parent.
ParentFirst(j, n) ==
  \A i \in DOMAIN j : j[i].id = Part(n) => \E k \in DOMAIN j : k < i /\ j[k].id = TradeId(n)

LEMMA IdsDiffer ==
  ASSUME NEW n \in Trades
  PROVE  /\ TradeId(n) # Part(n) /\ TradeId(n).pair = PairOf[n] /\ Part(n).pair = PairOf[n]
         /\ TradeId(n).kind = "trade" /\ TradeId(n).depth = 0 /\ Part(n).depth = 1
         /\ TradeId(n).n = n /\ Part(n).n = n /\ ChildId(Part(n)) # TradeId(n)
         /\ TradeId(n) \in Id /\ Part(n) \in Id
<1>1. n \in Nat
  BY ConstantsAssumption
<1>2. TradeId(n) \in Id
  BY <1>1 DEF TradeId, Id, Pairs
<1>3. Part(n) = [kind |-> "trade", pair |-> PairOf[n], n |-> n, last |-> 0, depth |-> 1]
  BY DEF Part, ChildId, TradeId
<1>4. ChildId(Part(n)).depth = 2
  BY <1>3 DEF ChildId
<1> QED BY <1>1, <1>2, <1>3, <1>4 DEF TradeId, Id, Pairs

LEMMA RewriteOrder ==
  ASSUME NEW j, NEW new, NEW n, ParentFirst(j, n)
  PROVE  ParentFirst(Rewrite(j, new), n)
<1> DEFINE q == Rewrite(j, new)
<1>1. DOMAIN q = DOMAIN j /\ \A i \in DOMAIN j : q[i].id = j[i].id
  BY DEF Rewrite
<1> HIDE DEF q
<1> QED BY <1>1 DEF ParentFirst, q

LEMMA AppendOrder ==
  ASSUME NEW V, NEW j \in Seq(V), NEW new \in V, NEW n, ParentFirst(j, n),
         new.id = Part(n) => Names(j, TradeId(n))
  PROVE  ParentFirst(Append(j, new), n)
<1> DEFINE q == Append(j, new)
<1>1. /\ DOMAIN j = 1..Len(j) /\ Len(j) \in Nat /\ DOMAIN q = 1..(Len(j) + 1)
      /\ q[Len(j) + 1] = new /\ \A i \in 1..Len(j) : q[i] = j[i]
  OBVIOUS
<1> HIDE DEF q
<1>2. ASSUME NEW i \in DOMAIN q, q[i].id = Part(n) PROVE \E k \in DOMAIN q : k < i /\ q[k].id = TradeId(n)
  <2>1. CASE i \in DOMAIN j
    <3>1. PICK k \in DOMAIN j : k < i /\ j[k].id = TradeId(n)
      BY <1>1, <1>2, <2>1 DEF ParentFirst
    <3>2. k \in DOMAIN q /\ q[k] = j[k]
      BY <1>1
    <3> QED BY <3>1, <3>2
  <2>2. CASE i \notin DOMAIN j
    <3>1. i = Len(j) + 1
      BY <1>1, <2>2
    <3>2. PICK k \in DOMAIN j : j[k].id = TradeId(n)
      BY <1>1, <1>2, <3>1 DEF Names
    <3>3. k \in DOMAIN q /\ q[k] = j[k] /\ k < i
      BY <1>1, <3>1
    <3> QED BY <3>2, <3>3
  <2> QED BY <2>1, <2>2
<1> QED BY <1>2 DEF ParentFirst, q

LEMMA AmongOrder ==
  ASSUME NEW V, NEW j \in Seq(V), NEW S \in SUBSET (DOMAIN j), NEW n, ParentFirst(j, n),
         \A i \in DOMAIN j : j[i].id = TradeId(n) => i \in S
  PROVE  ParentFirst(Among(j, S), n)
<1> DEFINE q == Among(j, S)
<1>1. q \in Seq(V)
  BY AmongIs
<1>2. PICK m \in [DOMAIN q -> S] :
        /\ \A k \in DOMAIN q : q[k] = j[m[k]]
        /\ \A k, l \in DOMAIN q : k < l => m[k] < m[l]
        /\ \A i \in S : \E k \in DOMAIN q : m[k] = i
  BY AmongIs
<1>3. DOMAIN q \subseteq Nat /\ DOMAIN j \subseteq Nat
  BY <1>1
<1> HIDE DEF q
<1>4. ASSUME NEW i \in DOMAIN q, q[i].id = Part(n) PROVE \E k \in DOMAIN q : k < i /\ q[k].id = TradeId(n)
  <2>1. m[i] \in DOMAIN j /\ j[m[i]].id = Part(n)
    BY <1>2, <1>4
  <2>2. PICK h \in DOMAIN j : h < m[i] /\ j[h].id = TradeId(n)
    BY <2>1 DEF ParentFirst
  <2>3. PICK k \in DOMAIN q : m[k] = h
    BY <1>2, <2>2
  <2>4. q[k].id = TradeId(n)
    BY <1>2, <2>2, <2>3
  <2>5. ~ (i < k) /\ k # i
    BY <1>2, <1>3, <2>1, <2>2, <2>3
  <2>6. k < i
    BY <1>3, <2>5
  <2> QED BY <2>4, <2>6
<1> QED BY <1>4 DEF ParentFirst, q

LEMMA WithoutOrder ==
  ASSUME NEW V, NEW j \in Seq(V), NEW id, NEW n, ParentFirst(j, n), id # TradeId(n)
  PROVE  ParentFirst(Without(j, id), n)
BY AmongOrder DEF Without

\* A part that leaves nothing out is the whole.
LEMMA AmongAll ==
  ASSUME NEW V, NEW j \in Seq(V)
  PROVE  Among(j, DOMAIN j) = j
<1> DEFINE q == Among(j, DOMAIN j)
<1>1. q \in Seq(V) /\ \E m : Places(m, q, j, DOMAIN j, Len(j))
  BY AmongHas
<1> HIDE DEF q
<1>2. PICK m : Places(m, q, j, DOMAIN j, Len(j))
  BY <1>1
<1>3. /\ DOMAIN q = 1..Len(q) /\ DOMAIN j = 1..Len(j) /\ Len(q) \in Nat /\ Len(j) \in Nat
      /\ q = [k \in 1..Len(q) |-> q[k]] /\ j = [k \in 1..Len(j) |-> j[k]]
  BY <1>1
<1>4. /\ \A k \in 1..Len(q) : m[k] \in 1..Len(j) /\ q[k] = j[m[k]]
      /\ \A k, l \in 1..Len(q) : k < l => m[k] < m[l]
      /\ \A i \in 1..Len(j) : \E k \in 1..Len(q) : m[k] = i
  BY <1>2, <1>3 DEF Places
\* The k-th is at k: an earlier place is taken, a later one would leave one out.
<1> DEFINE Good == {k \in Nat : k <= Len(q) => \A i \in 1..k : m[i] = i}
<1>5. 0 \in Good
  OBVIOUS
<1>6. ASSUME NEW k \in Good PROVE k + 1 \in Good
  <2> SUFFICES ASSUME k + 1 <= Len(q) PROVE m[k + 1] = k + 1
    BY <1>3
  <2>1. k + 1 \in 1..Len(q) /\ \A i \in 1..k : m[i] = i
    BY <1>3
  <2>2. m[k + 1] \in 1..Len(j) /\ \A i \in 1..k : i < m[k + 1]
    BY <1>3, <1>4, <2>1
  <2>3. m[k + 1] >= k + 1
    <3>1. CASE k = 0
      BY <2>2, <3>1
    <3>2. CASE k # 0
      <4>1. k \in 1..k
        BY <3>2
      <4> QED BY <2>2, <4>1
    <3> QED BY <3>1, <3>2
  <2>4. k + 1 \in 1..Len(j)
    BY <1>3, <2>2, <2>3
  <2>5. PICK i \in 1..Len(q) : m[i] = k + 1
    BY <1>4, <2>4
  <2>6. ~ (i <= k)
    BY <2>1, <2>5
  <2>7. ~ (k + 1 < i)
    BY <1>3, <1>4, <2>1, <2>3, <2>4, <2>5
  <2>8. i = k + 1
    BY <1>3, <2>6, <2>7
  <2> QED BY <2>5, <2>8
<1> HIDE DEF Good
<1>7. Good = Nat
  <2>1. Good \in SUBSET Nat
    BY DEF Good
  <2> QED BY <1>5, <1>6, <2>1, SetInduction
<1>8. Len(q) \in Good
  BY <1>3, <1>7
<1>9. \A i \in 1..Len(q) : m[i] = i
  BY <1>3, <1>8 DEF Good
<1>10. \A i \in 1..Len(j) : i \in 1..Len(q)
  BY <1>4, <1>9
<1>11. \A i \in 1..Len(q) : i \in 1..Len(j)
  BY <1>4, <1>9
<1>12. Len(q) = Len(j)
  <2>1. Len(q) # 0 => Len(q) \in 1..Len(q)
    BY <1>3
  <2>2. Len(j) # 0 => Len(j) \in 1..Len(j)
    BY <1>3
  <2>3. Len(q) <= Len(j)
    BY <1>3, <1>11, <2>1
  <2>4. Len(j) <= Len(q)
    BY <1>3, <1>10, <2>2
  <2>5. Len(q) \in Nat /\ Len(j) \in Nat
    BY <1>3
  <2> QED BY <2>3, <2>4, <2>5
<1> QED BY <1>3, <1>4, <1>9, <1>12 DEF q

LEMMA NothingWithout ==
  ASSUME NEW V, NEW j \in Seq(V), NEW id, ~ Names(j, id)
  PROVE  Without(j, id) = j
<1>1. {i \in DOMAIN j : j[i].id # id} = DOMAIN j
  BY DEF Names
<1> QED BY <1>1, AmongAll DEF Without

-----------------------------------------------------------------------------
(* What a step changes of the file                                         *)

\* A line counts exits of its pair only.
NetFits(l) == \A x \in l.net : PairOf[x.trade] = l.id.pair

\* From the file j to the file k only lines of the pair pr changed.
Differs(j, k, pr) ==
  /\ \A l \in LinesOf(k) : l \in LinesOf(j) \/ (l.id.pair = pr /\ NetFits(l))
  /\ \A l \in LinesOf(j) : l \in LinesOf(k) \/ l.id.pair = pr
  /\ \A n \in Trades : PairOf[n] # pr /\ ParentFirst(j, n) => ParentFirst(k, n)

LEMMA DiffersNot == \A j, pr : Differs(j, j, pr)
BY DEF Differs

LEMMA DiffersTwice ==
  ASSUME NEW j, NEW k, NEW h, NEW pr, Differs(j, k, pr), Differs(k, h, pr)
  PROVE  Differs(j, h, pr)
<1>1. \A n \in Trades : PairOf[n] # pr /\ ParentFirst(j, n) => ParentFirst(h, n)
  BY DEF Differs
<1> QED BY <1>1 DEF Differs

LEMMA DiffersRewrite ==
  ASSUME NEW j, NEW new, NetFits(new)
  PROVE  Differs(j, Rewrite(j, new), new.id.pair)
<1>1. CASE Names(j, new.id)
  BY <1>1, RewriteLines, RewriteOrder DEF Differs
<1>2. CASE ~ Names(j, new.id)
  <2> DEFINE q == Rewrite(j, new)
  <2>1. DOMAIN q = DOMAIN j /\ \A i \in DOMAIN j : q[i] = j[i]
    BY <1>2 DEF Rewrite, Names
  <2> HIDE DEF q
  <2>2. LinesOf(q) = LinesOf(j)
    BY <2>1 DEF LinesOf
  <2>3. \A n \in Trades : ParentFirst(j, n) => ParentFirst(q, n)
    BY RewriteOrder DEF q
  <2> QED BY <2>2, <2>3 DEF Differs, q
<1> QED BY <1>1, <1>2

LEMMA DiffersAppend ==
  ASSUME NEW j \in Seq(Line), NEW new \in Line, NetFits(new)
  PROVE  Differs(j, Append(j, new), new.id.pair)
<1>1. LinesOf(Append(j, new)) = LinesOf(j) \cup {new}
  BY AppendLines
<1>2. ASSUME NEW n \in Trades, PairOf[n] # new.id.pair, ParentFirst(j, n)
      PROVE  ParentFirst(Append(j, new), n)
  <2>1. new.id # Part(n)
    BY <1>2, IdsDiffer
  <2> QED BY <1>2, <2>1, AppendOrder
<1> QED BY <1>1, <1>2 DEF Differs

LEMMA DiffersWithout ==
  ASSUME NEW j \in Seq(Line), NEW id
  PROVE  Differs(j, Without(j, id), id.pair)
<1>1. LinesOf(Without(j, id)) = {l \in LinesOf(j) : l.id # id}
  BY WithoutLines
<1>2. ASSUME NEW n \in Trades, PairOf[n] # id.pair, ParentFirst(j, n)
      PROVE  ParentFirst(Without(j, id), n)
  <2>1. id # TradeId(n)
    BY <1>2, IdsDiffer
  <2> QED BY <1>2, <2>1, WithoutOrder
<1> QED BY <1>1, <1>2 DEF Differs

NetsOnPair == \A l \in LinesOf(journal) : NetFits(l)

LEMMA PairKept ==
  ASSUME NetsOnPair, NEW pr, Differs(journal, journal', pr)
  PROVE  NetsOnPair'
BY DEF NetsOnPair, Differs

LEMMA GroupOnPair ==
  ASSUME NEW rs, NEW g \in Groups(rs), NEW x \in g.rows
  PROVE  PairOf[x.trade] = g.pair
BY DEF Groups

LEMMA ChildPair == ASSUME NEW t \in Line PROVE ChildId(t.id).pair = t.id.pair
BY DEF ChildId, Line, Id

\* The rows claimed for a line are of its pair.
LEMMA ClaimOnPair ==
  ASSUME NEW t, NEW x \in RowsOf(ClaimedGroups(t))
  PROVE  PairOf[x.trade] = t.id.pair
<1>1. PICK g \in ClaimedGroups(t) : x \in g.rows
  BY DEF RowsOf
<1>2. g \in Groups(rows) /\ g.pair = t.id.pair
  BY DEF ClaimedGroups
<1> QED BY <1>1, <1>2, GroupOnPair

LEMMA LogTouches ==
  ASSUME RecInv, NEW n \in Trades, Log(n)
  PROVE  Differs(journal, journal', PairOf[n])
<1> DEFINE new == [id |-> TradeId(n), status |-> "pending", entry |-> Level[n], day |-> day,
                   net |-> {}, size |-> Units]
<1>1. new \in Line
  BY IdsDiffer, ConstantsAssumption DEF Line, RecInv, MarketHolds
<1>2. journal' = Append(journal, new) /\ NetFits(new) /\ new.id.pair = PairOf[n]
  BY IdsDiffer DEF Log, NetFits
<1> HIDE DEF new
<1>3. Differs(journal, Append(journal, new), new.id.pair)
  BY <1>1, <1>2, DiffersAppend DEF RecInv, FileHolds
<1> QED BY <1>2, <1>3

LEMMA SyncTouches ==
  ASSUME RecInv, NEW i \in DOMAIN journal, SyncLine(journal[i])
  PROVE  Differs(journal, journal', journal[i].id.pair)
<1> DEFINE t == journal[i]
           rs == SyncRows(t)
           new == [t EXCEPT !.status = "closed", !.net = rs, !.entry = MeanEntry(rs)]
<1>1. t \in Line
  BY DEF RecInv, FileHolds
<1>2. \A x \in rs : PairOf[x.trade] = t.id.pair
  BY DEF SyncRows
<1>3. journal' = Rewrite(journal, new)
  BY DEF SyncLine
<1> HIDE DEF t, rs
<1>4. new.id = t.id /\ new.net = rs
  BY <1>1 DEF Line
<1> HIDE DEF new
<1>5. NetFits(new)
  BY <1>2, <1>4 DEF NetFits
<1> QED BY <1>3, <1>4, <1>5, DiffersRewrite DEF t

\* The line of t opened.
LEMMA OpenedTouches ==
  ASSUME RecInv, NetsOnPair, NEW t \in Line, NEW p, p.size \in Nat, ReadsOpen(t, p) \/ HasLine(t.id)
  PROVE  LET opened == IF ReadsOpen(t, p) THEN journal ELSE Rewrite(journal, Opened(t, p))
         IN  /\ opened \in Seq(Line) /\ Unique(opened) /\ \A id : Names(opened, id) <=> Names(journal, id)
             /\ Differs(journal, opened, t.id.pair)
<1>1. CASE ReadsOpen(t, p)
  BY <1>1, DiffersNot DEF RecInv, FileHolds
<1>2. CASE ~ ReadsOpen(t, p)
  <2>1. LineOf(t.id) \in Line /\ LineOf(t.id).id = t.id /\ LineOf(t.id) \in LinesOf(journal)
    BY <1>2, LineOfIs, LineOfHere DEF RecInv, FileHolds
  <2>2. Opened(t, p) \in Line /\ Opened(t, p).id = t.id /\ Opened(t, p).net = LineOf(t.id).net
    BY <2>1 DEF Opened, Line
  <2>3. NetFits(Opened(t, p))
    BY <2>1, <2>2 DEF NetsOnPair, NetFits
  <2>4. Differs(journal, Rewrite(journal, Opened(t, p)), Opened(t, p).id.pair)
    BY <2>3, DiffersRewrite
  <2> QED BY <1>2, <2>2, <2>4, RewriteKeeps DEF RecInv, FileHolds
<1> QED BY <1>1, <1>2

LEMMA UpsertTouches ==
  ASSUME RecInv, NetsOnPair, NEW j \in Seq(Line), NEW child \in Line, NetFits(child)
  PROVE  Differs(j, Upsert(j, child), child.id.pair)
<1>1. CASE ~ HasLine(child.id)
  BY <1>1, DiffersAppend DEF Upsert
<1>2. CASE HasLine(child.id) /\ LineOf(child.id).net = child.net
  BY <1>2, DiffersNot DEF Upsert
<1>3. CASE HasLine(child.id) /\ LineOf(child.id).net # child.net
  <2> DEFINE new == [child EXCEPT !.day = LineOf(child.id).day]
  <2>1. Upsert(j, child) = Rewrite(j, new)
    BY <1>3 DEF Upsert
  <2>2. new.id = child.id /\ new.net = child.net
    BY DEF Line
  <2> HIDE DEF new
  <2>3. NetFits(new)
    BY <2>2 DEF NetFits
  <2> QED BY <2>1, <2>2, <2>3, DiffersRewrite
<1> QED BY <1>1, <1>2, <1>3

LEMMA PrePassOpenTouches ==
  ASSUME RecInv, NetsOnPair, PrePassOpen
  PROVE  Differs(journal, journal', Head(lines).id.pair)
<1> DEFINE t == Head(lines)
           claim == ClaimedGroups(t)
           opened(p) == IF ReadsOpen(t, p) THEN journal ELSE Rewrite(journal, Opened(t, p))
<1>1. t \in Line
  BY NextLineIs DEF PrePassOpen
<1>2. PICK p \in ClaimedPosition(t) :
        /\ ReadsOpen(t, p) \/ HasLine(t.id)
        /\ journal' = IF claim = {} THEN opened(p) ELSE Upsert(opened(p), Child(t, claim))
  BY DEF PrePassOpen
<1> HIDE DEF t
<1>3. p.size \in Nat /\ claim \in SUBSET Groups(rows)
  BY <1>1, ClaimsAre DEF RecInv, PassHolds
<1>4. opened(p) \in Seq(Line) /\ Differs(journal, opened(p), t.id.pair)
  BY <1>1, <1>2, <1>3, OpenedTouches
<1>5. CASE claim = {}
  BY <1>2, <1>4, <1>5 DEF t
<1>6. CASE claim # {}
  <2>1. Child(t, claim) \in Line /\ Child(t, claim).id = ChildId(t.id)
    BY <1>1, <1>3, <1>6, RowsFinite, ChildIs
  <2>2. Child(t, claim).id.pair = t.id.pair
    BY <1>1, <2>1, ChildPair
  <2>3. Child(t, claim).net = RowsOf(claim)
    BY DEF Child
  <2>4. NetFits(Child(t, claim))
    BY <2>2, <2>3, ClaimOnPair DEF NetFits
  <2>5. Differs(opened(p), Upsert(opened(p), Child(t, claim)), t.id.pair)
    BY <1>4, <2>1, <2>2, <2>4, UpsertTouches
  <2>6. journal' = Upsert(opened(p), Child(t, claim))
    BY <1>2, <1>6
  <2> HIDE DEF claim, opened
  <2> QED BY <1>4, <2>5, <2>6, DiffersTwice DEF t
<1> QED BY <1>5, <1>6

LEMMA PrePassFlatTouches ==
  ASSUME RecInv, NetsOnPair, PrePassFlat
  PROVE  Differs(journal, journal', Head(lines).id.pair)
<1> DEFINE t == Head(lines)
           claim == ClaimedGroups(t)
           net == RowsOf(claim)
           done == [LineOf(t.id) EXCEPT !.status = "closed", !.net = net, !.size = Cardinality(net),
                                        !.entry = IF IsLadder(t) THEN @ ELSE MeanEntry(net)]
           kept == IF ReadsClosed(t, net) THEN journal ELSE Rewrite(journal, done)
<1>1. t \in Line
  BY NextLineIs DEF PrePassFlat
<1>2. /\ ReadsClosed(t, net) \/ HasLine(t.id)
      /\ journal' = Without(kept, ChildId(t.id))
      /\ Engaged(t) /\ ClaimedPosition(t) = {}
  BY DEF PrePassFlat
<1>3. claim # {}
  BY <1>2 DEF Engaged
<1> HIDE DEF t
<1>4. \A x \in net : PairOf[x.trade] = t.id.pair
  BY ClaimOnPair
<1>5. claim \in SUBSET Groups(rows)
  BY <1>1, ClaimsAre
<1> HIDE DEF claim
<1>6. net \in SUBSET Exit /\ net # {} /\ IsFiniteSet(net)
  BY <1>3, <1>5, RowsFinite, RowsAre
<1> HIDE DEF net
<1>7. MeanEntry(net) \in Nat /\ Cardinality(net) \in Nat
  BY <1>6, MeanIs
<1>8. kept \in Seq(Line) /\ Differs(journal, kept, t.id.pair)
  <2>1. CASE ReadsClosed(t, net)
    BY <2>1, DiffersNot DEF RecInv, FileHolds
  <2>2. CASE ~ ReadsClosed(t, net)
    <3>1. LineOf(t.id) \in Line /\ LineOf(t.id).id = t.id
      BY <1>2, <2>2, LineOfIs DEF RecInv, FileHolds
    <3>2. done \in Line /\ done.id = t.id /\ done.net = net
      BY <1>6, <1>7, <3>1 DEF Line
    <3> HIDE DEF done
    <3>3. NetFits(done)
      BY <1>4, <3>2 DEF NetFits
    <3>4. Differs(journal, Rewrite(journal, done), done.id.pair)
      BY <3>3, DiffersRewrite
    <3> QED BY <2>2, <3>2, <3>4, RewriteKeeps DEF RecInv, FileHolds
  <2> QED BY <2>1, <2>2
<1> HIDE DEF kept
<1>9. Differs(kept, Without(kept, ChildId(t.id)), ChildId(t.id).pair)
  BY <1>8, DiffersWithout
<1> QED BY <1>1, <1>2, <1>8, <1>9, ChildPair, DiffersTwice DEF t

\* A line of the file rewritten with the exits it had, or with rows of its pair.
LEMMA SetTouches ==
  ASSUME RecInv, NetsOnPair, NEW id, HasLine(id), NEW new, new.id = id,
         NetFits(new) \/ new.net = LineOf(id).net, journal' \in {journal, Rewrite(journal, new)}
  PROVE  Differs(journal, journal', id.pair)
<1>1. NetFits(new)
  BY LineOfHere DEF NetsOnPair, NetFits
<1> QED BY <1>1, DiffersRewrite, DiffersNot

LEMMA MainOpensTouches ==
  ASSUME RecInv, NetsOnPair, MainOpens
  PROVE  Differs(journal, journal', Head(lines).id.pair)
<1> DEFINE t == Head(lines)
           new(p) == [Opened(t, p) EXCEPT !.entry = p.entry]
<1>1. t \in Line /\ HasLine(t.id)
  BY NextLineIs DEF MainOpens, Matches
<1>2. PICK p \in FreePositions(t) : journal' = IF ReadsOpen(t, p) THEN journal ELSE Rewrite(journal, new(p))
  BY DEF MainOpens
<1> HIDE DEF t
<1>3. LineOf(t.id) \in Line /\ LineOf(t.id).id = t.id
  BY <1>1, LineOfIs DEF RecInv, FileHolds
<1>4. new(p).id = t.id /\ new(p).net = LineOf(t.id).net
  BY <1>3 DEF Opened, Line
<1> HIDE DEF new
<1> QED BY <1>1, <1>2, <1>4, SetTouches DEF t

LEMMA MainClosesTouches ==
  ASSUME RecInv, NetsOnPair, MainCloses
  PROVE  Differs(journal, journal', Head(lines).id.pair)
<1> DEFINE t == Head(lines)
           new(g) == [LineOf(t.id) EXCEPT !.status = "closed", !.entry = g.entry,
                                          !.net = g.rows, !.size = Cardinality(g.rows)]
<1>1. t \in Line /\ HasLine(t.id)
  BY NextLineIs DEF MainCloses, Matches
<1>2. PICK g \in FreeGroups(t) : journal' = IF ReadsClosed(t, g.rows) THEN journal ELSE Rewrite(journal, new(g))
  BY DEF MainCloses
<1> HIDE DEF t
<1>3. LineOf(t.id) \in Line /\ LineOf(t.id).id = t.id
  BY <1>1, LineOfIs DEF RecInv, FileHolds
<1>4. g \in Groups(rows) /\ g.pair = t.id.pair
  BY DEF FreeGroups
<1>5. new(g).id = t.id /\ new(g).net = g.rows
  BY <1>3 DEF Line
<1> HIDE DEF new
<1>6. NetFits(new(g))
  BY <1>4, <1>5, GroupOnPair DEF NetFits
<1> QED BY <1>1, <1>2, <1>5, <1>6, SetTouches DEF t

LEMMA MainCancelsTouches ==
  ASSUME RecInv, NetsOnPair, MainCancels
  PROVE  Differs(journal, journal', Head(lines).id.pair)
<1> DEFINE t == Head(lines)
           new == [LineOf(t.id) EXCEPT !.status = "cancelled"]
<1>1. t \in Line /\ HasLine(t.id)
  BY NextLineIs DEF MainCancels, Matches
<1>2. journal' \in {journal, Rewrite(journal, new)}
  BY DEF MainCancels
<1> HIDE DEF t
<1>3. LineOf(t.id) \in Line /\ LineOf(t.id).id = t.id
  BY <1>1, LineOfIs DEF RecInv, FileHolds
<1>4. new.id = t.id /\ new.net = LineOf(t.id).net
  BY <1>3 DEF Line
<1> HIDE DEF new
<1> QED BY <1>1, <1>2, <1>4, SetTouches DEF t

\* The line of a group or of a position that nobody claimed.
LEMMA OrphanGroupTouches ==
  ASSUME RecInv, NEW g \in Groups(rows),
         journal' = IF HasLine(OrphanLine(g).id) THEN journal ELSE Append(journal, OrphanLine(g))
  PROVE  Differs(journal, journal', g.pair)
<1>1. OrphanLine(g) \in Line
  BY RowsFinite, OrphanLineIs
<1>2. OrphanLine(g).net = g.rows /\ OrphanLine(g).id.pair = g.pair
  BY DEF OrphanLine
<1>3. NetFits(OrphanLine(g))
  BY <1>2, GroupOnPair DEF NetFits
<1>4. Differs(journal, Append(journal, OrphanLine(g)), g.pair)
  BY <1>1, <1>2, <1>3, DiffersAppend DEF RecInv, FileHolds
<1> QED BY <1>4, DiffersNot

OpenId(p) == [kind |-> "open", pair |-> p.pair, n |-> Rounded(p.entry), last |-> 0, depth |-> 0]
OpenLine(p) == [id |-> OpenId(p), status |-> "open", entry |-> p.entry, day |-> day, net |-> {}, size |-> p.size]

LEMMA OrphanPositionTouches ==
  ASSUME RecInv, NEW p \in positions,
         journal' = IF HasLine(OpenId(p)) THEN journal ELSE Append(journal, OpenLine(p))
  PROVE  Differs(journal, journal', p.pair)
<1>1. p.pair \in Pairs /\ p.entry \in Nat /\ p.size \in Nat /\ day \in Nat
  BY DEF RecInv, PassHolds, MarketHolds
<1>2. Rounded(p.entry) \in Nat
  BY <1>1 DEF Rounded
<1>3. OpenId(p) \in Id
  BY <1>1, <1>2 DEF OpenId, Id
<1>4. OpenLine(p) \in Line
  BY <1>1, <1>3 DEF OpenLine, Line
<1>5. OpenLine(p).id.pair = p.pair /\ NetFits(OpenLine(p))
  BY DEF OpenLine, OpenId, NetFits
<1>6. Differs(journal, Append(journal, OpenLine(p)), p.pair)
  BY <1>4, <1>5, DiffersAppend DEF RecInv, FileHolds
<1> QED BY <1>6, DiffersNot

LEMMA NetsNext == RecInv /\ NetsOnPair /\ [Next]_vars => NetsOnPair'
<1> SUFFICES ASSUME RecInv, NetsOnPair, [Next]_vars PROVE NetsOnPair'
  OBVIOUS
<1>1. CASE journal' = journal
  BY <1>1 DEF NetsOnPair, LinesOf
<1>2. CASE \E pr : Differs(journal, journal', pr)
  BY <1>2, PairKept
<1>3. ASSUME NEW n \in Trades, Log(n) PROVE \E pr : Differs(journal, journal', pr)
  BY <1>3, LogTouches
<1>4. ASSUME NEW i \in DOMAIN journal, SyncLine(journal[i]) PROVE \E pr : Differs(journal, journal', pr)
  BY <1>4, SyncTouches
<1>5. OrphanGroup => \E pr : Differs(journal, journal', pr)
  BY OrphanGroupTouches DEF OrphanGroup
<1>6. OrphanPosition => \E pr : Differs(journal, journal', pr)
  BY OrphanPositionTouches DEF OrphanPosition, OpenId, OpenLine
<1>7. ASSUME NEW n \in Trades, \/ Place(n) \/ Fill(n) \/ ScaleIn(n) \/ ExitUnit(n)
                               \/ FillSecond(n) \/ Withdraw(n) \/ \E m \in Trades : Merge(n, m)
      PROVE  journal' = journal
  BY <1>7 DEF Place, Fill, ScaleIn, ExitUnit, FillSecond, Withdraw, Merge
<1>8. NextDay \/ Dies \/ (\E x \in visible : Forget(x)) => journal' = journal
  BY DEF NextDay, Dies, Forget
<1>9. FetchRows \/ FetchPositions \/ FetchOrders \/ PrePassNothing \/ StartScaleOut \/ StartMainLoop
        \/ MainSkips \/ EndPass => journal' = journal
  BY DEF FetchRows, FetchPositions, FetchOrders, PrePassNothing, StartScaleOut, StartMainLoop, MainSkips, EndPass
<1>10. UNCHANGED vars => journal' = journal
  BY DEF vars
<1>11. PrePassOpen \/ PrePassFlat \/ MainOpens \/ MainCloses \/ MainCancels
         => \E pr : Differs(journal, journal', pr)
  BY PrePassOpenTouches, PrePassFlatTouches, MainOpensTouches, MainClosesTouches, MainCancelsTouches
<1> QED BY <1>1, <1>2, <1>3, <1>4, <1>5, <1>6, <1>7, <1>8, <1>9, <1>10, <1>11 DEF Next, PassStep

\* A line counts exits of its own pair only, whatever fails and whoever trades
\* and syncs meanwhile: groups, claims and the rows that sync matches are all
\* taken by symbol and side (reconcile-match.js:160-176, journal.js:1033-1085).
THEOREM NetsStayOnTheirPair == Spec => []NetsOnPair
<1>1. Init => NetsOnPair
  BY DEF Init, NetsOnPair, LinesOf
<1> QED BY <1>1, NetsNext, ReconcileInvariant, PTL DEF Spec

-----------------------------------------------------------------------------
(* A trade alone on its pair                                               *)

\* It is logged, alone on its pair and no ladder, and its average entry price
\* never leaves the tolerances around its level.
Own(n) ==
  /\ n \in Logged /\ n \notin Ladders
  /\ \A m \in Trades : PairOf[m] = PairOf[n] => m = n
  /\ 1000 * AddUp <= 5 * Level[n]
  /\ AddUp < 100 \/ 10000 * AddUp < 15 * Level[n]

\* The lines of its pair.
Of(j, n) == {l \in LinesOf(j) : l.id.pair = PairOf[n]}

Lives == {"none", "resting", "open", "between", "flat", "withdrawn", "shared", "merged"}

\* Its exits, and those the exchange still lists.
Mine(n) == {x \in exits : x.trade = n}
Seen(n) == {x \in visible : x.trade = n}

InReach(n, e) == Level[n] <= e /\ e <= Level[n] + AddUp

\* What its line may say, and its child.
ParentFits(n, l) ==
  /\ life[n] # "none" /\ InReach(n, l.entry)
  /\ l.day <= day /\ \A x \in Mine(n) : l.day <= x.day
  /\ l.net \subseteq Mine(n)
  /\ l.status = "cancelled" => life[n] = "withdrawn"
  /\ l.status \in {"open", "closed"} => life[n] \in {"open", "flat"}
  /\ l.status = "closed" => Mine(n) # {}

ChildFits(n, l) == l.status = "closed" /\ l.net \subseteq Mine(n) /\ life[n] \in {"open", "flat"}

\* Its line counts all its exits that are listed, or one of those is not counted.
Settled(n) == \E l \in Of(journal, n) : l.id = TradeId(n) /\ l.status = "closed" /\ Seen(n) \subseteq l.net
Missed(n) == \E y \in Seen(n) : \A l \in Of(journal, n) : l.status = "closed" => y \notin l.net

ExchangeFits(n) ==
  /\ life[n] \notin {"between", "shared", "merged"} /\ InReach(n, avg[n])
  /\ \A x \in Mine(n) : InReach(n, x.entry) /\ x.day <= day
  /\ Mine(n) # {} => life[n] \in {"open", "flat"}
  /\ life[n] = "flat" => Mine(n) # {}

\* Only lines of its own are on its pair, and what it counts once it is flat
\* is what the exchange lists of it, unless a pass has still to find a row.
FileFits(n) ==
  /\ \A l \in Of(journal, n) : (l.id = TradeId(n) /\ ParentFits(n, l)) \/ (l.id = Part(n) /\ ChildFits(n, l))
  /\ ParentFirst(journal, n)
  /\ life[n] = "flat" => Settled(n) \/ Missed(n)
  /\ ~ Names(journal, TradeId(n)) => \A x \in Mine(n) : x.day = day

\* Its line reads as the trade is.
AsOnExchange(n) ==
  \A l \in Of(journal, n) : l.id = TradeId(n) =>
    /\ life[n] = "resting" => l.status = "pending"
    /\ life[n] = "open" => /\ l.status = "open" /\ l.size = left[n]
                           /\ Seen(n) # {} => \E c \in Of(journal, n) : c.id = Part(n) /\ c.net = Seen(n)
    /\ life[n] = "flat" => /\ l.status = "closed" /\ (Seen(n) # {} => l.net = Seen(n))
                           /\ (\E x, y \in Seen(n) : x.entry # y.entry) =>
                                \A c \in Of(journal, n) : c.id # Part(n)
    /\ life[n] = "withdrawn" => l.status = "cancelled"

\* What a pass has fetched of it, and whether that shows a scale-out.
GroupsOf(n) == {g \in Groups(rows) : g.pair = PairOf[n]}
PositionsOf(n) == {p \in positions : p.pair = PairOf[n]}
ScaledOut(n) == GroupsOf(n) # {} /\ (PositionsOf(n) # {} \/ \E g, h \in GroupsOf(n) : g # h)

Untouched(n) ==
  GroupsOf(n) \cap usedG = {} /\ PositionsOf(n) \cap usedP = {} /\ TradeId(n) \notin handled
AllClaimed(n) == GroupsOf(n) \subseteq usedG /\ PositionsOf(n) \subseteq usedP

\* After the pre-pass, and after the main loop.
PrePassed(n) ==
  IF ScaledOut(n) THEN AllClaimed(n) /\ TradeId(n) \in handled /\ AsOnExchange(n) ELSE Untouched(n)
Finished(n) == AllClaimed(n) /\ AsOnExchange(n)

\* Its lines among those a loop has still to look at.
LinesFit(n) ==
  /\ Unique(lines)
  /\ \A i, k \in DOMAIN lines : lines[i].id = Part(n) /\ lines[k].id = TradeId(n) => k < i
  /\ \A l \in Of(lines, n) : \/ l.id = TradeId(n) /\ (TradeId(n) \notin handled => l \in LinesOf(journal))
                             \/ l.id = Part(n) /\ l.status = "closed"

\* An undisturbed pass, from one step to the next.
PassFits(n) ==
  /\ pc \in {"idle", "positions", "orders"} => usedG = {} /\ usedP = {} /\ handled = {}
  /\ Part(n) \notin handled
  /\ (pc # "idle" \/ calm # 0) /\ life[n] # "none" => Names(journal, TradeId(n))
  /\ pc # "idle" => rows = visible
  /\ pc \in {"orders", "ladder", "scaleout", "main"} =>
       PositionsOf(n) = IF life[n] = "open" THEN {[pair |-> PairOf[n], entry |-> avg[n], size |-> left[n]]} ELSE {}
  /\ pc \in {"ladder", "scaleout", "main"} =>
       {o \in orders : o.pair = PairOf[n]} = OrdersOf(PairOf[n])
  /\ pc = "ladder" => Of(lines, n) = {} /\ Untouched(n)
  /\ pc \in {"scaleout", "main"} => LinesFit(n)
  /\ pc = "scaleout" => IF Names(lines, TradeId(n)) THEN Untouched(n) ELSE PrePassed(n)
  /\ pc = "main" => IF Names(lines, TradeId(n)) THEN PrePassed(n) ELSE Finished(n)

\* After a pass, and while the next one sees what it saw, the journal is as
\* the exchange.
Quiet(n) == calm = 2 \/ (pc = "idle" /\ calm # 0) => AsOnExchange(n)

OwnInv(n) == ~ raced => ExchangeFits(n) /\ FileFits(n) /\ PassFits(n) /\ Quiet(n)

\* The exits are numbered as they come.
Numbered == \A x \in exits : x.no <= Cardinality(exits)

BaseInv == RecInv /\ NetsOnPair /\ Numbered

-----------------------------------------------------------------------------
(* The market moves                                                        *)

LEMMA OfNamed ==
  ASSUME NEW n \in Trades, NEW j
  PROVE  /\ Names(j, TradeId(n)) <=> \E l \in Of(j, n) : l.id = TradeId(n)
         /\ Names(j, Part(n)) <=> \E l \in Of(j, n) : l.id = Part(n)
<1>1. TradeId(n).pair = PairOf[n] /\ Part(n).pair = PairOf[n]
  BY IdsDiffer
<1> QED BY <1>1, NamesIs DEF Of

\* Between two passes, any move forgets what the last one saw.
LEMMA IdleMoves ==
  ASSUME NEW n, OwnInv(n), ~ raced, pc = "idle", UNCHANGED pass, calm' = 0
  PROVE  PassFits(n)' /\ Quiet(n)'
<1>1. PassFits(n)
  BY DEF OwnInv
<1> QED BY <1>1 DEF PassFits, Quiet, pass

\* What others do leaves the trade as it is.
LEMMA TradeUntouched ==
  ASSUME NEW n \in Trades, ExchangeFits(n), FileFits(n), life'[n] = life[n], avg'[n] = avg[n],
         Mine(n)' = Mine(n), Seen(n)' = Seen(n), day' = day,
         Of(journal', n) = Of(journal, n), ParentFirst(journal', n)
  PROVE  ExchangeFits(n)' /\ FileFits(n)'
<1>1. ExchangeFits(n)'
  BY DEF ExchangeFits
<1>2. Settled(n)' = Settled(n) /\ Missed(n)' = Missed(n)
  BY DEF Settled, Missed
<1>3. Names(journal', TradeId(n)) <=> Names(journal, TradeId(n))
  BY OfNamed
<1>4. \A l : (ParentFits(n, l)' <=> ParentFits(n, l)) /\ (ChildFits(n, l)' <=> ChildFits(n, l))
  BY DEF ParentFits, ChildFits
<1> QED BY <1>1, <1>2, <1>3, <1>4 DEF FileFits

\* A move of the market or another process, when no pass was disturbed: it
\* comes between two passes.
LEMMA MovesAtIdle == ASSUME Moves, ~ raced' PROVE ~ raced /\ pc = "idle" /\ calm' = 0
BY DEF Moves

LEMMA PlaceOwn ==
  ASSUME NEW n \in Trades, Own(n), BaseInv, OwnInv(n), NEW m \in Trades, Place(m) PROVE OwnInv(n)'
<1> SUFFICES ASSUME ~ raced' PROVE ExchangeFits(n)' /\ FileFits(n)' /\ PassFits(n)' /\ Quiet(n)'
  BY DEF OwnInv
<1>1. ~ raced /\ pc = "idle" /\ calm' = 0
  BY MovesAtIdle DEF Place
<1>2. PassFits(n)' /\ Quiet(n)'
  BY <1>1, IdleMoves DEF Place
<1>3. ExchangeFits(n) /\ FileFits(n) /\ PassFits(n)
  BY <1>1 DEF OwnInv
<1>4. UNCHANGED <<avg, left, exits, visible, day, journal>> /\ life \in [Trades -> Lives]
  BY DEF Place, BaseInv, RecInv, MarketHolds, Lives
<1>5. CASE m # n
  <2>1. life'[n] = life[n]
    BY <1>4, <1>5 DEF Place
  <2> QED BY <1>2, <1>3, <1>4, <2>1, TradeUntouched DEF Mine, Seen, FileFits
<1>6. CASE m = n
  <2>1. life[n] = "none" /\ life'[n] = "resting"
    BY <1>4, <1>6 DEF Place
  <2>2. Mine(n)' = Mine(n) /\ Seen(n)' = Seen(n) /\ Mine(n) = {}
    BY <1>3, <1>4, <2>1 DEF Mine, Seen, ExchangeFits
  <2>3. Of(journal, n) = {} /\ Of(journal', n) = {}
    BY <1>3, <1>4, <2>1 DEF FileFits, ParentFits, ChildFits
  <2>4. ExchangeFits(n)'
    BY <1>3, <1>4, <2>1, <2>2 DEF ExchangeFits
  <2>5. FileFits(n)'
    BY <1>3, <1>4, <2>1, <2>2, <2>3 DEF FileFits
  <2> QED BY <1>2, <2>4, <2>5
<1> QED BY <1>5, <1>6

LEMMA FillOwn ==
  ASSUME NEW n \in Trades, Own(n), BaseInv, OwnInv(n), NEW m \in Trades, Fill(m) \/ Withdraw(m)
  PROVE  OwnInv(n)'
<1> SUFFICES ASSUME ~ raced' PROVE ExchangeFits(n)' /\ FileFits(n)' /\ PassFits(n)' /\ Quiet(n)'
  BY DEF OwnInv
<1>1. ~ raced /\ pc = "idle" /\ calm' = 0
  BY MovesAtIdle DEF Fill, Withdraw
<1>2. PassFits(n)' /\ Quiet(n)'
  BY <1>1, IdleMoves DEF Fill, Withdraw
<1>3. ExchangeFits(n) /\ FileFits(n) /\ PassFits(n)
  BY <1>1 DEF OwnInv
<1>4. UNCHANGED <<avg, exits, visible, day, journal>> /\ life \in [Trades -> Lives]
  BY DEF Fill, Withdraw, BaseInv, RecInv, MarketHolds, Lives
<1>5. CASE m # n
  <2>1. life'[n] = life[n]
    BY <1>4, <1>5 DEF Fill, Withdraw
  <2> QED BY <1>2, <1>3, <1>4, <2>1, TradeUntouched DEF Mine, Seen, FileFits
<1>6. CASE m = n
  <2>1. life[n] = "resting" /\ life'[n] \in {"open", "withdrawn"}
    BY <1>4, <1>6 DEF Fill, Withdraw
  <2>2. Mine(n)' = Mine(n) /\ Seen(n)' = Seen(n) /\ Mine(n) = {}
    BY <1>3, <1>4, <2>1 DEF Mine, Seen, ExchangeFits
  <2>3. ExchangeFits(n)'
    BY <1>3, <1>4, <2>1, <2>2 DEF ExchangeFits
  <2>4. \A l \in Of(journal, n) : l.id = TradeId(n) /\ ParentFits(n, l)'
    BY <1>3, <1>4, <2>1, <2>2 DEF FileFits, ParentFits, ChildFits
  <2>5. Of(journal', n) = Of(journal, n)
    BY <1>4
  <2>6. FileFits(n)'
    BY <1>3, <1>4, <2>1, <2>2, <2>4, <2>5 DEF FileFits
  <2> QED BY <1>2, <2>3, <2>6
<1> QED BY <1>5, <1>6

LEMMA ScaleInOwn ==
  ASSUME NEW n \in Trades, Own(n), BaseInv, OwnInv(n), NEW m \in Trades, ScaleIn(m) \/ FillSecond(m)
  PROVE  OwnInv(n)'
<1> SUFFICES ASSUME ~ raced' PROVE ExchangeFits(n)' /\ FileFits(n)' /\ PassFits(n)' /\ Quiet(n)'
  BY DEF OwnInv
<1>1. ~ raced /\ pc = "idle" /\ calm' = 0
  BY MovesAtIdle DEF ScaleIn, FillSecond
<1>2. PassFits(n)' /\ Quiet(n)'
  BY <1>1, IdleMoves DEF ScaleIn, FillSecond
<1>3. ExchangeFits(n) /\ FileFits(n) /\ PassFits(n)
  BY <1>1 DEF OwnInv
<1>4. /\ UNCHANGED <<exits, visible, day, journal>> /\ life \in [Trades -> Lives]
      /\ avg \in [Trades -> Nat] /\ AddUp \in Nat /\ Level[n] \in Nat
  BY ConstantsAssumption DEF ScaleIn, FillSecond, BaseInv, RecInv, MarketHolds, Lives
<1>5. CASE m # n
  <2>1. life'[n] = life[n] /\ avg'[n] = avg[n]
    BY <1>4, <1>5 DEF ScaleIn, FillSecond
  <2> QED BY <1>2, <1>3, <1>4, <2>1, TradeUntouched DEF Mine, Seen, FileFits
<1>6. CASE m = n
  <2>1. life[n] = "open" /\ life'[n] = "open" /\ avg[n] = Level[n] /\ avg'[n] = avg[n] + AddUp
    BY <1>3, <1>4, <1>6 DEF ScaleIn, FillSecond, SecondToFill, ExchangeFits
  <2>2. Mine(n)' = Mine(n) /\ Seen(n)' = Seen(n)
    BY <1>4 DEF Mine, Seen
  <2>3. InReach(n, avg'[n])
    BY <1>4, <2>1 DEF InReach
  <2>4. ExchangeFits(n)'
    BY <1>3, <1>4, <2>1, <2>2, <2>3 DEF ExchangeFits
  <2>5. \A l : (ParentFits(n, l)' <=> ParentFits(n, l)) /\ (ChildFits(n, l)' <=> ChildFits(n, l))
    BY <1>4, <2>1, <2>2 DEF ParentFits, ChildFits
  <2>6. FileFits(n)'
    BY <1>3, <1>4, <2>1, <2>2, <2>5 DEF FileFits
  <2> QED BY <1>2, <2>4, <2>6
<1> QED BY <1>5, <1>6

\* Two prices in the reach of such a trade match, in either direction.
LEMMA Close ==
  ASSUME NEW n \in Trades, Own(n), NEW e \in Nat, NEW r \in Nat, InReach(n, e), InReach(n, r)
  PROVE  Near(e, r) /\ MatchPx(e, r)
<1>1. Level[n] \in Nat /\ AddUp \in Nat
  BY ConstantsAssumption
<1>2. Distance(e, r) \in Nat /\ Distance(e, r) <= AddUp
  BY <1>1 DEF Distance, InReach
<1>3. Level[n] <= r
  BY DEF InReach
<1> DEFINE d == Distance(e, r)
<1>4. Near(e, r)
  <2>1. 1000 * AddUp <= 5 * Level[n]
    BY DEF Own
  <2> HIDE DEF d
  <2>2. 1000 * d <= 5 * r
    BY <1>1, <1>2, <1>3, <2>1 DEF d
  <2> QED BY <2>2 DEF Near, d
<1>5. MatchPx(e, r)
  <2>1. AddUp < 100 \/ 10000 * AddUp < 15 * Level[n]
    BY DEF Own
  <2> HIDE DEF d
  <2>2. d < 100 \/ 10000 * d < 15 * r
    BY <1>1, <1>2, <1>3, <2>1 DEF d
  <2> QED BY <2>2 DEF MatchPx, d
<1> QED BY <1>4, <1>5

LEMMA OfKept ==
  ASSUME NEW n \in Trades, NEW j, NEW k, NEW pr, Differs(j, k, pr), pr # PairOf[n], ParentFirst(j, n)
  PROVE  Of(k, n) = Of(j, n) /\ ParentFirst(k, n)
<1>1. ParentFirst(k, n)
  BY DEF Differs
<1>2. \A l \in Of(k, n) : l \in Of(j, n)
  BY DEF Differs, Of
<1>3. \A l \in Of(j, n) : l \in Of(k, n)
  BY DEF Differs, Of
<1> QED BY <1>1, <1>2, <1>3 DEF Of

LEMMA ExitNew ==
  ASSUME Numbered, IsFiniteSet(exits), NEW x, x.no = Cardinality(exits) + 1
  PROVE  x \notin exits
<1>1. Cardinality(exits) \in Nat
  BY FS_CardinalityType
<1> QED BY <1>1 DEF Numbered

LEMMA ExitUnitOwn ==
  ASSUME NEW n \in Trades, Own(n), BaseInv, OwnInv(n), NEW m \in Trades, ExitUnit(m) PROVE OwnInv(n)'
<1> DEFINE x == [no |-> Cardinality(exits) + 1, trade |-> m, entry |-> avg[m], day |-> day]
<1> SUFFICES ASSUME ~ raced' PROVE ExchangeFits(n)' /\ FileFits(n)' /\ PassFits(n)' /\ Quiet(n)'
  BY DEF OwnInv
<1>1. ~ raced /\ pc = "idle" /\ calm' = 0
  BY MovesAtIdle DEF ExitUnit
<1>2. PassFits(n)' /\ Quiet(n)'
  BY <1>1, IdleMoves DEF ExitUnit
<1>3. ExchangeFits(n) /\ FileFits(n) /\ PassFits(n)
  BY <1>1 DEF OwnInv
<1>4. /\ UNCHANGED <<avg, day, journal>> /\ life \in [Trades -> Lives]
      /\ exits' = exits \cup {x} /\ visible' = visible \cup {x}
      /\ IsFiniteSet(exits) /\ day \in Nat
  BY DEF ExitUnit, BaseInv, RecInv, MarketHolds, Lives
<1>5. x.no = Cardinality(exits) + 1 /\ x.trade = m /\ x.entry = avg[m] /\ x.day = day
  OBVIOUS
<1>6. /\ Holds(m)
      /\ life' = life \/ \E end \in Ends(m) : life' = [life EXCEPT ![m] = end]
  BY DEF ExitUnit
<1> HIDE DEF x
<1>7. CASE m # n
  <2>1. life'[n] = life[n]
    BY <1>4, <1>6, <1>7
  <2>2. Mine(n)' = Mine(n) /\ Seen(n)' = Seen(n)
    BY <1>4, <1>5, <1>7 DEF Mine, Seen
  <2> QED BY <1>2, <1>3, <1>4, <2>1, <2>2, TradeUntouched DEF FileFits
<1>8. CASE m = n
  <2>0. life[n] = "open"
    BY <1>3, <1>6, <1>8 DEF Holds, ExchangeFits
  <2>1. life[n] = "open" /\ life'[n] \in {"open", "flat"}
    BY <1>4, <1>6, <1>8, <2>0 DEF Own, Ends
  <2>2. Mine(n)' = Mine(n) \cup {x} /\ Seen(n)' = Seen(n) \cup {x} /\ x \notin Mine(n)
    BY <1>4, <1>5, <1>8, ExitNew DEF Mine, Seen, BaseInv
  <2>4. ExchangeFits(n)'
    <3>1. InReach(n, avg[n]) /\ \A y \in Mine(n) : InReach(n, y.entry) /\ y.day <= day
      BY <1>3 DEF ExchangeFits
    <3>2. \A y \in Mine(n)' : InReach(n, y.entry) /\ y.day <= day
      BY <1>4, <1>5, <1>8, <2>2, <3>1
    <3> QED BY <1>4, <2>1, <2>2, <3>1, <3>2 DEF ExchangeFits
  <2>5. Of(journal', n) = Of(journal, n) /\ \A l \in Of(journal, n) : x \notin l.net
    BY <1>3, <1>4, <2>2 DEF FileFits, ParentFits, ChildFits
  <2>6. Missed(n)'
    BY <2>2, <2>5 DEF Missed
  <2>7. \A l : ParentFits(n, l) => ParentFits(n, l)'
    BY <1>4, <1>5, <2>1, <2>2 DEF ParentFits
  <2>8. \A l : ChildFits(n, l) => ChildFits(n, l)'
    BY <2>1, <2>2 DEF ChildFits
  <2>9. ~ Names(journal', TradeId(n)) => \A y \in Mine(n)' : y.day = day'
    BY <1>3, <1>4, <1>5, <2>2 DEF FileFits
  <2>10. FileFits(n)'
    BY <1>3, <1>4, <2>2, <2>5, <2>6, <2>7, <2>8, <2>9 DEF FileFits
  <2> QED BY <1>2, <2>4, <2>10
<1> QED BY <1>7, <1>8

\* No other trade fills into its position, nor it into another's.
LEMMA MergeOwn ==
  ASSUME NEW n \in Trades, Own(n), BaseInv, OwnInv(n), NEW m \in Trades, NEW k \in Trades, Merge(m, k)
  PROVE  OwnInv(n)'
<1> SUFFICES ASSUME ~ raced' PROVE ExchangeFits(n)' /\ FileFits(n)' /\ PassFits(n)' /\ Quiet(n)'
  BY DEF OwnInv
<1>1. ~ raced /\ pc = "idle" /\ calm' = 0
  BY MovesAtIdle DEF Merge
<1>2. PassFits(n)' /\ Quiet(n)'
  BY <1>1, IdleMoves DEF Merge
<1>3. ExchangeFits(n) /\ FileFits(n) /\ PassFits(n)
  BY <1>1 DEF OwnInv
<1>4. m # n /\ k # n
  BY DEF Merge, Own
<1>5. UNCHANGED <<exits, visible, day, journal>> /\ life'[n] = life[n] /\ avg'[n] = avg[n]
  BY <1>4 DEF Merge, BaseInv, RecInv, MarketHolds
<1> QED BY <1>2, <1>3, <1>5, TradeUntouched DEF Mine, Seen, FileFits

\* Until it is logged, no line is of the trade, nor of its exits.
LEMMA LogOwn ==
  ASSUME NEW n \in Trades, Own(n), BaseInv, OwnInv(n), NEW m \in Trades, Log(m) PROVE OwnInv(n)'
<1> SUFFICES ASSUME ~ raced' PROVE ExchangeFits(n)' /\ FileFits(n)' /\ PassFits(n)' /\ Quiet(n)'
  BY DEF OwnInv
<1>1. ~ raced /\ pc = "idle" /\ calm' = 0
  BY MovesAtIdle DEF Log
<1>2. PassFits(n)' /\ Quiet(n)'
  BY <1>1, IdleMoves DEF Log
<1>3. ExchangeFits(n) /\ FileFits(n) /\ PassFits(n)
  BY <1>1 DEF OwnInv
<1>4. UNCHANGED exchange /\ UNCHANGED <<life, avg, left, legs, exits, visible, day>> /\ day \in Nat
  BY DEF Log, exchange, BaseInv, RecInv, MarketHolds
<1>5. Mine(n)' = Mine(n) /\ Seen(n)' = Seen(n)
  BY <1>4 DEF Mine, Seen
<1>6. CASE m # n
  <2>1. PairOf[m] # PairOf[n]
    BY <1>6 DEF Own
  <2>2. Differs(journal, journal', PairOf[m])
    BY LogTouches DEF BaseInv
  <2>3. Of(journal', n) = Of(journal, n) /\ ParentFirst(journal', n)
    BY <1>3, <2>1, <2>2, OfKept DEF FileFits
  <2> QED BY <1>2, <1>3, <1>4, <1>5, <2>3, TradeUntouched
<1>7. CASE m = n
  <2>0. PICK new : new = [id |-> TradeId(n), status |-> "pending", entry |-> Level[n], day |-> day,
                          net |-> {}, size |-> Units]
    OBVIOUS
  <2>1. journal' = Append(journal, new) /\ life[n] # "none" /\ ~ Names(journal, TradeId(n))
    BY <1>7, <2>0, HasIsNames DEF Log
  <2>2. journal \in Seq(Line) /\ new \in Line
    BY <1>4, <2>0, IdsDiffer, ConstantsAssumption DEF Line, BaseInv, RecInv, FileHolds
  <2>3. new.id = TradeId(n) /\ new.status = "pending" /\ new.entry = Level[n] /\ new.day = day /\ new.net = {}
    BY <2>0
  <2>4. ~ Names(journal, Part(n))
    BY <1>3, <2>1 DEF FileFits, ParentFirst, Names
  <2>5. Of(journal, n) = {}
    BY <1>3, <2>1, <2>4, OfNamed DEF FileFits
  <2>6. LinesOf(journal') = LinesOf(journal) \cup {new}
    BY <2>1, <2>2, AppendLines
  <2>7. Of(journal', n) = {new}
    BY <2>3, <2>5, <2>6, IdsDiffer DEF Of
  <2>8. ParentFirst(journal', n)
    BY <1>3, <2>1, <2>2, <2>3, IdsDiffer, AppendOrder DEF FileFits
  <2>9. ParentFits(n, new)'
    <3>1. InReach(n, Level[n])
      BY ConstantsAssumption DEF InReach
    <3>2. \A y \in Mine(n) : y.day = day
      BY <1>3, <2>1 DEF FileFits
    <3> QED BY <1>4, <1>5, <2>1, <2>3, <3>1, <3>2 DEF ParentFits
  <2>10. ~ Settled(n)
    BY <2>5 DEF Settled
  <2>11. Missed(n) => Missed(n)'
    BY <1>5, <2>3, <2>7 DEF Missed
  <2>12. Names(journal', TradeId(n))
    BY <2>3, <2>7, OfNamed
  <2>13. FileFits(n)'
    BY <1>3, <1>4, <1>5, <2>3, <2>7, <2>8, <2>9, <2>10, <2>11, <2>12 DEF FileFits
  <2>14. ExchangeFits(n)'
    BY <1>3, <1>4, <1>5 DEF ExchangeFits
  <2> QED BY <1>2, <2>13, <2>14
<1> QED BY <1>6, <1>7

\* The row that the exchange forgets was counted: it is not the one missed.
LEMMA ForgetOwn ==
  ASSUME NEW n \in Trades, Own(n), BaseInv, OwnInv(n), NEW x \in visible, Forget(x) PROVE OwnInv(n)'
<1> SUFFICES ASSUME ~ raced' PROVE ExchangeFits(n)' /\ FileFits(n)' /\ PassFits(n)' /\ Quiet(n)'
  BY DEF OwnInv
<1>1. ~ raced /\ pc = "idle" /\ calm' = 0 /\ UNCHANGED pass /\ Counted(x)
  BY DEF Forget
<1>2. PassFits(n)' /\ Quiet(n)'
  BY <1>1, IdleMoves
<1>3. ExchangeFits(n) /\ FileFits(n) /\ PassFits(n)
  BY <1>1 DEF OwnInv
<1>4. UNCHANGED <<life, avg, exits, day, journal>> /\ visible' = visible \ {x}
  BY DEF Forget
<1>5. Mine(n)' = Mine(n) /\ Seen(n)' = Seen(n) \ {x}
  BY <1>4 DEF Mine, Seen
<1>6. ASSUME NEW y \in Seen(n), \A l \in Of(journal, n) : l.status = "closed" => y \notin l.net PROVE y # x
  <2> SUFFICES ASSUME y = x PROVE FALSE
    OBVIOUS
  <2>1. PICK i \in DOMAIN journal : journal[i].status = "closed" /\ y \in journal[i].net
    BY <1>1 DEF Counted
  <2>2. journal[i] \in LinesOf(journal)
    BY <2>1 DEF LinesOf
  <2>3. journal[i].id.pair = PairOf[n]
    BY <2>1, <2>2 DEF Seen, BaseInv, NetsOnPair, NetFits
  <2> QED BY <1>6, <2>1, <2>2, <2>3 DEF Of
<1>7. (Settled(n) => Settled(n)') /\ (Missed(n) => Missed(n)')
  BY <1>4, <1>5, <1>6 DEF Settled, Missed
<1>8. ExchangeFits(n)'
  BY <1>3, <1>4, <1>5 DEF ExchangeFits
<1>9. Of(journal', n) = Of(journal, n) /\ \A l : (ParentFits(n, l)' <=> ParentFits(n, l)) /\ (ChildFits(n, l)' <=> ChildFits(n, l))
  BY <1>4, <1>5 DEF ParentFits, ChildFits
<1>10. FileFits(n)'
  BY <1>3, <1>4, <1>5, <1>7, <1>9 DEF FileFits
<1> QED BY <1>2, <1>8, <1>10

LEMMA NextDayOwn ==
  ASSUME NEW n \in Trades, Own(n), BaseInv, OwnInv(n), NextDay PROVE OwnInv(n)'
<1> SUFFICES ASSUME ~ raced' PROVE ExchangeFits(n)' /\ FileFits(n)' /\ PassFits(n)' /\ Quiet(n)'
  BY DEF OwnInv
<1>1. /\ ~ raced /\ pc = "idle" /\ UNCHANGED pass /\ UNCHANGED <<life, avg, left, exits, visible, journal, calm>>
      /\ day' = day + 1 /\ day \in Nat /\ Unlogged = {} /\ exits \subseteq Exit
  BY DEF NextDay, BaseInv, RecInv, MarketHolds
<1>2. ExchangeFits(n) /\ FileFits(n) /\ PassFits(n) /\ Quiet(n)
  BY <1>1 DEF OwnInv
<1>3. Mine(n)' = Mine(n) /\ Seen(n)' = Seen(n) /\ Of(journal', n) = Of(journal, n)
  BY <1>1 DEF Mine, Seen
<1>4. PassFits(n)'
  BY <1>1, <1>2 DEF PassFits, pass
<1>5. Quiet(n)'
  BY <1>1, <1>2, <1>3 DEF Quiet, AsOnExchange, pass
<1>6. ExchangeFits(n)'
  <2>1. \A x \in Mine(n) : x.day \in Nat /\ InReach(n, x.entry) /\ x.day <= day
    BY <1>1, <1>2, ExitIs DEF ExchangeFits, Mine
  <2>2. \A x \in Mine(n) : x.day <= day + 1
    BY <1>1, <2>1
  <2> QED BY <1>1, <1>2, <1>3, <2>1, <2>2 DEF ExchangeFits
<1>7. \A l \in Of(journal, n) : ParentFits(n, l) => ParentFits(n, l)'
  <2>1. \A l \in Of(journal, n) : l.day \in Nat
    BY LinesTyped DEF Of, BaseInv, RecInv, FileHolds, Line
  <2>2. ASSUME NEW l \in Of(journal, n), ParentFits(n, l) PROVE ParentFits(n, l)'
    <3>1. l.day <= day'
      BY <1>1, <2>1, <2>2 DEF ParentFits
    <3> QED BY <1>1, <1>3, <2>2, <3>1 DEF ParentFits
  <2> QED BY <2>2
<1>8. \A l : ChildFits(n, l) => ChildFits(n, l)'
  BY <1>1, <1>3 DEF ChildFits
<1>9. ~ Names(journal, TradeId(n)) => Mine(n) = {}
  <2>1. ~ Names(journal, TradeId(n)) => life[n] = "none"
    BY <1>1, HasIsNames DEF Unlogged, Own
  <2> QED BY <1>2, <2>1 DEF ExchangeFits
<1>10. Settled(n)' = Settled(n) /\ Missed(n)' = Missed(n)
  BY <1>3 DEF Settled, Missed
<1>11. FileFits(n)'
  BY <1>1, <1>2, <1>3, <1>7, <1>8, <1>9, <1>10 DEF FileFits
<1> QED BY <1>4, <1>5, <1>6, <1>11

\* A row is of the trade when it is of its pair, and its price is in reach.
LEMMA RowIs ==
  ASSUME NEW n \in Trades, Own(n), BaseInv, NEW x \in exits
  PROVE  x \in Exit /\ x.entry \in Nat /\ x.day \in Nat /\ x.trade \in Trades
         /\ (PairOf[x.trade] = PairOf[n] <=> x.trade = n)
<1>1. x \in Exit
  BY DEF BaseInv, RecInv, MarketHolds
<1> QED BY <1>1, ExitIs DEF Own

\* What sync gives a line of the trade is what the exchange lists of it.
LEMMA SyncRowsAre ==
  ASSUME NEW n \in Trades, Own(n), BaseInv, ExchangeFits(n), NEW t \in Line,
         t.id = TradeId(n), ParentFits(n, t)
  PROVE  SyncRows(t) = Seen(n)
<1>1. t.id.pair = PairOf[n] /\ t.entry \in Nat /\ InReach(n, t.entry) /\ visible \subseteq exits
  BY IdsDiffer DEF Line, ParentFits, BaseInv, RecInv, MarketHolds
<1>2. ASSUME NEW x \in Seen(n) PROVE x \in SyncRows(t)
  <2>1. x \in Mine(n) /\ x \in visible /\ x.trade = n
    BY <1>1 DEF Seen, Mine
  <2>2. x.entry \in Nat /\ InReach(n, x.entry) /\ t.day <= x.day
    BY <2>1, RowIs DEF Mine, ExchangeFits, ParentFits
  <2>3. Near(x.entry, t.entry)
    BY <1>1, <2>2, Close
  <2>4. x.day >= t.day
    BY <2>1, <2>2, RowIs DEF Mine, Line
  <2> QED BY <1>1, <2>1, <2>3, <2>4 DEF SyncRows
<1>3. ASSUME NEW x \in SyncRows(t) PROVE x \in Seen(n)
  BY <1>1, RowIs DEF SyncRows, Seen
<1> QED BY <1>2, <1>3

\* The lines of the trade once its own line is rewritten.
LEMMA OfRewrite ==
  ASSUME NEW n \in Trades, NEW new, new.id = TradeId(n), Names(journal, TradeId(n)),
         journal' = Rewrite(journal, new)
  PROVE  Of(journal', n) = {l \in Of(journal, n) : l.id # TradeId(n)} \cup {new}
<1>1. LinesOf(journal') = {l \in LinesOf(journal) : l.id # TradeId(n)} \cup {new}
  BY RewriteLines
<1> QED BY <1>1, IdsDiffer DEF Of

LEMMA SeenIsMine == ASSUME BaseInv, NEW n PROVE Seen(n) \subseteq Mine(n)
BY DEF Seen, Mine, BaseInv, RecInv, MarketHolds

\* The mean of what the exchange lists of it is in reach, as each of its exits.
LEMMA MeanInReach ==
  ASSUME NEW n \in Trades, Own(n), BaseInv, ExchangeFits(n), Seen(n) # {}
  PROVE  /\ InReach(n, MeanEntry(Seen(n))) /\ MeanEntry(Seen(n)) \in Nat
         /\ Seen(n) \in SUBSET Exit /\ IsFiniteSet(Seen(n)) /\ Cardinality(Seen(n)) \in Nat
<1>1. Seen(n) \in SUBSET Exit /\ IsFiniteSet(Seen(n))
  <2>1. Seen(n) \in SUBSET exits /\ exits \subseteq Exit /\ IsFiniteSet(exits)
    BY DEF Seen, BaseInv, RecInv, MarketHolds
  <2> QED BY <2>1, FS_Subset
<1>2. MeanEntry(Seen(n)) \in Nat /\ Cardinality(Seen(n)) \in Nat
  BY <1>1, MeanIs
<1>3. Level[n] \in Nat /\ Level[n] + AddUp \in Nat
  BY ConstantsAssumption
<1>4. \A x \in Seen(n) : Level[n] <= x.entry /\ x.entry <= Level[n] + AddUp
  BY SeenIsMine DEF ExchangeFits, InReach
<1> QED BY <1>1, <1>2, <1>3, <1>4, MeanBetween DEF InReach

LEMMA SyncOwn ==
  ASSUME NEW n \in Trades, Own(n), BaseInv, OwnInv(n), NEW i \in DOMAIN journal, SyncLine(journal[i])
  PROVE  OwnInv(n)'
<1> SUFFICES ASSUME ~ raced' PROVE ExchangeFits(n)' /\ FileFits(n)' /\ PassFits(n)' /\ Quiet(n)'
  BY DEF OwnInv
<1>1. ~ raced /\ pc = "idle" /\ calm' = 0
  BY MovesAtIdle DEF SyncLine
<1>2. PassFits(n)' /\ Quiet(n)'
  BY <1>1, IdleMoves DEF SyncLine
<1>3. ExchangeFits(n) /\ FileFits(n) /\ PassFits(n)
  BY <1>1 DEF OwnInv
<1>4. UNCHANGED <<life, avg, left, legs, exits, visible, day>>
  BY DEF SyncLine, exchange
<1>5. Mine(n)' = Mine(n) /\ Seen(n)' = Seen(n)
  BY <1>4 DEF Mine, Seen
<1>6. PICK t : t = journal[i]
  OBVIOUS
<1>7. t \in Line /\ t \in LinesOf(journal) /\ SyncLine(t)
  BY <1>6 DEF LinesOf, BaseInv, RecInv, FileHolds
<1>8. CASE t.id.pair # PairOf[n]
  <2>1. Differs(journal, journal', t.id.pair)
    BY <1>6, SyncTouches DEF BaseInv
  <2>2. Of(journal', n) = Of(journal, n) /\ ParentFirst(journal', n)
    BY <1>3, <1>8, <2>1, OfKept DEF FileFits
  <2> QED BY <1>2, <1>3, <1>4, <1>5, <2>2, TradeUntouched
<1>9. CASE t.id.pair = PairOf[n]
  <2>1. t \in Of(journal, n) /\ t.status \in {"open", "pending"} /\ SyncRows(t) # {}
    BY <1>7, <1>9 DEF Of, SyncLine
  <2>2. t.id = TradeId(n) /\ ParentFits(n, t)
    BY <1>3, <2>1 DEF FileFits, ChildFits
  <2>3. SyncRows(t) = Seen(n)
    BY <1>3, <1>7, <2>2, SyncRowsAre
  <2>4. Seen(n) # {} /\ Seen(n) \subseteq Mine(n) /\ Mine(n) # {}
    BY <2>1, <2>3, SeenIsMine
  <2>5. PICK new : new = [t EXCEPT !.status = "closed", !.net = Seen(n), !.entry = MeanEntry(Seen(n))]
    OBVIOUS
  <2>6. journal' = Rewrite(journal, new)
    BY <1>7, <2>3, <2>4, <2>5 DEF SyncLine
  <2>7. new.id = TradeId(n) /\ new.status = "closed" /\ new.net = Seen(n) /\ new.entry = MeanEntry(Seen(n)) /\ new.day = t.day
    BY <1>7, <2>2, <2>5 DEF Line
  <2>8. Names(journal, TradeId(n))
    BY <2>1, <2>2, OfNamed
  <2>9. Of(journal', n) = {l \in Of(journal, n) : l.id # TradeId(n)} \cup {new}
    BY <2>6, <2>7, <2>8, OfRewrite
  <2>10. ParentFits(n, new)'
    <3>1. InReach(n, MeanEntry(Seen(n)))
      BY <1>3, <2>4, MeanInReach
    <3>2. life[n] \in {"open", "flat"}
      BY <1>3, <2>4 DEF ExchangeFits
    <3> QED BY <1>4, <1>5, <2>2, <2>4, <2>7, <3>1, <3>2 DEF ParentFits
  <2>11. \A l : ChildFits(n, l) => ChildFits(n, l)'
    BY <1>4, <1>5 DEF ChildFits
  <2>12. \A l \in Of(journal', n) : (l.id = TradeId(n) /\ ParentFits(n, l)') \/ (l.id = Part(n) /\ ChildFits(n, l)')
    BY <1>3, <2>7, <2>9, <2>10, <2>11 DEF FileFits
  <2>13. Settled(n)'
    BY <1>5, <2>7, <2>9 DEF Settled
  <2>14. ParentFirst(journal', n) /\ Names(journal', TradeId(n))
    BY <1>3, <2>6, <2>7, <2>9, RewriteOrder, OfNamed DEF FileFits
  <2>15. FileFits(n)'
    BY <1>5, <2>4, <2>12, <2>13, <2>14 DEF FileFits
  <2>16. ExchangeFits(n)'
    BY <1>3, <1>4, <1>5 DEF ExchangeFits
  <2> QED BY <1>2, <2>15, <2>16
<1> QED BY <1>8, <1>9

\* Another exchange of the same trade, and the same file.
LEMMA FileSame ==
  ASSUME NEW n \in Trades, ExchangeFits(n), FileFits(n), UNCHANGED exchange, UNCHANGED journal
  PROVE  /\ ExchangeFits(n)' /\ FileFits(n)' /\ Mine(n)' = Mine(n) /\ Seen(n)' = Seen(n)
         /\ (AsOnExchange(n)' <=> AsOnExchange(n))
<1>1. UNCHANGED <<life, avg, left, legs, exits, visible, day>>
  BY DEF exchange
<1>2. Mine(n)' = Mine(n) /\ Seen(n)' = Seen(n)
  BY <1>1 DEF Mine, Seen
<1>3. AsOnExchange(n)' <=> AsOnExchange(n)
  BY <1>1, <1>2 DEF AsOnExchange
<1> QED BY <1>1, <1>2, <1>3, TradeUntouched DEF FileFits

LEMMA DiesOwn ==
  ASSUME NEW n \in Trades, Own(n), BaseInv, OwnInv(n), Dies PROVE OwnInv(n)'
<1> SUFFICES ASSUME ~ raced' PROVE ExchangeFits(n)' /\ FileFits(n)' /\ PassFits(n)' /\ Quiet(n)'
  BY DEF OwnInv
<1>1. ~ raced /\ calm' = 0 /\ Forgets /\ UNCHANGED exchange /\ UNCHANGED journal
  BY DEF Dies
<1>2. ExchangeFits(n) /\ FileFits(n)
  BY <1>1 DEF OwnInv
<1>3. PassFits(n)' /\ Quiet(n)'
  BY <1>1 DEF Forgets, PassFits, Quiet
<1> QED BY <1>1, <1>2, <1>3, FileSame

-----------------------------------------------------------------------------
(* A pass fetches                                                          *)

LEMMA FetchRowsOwn ==
  ASSUME NEW n \in Trades, Own(n), BaseInv, OwnInv(n), FetchRows PROVE OwnInv(n)'
<1> SUFFICES ASSUME ~ raced' PROVE ExchangeFits(n)' /\ FileFits(n)' /\ PassFits(n)' /\ Quiet(n)'
  BY DEF OwnInv
<1>1. /\ ~ raced /\ pc = "idle" /\ pc' = "positions" /\ UNCHANGED exchange /\ UNCHANGED journal
      /\ rows' = visible /\ calm' = (IF calm = 2 THEN 2 ELSE calm + 1) /\ Unlogged = {}
      /\ UNCHANGED <<usedG, usedP, handled, life, visible>> /\ calm \in 0..2
  BY DEF FetchRows, exchange, BaseInv, RecInv, MarketHolds
<1>2. ExchangeFits(n) /\ FileFits(n) /\ PassFits(n) /\ Quiet(n)
  BY <1>1 DEF OwnInv
<1>3. /\ ExchangeFits(n)' /\ FileFits(n)' /\ (AsOnExchange(n)' <=> AsOnExchange(n))
  BY <1>1, <1>2, FileSame
<1>4. life[n] # "none" => Names(journal, TradeId(n))
  BY <1>1, HasIsNames DEF Unlogged, Own
<1>5. usedG = {} /\ usedP = {} /\ handled = {}
  BY <1>1, <1>2 DEF PassFits
<1>6. PassFits(n)'
  BY <1>1, <1>4, <1>5 DEF PassFits
<1>7. Quiet(n)'
  BY <1>1, <1>2, <1>3 DEF Quiet
<1> QED BY <1>3, <1>6, <1>7

LEMMA FetchPositionsOwn ==
  ASSUME NEW n \in Trades, Own(n), BaseInv, OwnInv(n), FetchPositions PROVE OwnInv(n)'
<1> SUFFICES ASSUME ~ raced' PROVE ExchangeFits(n)' /\ FileFits(n)' /\ PassFits(n)' /\ Quiet(n)'
  BY DEF OwnInv
<1>1. /\ ~ raced /\ pc = "positions" /\ pc' = "orders" /\ UNCHANGED exchange /\ UNCHANGED journal
      /\ positions' = {[pair |-> PairOf[m], entry |-> avg[m], size |-> left[m]] : m \in {k \in Trades : Holds(k)}}
      /\ UNCHANGED <<usedG, usedP, handled, life, visible, avg, left, rows, calm>>
  BY DEF FetchPositions, exchange
<1>2. ExchangeFits(n) /\ FileFits(n) /\ PassFits(n) /\ Quiet(n)
  BY <1>1 DEF OwnInv
<1>3. ExchangeFits(n)' /\ FileFits(n)' /\ (AsOnExchange(n)' <=> AsOnExchange(n))
  BY <1>1, <1>2, FileSame
<1>4. PositionsOf(n)' = IF life[n] = "open" THEN {[pair |-> PairOf[n], entry |-> avg[n], size |-> left[n]]} ELSE {}
  <2>1. \A m \in Trades : PairOf[m] = PairOf[n] => m = n
    BY DEF Own
  <2>2. Holds(n) <=> life[n] = "open"
    BY <1>2 DEF Holds, ExchangeFits
  <2> QED BY <1>1, <2>1, <2>2 DEF PositionsOf
<1>5. PassFits(n)'
  BY <1>1, <1>2, <1>4 DEF PassFits
<1>6. Quiet(n)'
  BY <1>1, <1>2, <1>3 DEF Quiet
<1> QED BY <1>3, <1>5, <1>6

LEMMA OrdersOnPair ==
  ASSUME NEW pair, NEW o \in OrdersOf(pair)
  PROVE  o.pair = pair
BY DEF OrdersOf

LEMMA FetchOrdersOwn ==
  ASSUME NEW n \in Trades, Own(n), BaseInv, OwnInv(n), FetchOrders PROVE OwnInv(n)'
<1> SUFFICES ASSUME ~ raced' PROVE ExchangeFits(n)' /\ FileFits(n)' /\ PassFits(n)' /\ Quiet(n)'
  BY DEF OwnInv
<1>1. /\ pc = "orders" /\ pc' = "ladder" /\ UNCHANGED exchange /\ UNCHANGED journal
      /\ lines' = LadderLines(journal)
      /\ UNCHANGED <<usedG, usedP, handled, life, visible, avg, left, legs, rows, positions>>
  BY DEF FetchOrders, exchange
<1>2. PICK failed :
        /\ orders' = {o \in UNION {OrdersOf(pair) : pair \in Pairs} : <<o.pair, o.reduce>> \notin failed}
        /\ calm' = IF failed = {} THEN calm ELSE 0
        /\ raced' = (raced \/ failed # {})
  BY DEF FetchOrders
<1>3. failed = {} /\ ~ raced
  BY <1>2
<1>4. ExchangeFits(n) /\ FileFits(n) /\ PassFits(n) /\ Quiet(n)
  BY <1>3 DEF OwnInv
<1>5. ExchangeFits(n)' /\ FileFits(n)' /\ (AsOnExchange(n)' <=> AsOnExchange(n))
  BY <1>1, <1>4, FileSame
<1>6. {o \in orders' : o.pair = PairOf[n]} = OrdersOf(PairOf[n])'
  <2>1. orders' = UNION {OrdersOf(pair) : pair \in Pairs}
    BY <1>2, <1>3
  <2>2. PairOf[n] \in Pairs
    BY DEF Pairs
  <2>3. {o \in orders' : o.pair = PairOf[n]} = OrdersOf(PairOf[n])
    BY <2>1, <2>2, OrdersOnPair
  <2>4. OrdersOf(PairOf[n])' = OrdersOf(PairOf[n])
    BY <1>1 DEF OrdersOf, SecondToFill
  <2> QED BY <2>3, <2>4
<1>7. Of(lines', n) = {}
  <2> DEFINE S == {i \in DOMAIN journal : IsLadder(journal[i])}
  <2>1. journal \in Seq(Line)
    BY DEF BaseInv, RecInv, FileHolds
  <2>2. LinesOf(lines') = {journal[i] : i \in S}
    BY <1>1, <2>1, AmongLines DEF LadderLines
  <2> SUFFICES ASSUME NEW l \in Of(lines', n) PROVE FALSE
    OBVIOUS
  <2>3. PICK i \in S : l = journal[i]
    BY <2>2 DEF Of
  <2>4. l \in Of(journal, n) /\ IsLadder(l)
    BY <2>3 DEF Of, LinesOf
  <2>5. l.id = TradeId(n) \/ l.id = Part(n)
    BY <1>4, <2>4 DEF FileFits
  <2> QED BY <2>4, <2>5, IdsDiffer DEF IsLadder, Own
<1>8. usedG = {} /\ usedP = {} /\ handled = {}
  BY <1>1, <1>4 DEF PassFits
<1>9. Untouched(n)'
  BY <1>1, <1>8 DEF Untouched
<1>10. PositionsOf(n)' = PositionsOf(n)
  BY <1>1 DEF PositionsOf
<1>11. PassFits(n)'
  BY <1>1, <1>4, <1>6, <1>7, <1>8, <1>9, <1>10 DEF PassFits
<1>12. Quiet(n)'
  BY <1>1, <1>2, <1>3, <1>4, <1>5 DEF Quiet
<1> QED BY <1>5, <1>11, <1>12

-----------------------------------------------------------------------------
(* A loop goes on                                                          *)

Loops == {"ladder", "scaleout", "main"}

\* One line is looked at; the exchange and what was fetched stay.
LooksAt ==
  /\ UNCHANGED <<exchange, pc, rows, positions, orders, calm, raced>>
  /\ pc \in Loops /\ lines # <<>> /\ lines' = Tail(lines)

LEMMA TailIs ==
  ASSUME NEW j \in Seq(Line), j # <<>>, Unique(j)
  PROVE  /\ Head(j) \in LinesOf(j) /\ LinesOf(j) = LinesOf(Tail(j)) \cup {Head(j)}
         /\ Unique(Tail(j)) /\ \A l \in LinesOf(Tail(j)) : l.id # Head(j).id
<1> DEFINE q == Tail(j)
<1>1. /\ DOMAIN j = 1..Len(j) /\ Len(j) \in Nat /\ Len(j) # 0 /\ DOMAIN q = 1..(Len(j) - 1)
      /\ Head(j) = j[1] /\ \A i \in 1..(Len(j) - 1) : q[i] = j[i + 1]
  OBVIOUS
<1> HIDE DEF q
<1>2. 1 \in DOMAIN j /\ \A i \in DOMAIN q : i + 1 \in DOMAIN j /\ i + 1 # 1
  BY <1>1
<1>3. \A i \in DOMAIN j : i # 1 => i - 1 \in DOMAIN q /\ q[i - 1] = j[i]
  BY <1>1
<1>4. ASSUME NEW l \in LinesOf(j) PROVE l \in LinesOf(q) \cup {Head(j)}
  <2>1. PICK i \in DOMAIN j : l = j[i]
    BY LineAt
  <2> QED BY <1>1, <1>3, <2>1 DEF LinesOf
<1>5. ASSUME NEW l \in LinesOf(q) PROVE l \in LinesOf(j) /\ l.id # Head(j).id
  <2>1. PICK i \in DOMAIN q : l = q[i]
    BY LineAt
  <2>2. l = j[i + 1] /\ i + 1 \in DOMAIN j /\ i + 1 # 1
    BY <1>1, <1>2, <2>1
  <2> QED BY <1>1, <1>2, <2>2 DEF LinesOf, Unique
<1>6. Unique(q)
  <2> SUFFICES ASSUME NEW a \in DOMAIN q, NEW b \in DOMAIN q, q[a].id = q[b].id PROVE a = b
    BY DEF Unique
  <2>1. a + 1 \in DOMAIN j /\ b + 1 \in DOMAIN j /\ j[a + 1].id = j[b + 1].id /\ a \in Int /\ b \in Int
    BY <1>1, <1>2
  <2>2. a + 1 = b + 1
    BY <2>1, Zenon DEF Unique
  <2> QED BY <2>1, <2>2
<1>7. Head(j) \in LinesOf(j)
  BY <1>1, <1>2 DEF LinesOf
<1> QED BY <1>4, <1>5, <1>6, <1>7 DEF q

LEMMA TailOrder ==
  ASSUME NEW n \in Trades, NEW j \in Seq(Line), j # <<>>,
         \A i, k \in DOMAIN j : j[i].id = Part(n) /\ j[k].id = TradeId(n) => k < i
  PROVE  /\ \A i, k \in DOMAIN Tail(j) : Tail(j)[i].id = Part(n) /\ Tail(j)[k].id = TradeId(n) => k < i
         /\ Head(j).id = Part(n) => ~ Names(j, TradeId(n))
<1> DEFINE q == Tail(j)
<1>1. /\ DOMAIN j = 1..Len(j) /\ Len(j) \in Nat /\ Len(j) # 0 /\ DOMAIN q = 1..(Len(j) - 1)
      /\ Head(j) = j[1] /\ \A i \in 1..(Len(j) - 1) : q[i] = j[i + 1]
  OBVIOUS
<1> HIDE DEF q
<1>2. ASSUME NEW i \in DOMAIN q, NEW k \in DOMAIN q, q[i].id = Part(n), q[k].id = TradeId(n) PROVE k < i
  <2>1. i + 1 \in DOMAIN j /\ k + 1 \in DOMAIN j /\ i \in Int /\ k \in Int
    BY <1>1
  <2>2. k + 1 < i + 1
    BY <1>1, <1>2, <2>1
  <2> QED BY <2>1, <2>2
<1>3. Head(j).id = Part(n) => ~ Names(j, TradeId(n))
  BY <1>1 DEF Names
<1> QED BY <1>2, <1>3 DEF q

\* The lines of the trade that a loop has still to look at.
LEMMA LinesAfter ==
  ASSUME NEW n \in Trades, BaseInv, LooksAt, LinesFit(n)
  PROVE  /\ Head(lines) \in LinesOf(lines) /\ Head(lines) \in Line
         /\ Of(lines, n) = Of(lines', n) \cup {l \in {Head(lines)} : l.id.pair = PairOf[n]}
         /\ Unique(lines')
         /\ \A i, k \in DOMAIN lines' : lines'[i].id = Part(n) /\ lines'[k].id = TradeId(n) => k < i
         /\ Head(lines).id = TradeId(n) => ~ Names(lines', TradeId(n))
         /\ Head(lines).id # TradeId(n) => (Names(lines', TradeId(n)) <=> Names(lines, TradeId(n)))
         /\ Head(lines).id = Part(n) => ~ Names(lines, TradeId(n))
<1>1. lines \in Seq(Line) /\ lines # <<>> /\ lines' = Tail(lines)
  BY DEF BaseInv, RecInv, PassHolds, LooksAt
<1>2. Unique(lines) /\ \A i, k \in DOMAIN lines : lines[i].id = Part(n) /\ lines[k].id = TradeId(n) => k < i
  BY DEF LinesFit
<1>3. /\ Head(lines) \in LinesOf(lines) /\ LinesOf(lines) = LinesOf(lines') \cup {Head(lines)}
      /\ Unique(lines') /\ \A l \in LinesOf(lines') : l.id # Head(lines).id
  BY <1>1, <1>2, TailIs
<1>4. /\ \A i, k \in DOMAIN lines' : lines'[i].id = Part(n) /\ lines'[k].id = TradeId(n) => k < i
      /\ Head(lines).id = Part(n) => ~ Names(lines, TradeId(n))
  BY <1>1, <1>2, TailOrder
<1>5. Head(lines) \in Line
  BY <1>1, <1>3, LinesTyped
<1>6. Of(lines, n) = Of(lines', n) \cup {l \in {Head(lines)} : l.id.pair = PairOf[n]}
  BY <1>3 DEF Of
<1>7. /\ Head(lines).id = TradeId(n) => ~ Names(lines', TradeId(n))
      /\ Head(lines).id # TradeId(n) => (Names(lines', TradeId(n)) <=> Names(lines, TradeId(n)))
  BY <1>3, NamesIs
<1> QED BY <1>3, <1>4, <1>5, <1>6, <1>7

\* The invariant after such a step, from what the step makes of the trade.
LEMMA LoopFits ==
  ASSUME NEW n \in Trades, BaseInv, ~ raced, OwnInv(n), LooksAt, FileFits(n)', Part(n) \notin handled',
         Names(journal, TradeId(n)) => Names(journal', TradeId(n)),
         pc = "ladder" => Of(lines', n) = {} /\ Untouched(n)',
         pc # "ladder" => LinesFit(n)',
         pc = "scaleout" => IF Names(lines', TradeId(n)) THEN Untouched(n)' ELSE PrePassed(n)',
         pc = "main" => IF Names(lines', TradeId(n)) THEN PrePassed(n)' ELSE Finished(n)',
         calm = 2 => AsOnExchange(n)'
  PROVE  OwnInv(n)'
<1>1. ExchangeFits(n) /\ PassFits(n)
  BY DEF OwnInv
<1>2. /\ UNCHANGED <<life, avg, left, legs, exits, visible, day>> /\ pc' = pc /\ pc \in Loops
      /\ UNCHANGED <<rows, positions, orders, calm, raced>>
  BY DEF LooksAt, exchange
<1>3. Mine(n)' = Mine(n) /\ PositionsOf(n)' = PositionsOf(n) /\ OrdersOf(PairOf[n])' = OrdersOf(PairOf[n])
  BY <1>2 DEF Mine, PositionsOf, OrdersOf, SecondToFill
<1>4. ExchangeFits(n)'
  BY <1>1, <1>2, <1>3 DEF ExchangeFits
<1>5. PassFits(n)'
  BY <1>1, <1>2, <1>3 DEF PassFits, Loops
<1>6. Quiet(n)'
  BY <1>2 DEF Quiet, Loops
<1> QED BY <1>4, <1>5, <1>6 DEF OwnInv

\* What the trade is to the pass does not change with its lines and claims.
LEMMA ClaimsSame ==
  ASSUME NEW n \in Trades, LooksAt, Of(journal', n) = Of(journal, n),
         GroupsOf(n) \cap usedG' = GroupsOf(n) \cap usedG,
         PositionsOf(n) \cap usedP' = PositionsOf(n) \cap usedP,
         TradeId(n) \in handled' <=> TradeId(n) \in handled
  PROVE  /\ AsOnExchange(n)' <=> AsOnExchange(n)
         /\ Untouched(n)' <=> Untouched(n)
         /\ PrePassed(n)' <=> PrePassed(n)
         /\ Finished(n)' <=> Finished(n)
<1>1. UNCHANGED <<life, avg, left, legs, exits, visible, day, rows, positions>>
  BY DEF LooksAt, exchange
<1>2. /\ Mine(n)' = Mine(n) /\ Seen(n)' = Seen(n) /\ GroupsOf(n)' = GroupsOf(n)
      /\ PositionsOf(n)' = PositionsOf(n)
  BY <1>1 DEF Mine, Seen, GroupsOf, PositionsOf
<1>3. AsOnExchange(n)' <=> AsOnExchange(n)
  BY <1>1, <1>2 DEF AsOnExchange
<1>4. Untouched(n)' <=> Untouched(n)
  BY <1>2 DEF Untouched
<1>5. AllClaimed(n)' <=> AllClaimed(n)
  BY <1>2 DEF AllClaimed
<1>6. ScaledOut(n)' <=> ScaledOut(n)
  BY <1>2 DEF ScaledOut
<1>7. PrePassed(n)' <=> PrePassed(n)
  BY <1>3, <1>4, <1>5, <1>6 DEF PrePassed
<1>8. Finished(n)' <=> Finished(n)
  BY <1>3, <1>5 DEF Finished
<1> QED BY <1>3, <1>4, <1>7, <1>8

\* A step that looks at another line, and leaves those of the trade.
LEMMA OtherGoesOn ==
  ASSUME NEW n \in Trades, BaseInv, ~ raced, OwnInv(n), LooksAt, Head(lines).id # TradeId(n),
         Of(journal', n) = Of(journal, n), ParentFirst(journal', n),
         GroupsOf(n) \cap usedG' = GroupsOf(n) \cap usedG,
         PositionsOf(n) \cap usedP' = PositionsOf(n) \cap usedP,
         TradeId(n) \in handled' <=> TradeId(n) \in handled, Part(n) \notin handled'
  PROVE  OwnInv(n)'
<1>1. ExchangeFits(n) /\ FileFits(n) /\ PassFits(n) /\ Quiet(n)
  BY DEF OwnInv
<1>2. /\ UNCHANGED <<life, avg, left, legs, exits, visible, day>> /\ pc' = pc /\ pc \in Loops
      /\ UNCHANGED <<rows, positions, orders, calm, raced>> /\ lines # <<>> /\ lines' = Tail(lines)
  BY DEF LooksAt, exchange
<1>3. Mine(n)' = Mine(n) /\ Seen(n)' = Seen(n)
  BY <1>2 DEF Mine, Seen
<1>4. FileFits(n)'
  BY <1>1, <1>2, <1>3, TradeUntouched
<1>5. /\ AsOnExchange(n)' <=> AsOnExchange(n)
      /\ Untouched(n)' <=> Untouched(n)
      /\ PrePassed(n)' <=> PrePassed(n)
      /\ Finished(n)' <=> Finished(n)
  BY ClaimsSame
<1>6. Names(journal, TradeId(n)) => Names(journal', TradeId(n))
  BY OfNamed
<1>7. pc = "ladder" => Of(lines', n) = {} /\ Untouched(n)'
  <2> SUFFICES ASSUME pc = "ladder" PROVE Of(lines', n) = {} /\ Untouched(n)'
    OBVIOUS
  <2>1. Of(lines, n) = {} /\ Untouched(n)
    BY <1>1 DEF PassFits
  <2>2. lines \in Seq(Line)
    BY DEF BaseInv, RecInv, PassHolds
  <2>3. \A l \in LinesOf(lines') : l \in LinesOf(lines)
    <3>1. /\ DOMAIN lines = 1..Len(lines) /\ Len(lines) \in Nat /\ DOMAIN lines' = 1..(Len(lines) - 1)
          /\ \A i \in 1..(Len(lines) - 1) : lines'[i] = lines[i + 1]
      BY <1>2, <2>2
    <3>2. \A i \in DOMAIN lines' : i + 1 \in DOMAIN lines
      BY <3>1
    <3> QED BY <3>1, <3>2 DEF LinesOf
  <2> QED BY <1>5, <2>1, <2>3 DEF Of
<1>8. ASSUME pc # "ladder"
      PROVE  /\ LinesFit(n)'
             /\ Names(lines', TradeId(n)) <=> Names(lines, TradeId(n))
  <2>1. LinesFit(n)
    BY <1>1, <1>2, <1>8 DEF PassFits, Loops
  <2>2. \A l \in Of(lines, n) : \/ l.id = TradeId(n) /\ (TradeId(n) \notin handled => l \in LinesOf(journal))
                                \/ l.id = Part(n) /\ l.status = "closed"
    BY <2>1 DEF LinesFit
  <2>3. \A l \in Of(lines, n) : l \in LinesOf(journal) => l \in LinesOf(journal')
    BY DEF Of
  <2>4. \A l \in Of(lines', n) : l \in Of(lines, n)
    BY <2>1, LinesAfter
  <2>5. \A l \in Of(lines', n) : \/ l.id = TradeId(n) /\ (TradeId(n) \notin handled' => l \in LinesOf(journal'))
                                 \/ l.id = Part(n) /\ l.status = "closed"
    BY <2>2, <2>3, <2>4
  <2>6. LinesFit(n)'
    BY <2>1, <2>5, LinesAfter DEF LinesFit
  <2> QED BY <2>1, <2>6, LinesAfter
<1>9. pc = "scaleout" => IF Names(lines, TradeId(n)) THEN Untouched(n) ELSE PrePassed(n)
  BY <1>1 DEF PassFits
<1>10. pc = "main" => IF Names(lines, TradeId(n)) THEN PrePassed(n) ELSE Finished(n)
  BY <1>1 DEF PassFits
<1>11. calm = 2 => AsOnExchange(n)'
  BY <1>1, <1>5 DEF Quiet
<1> QED BY <1>4, <1>5, <1>6, <1>7, <1>8, <1>9, <1>10, <1>11, LoopFits

\* A step that looks at the line of the trade.
LEMMA OwnGoesOn ==
  ASSUME NEW n \in Trades, BaseInv, ~ raced, OwnInv(n), LooksAt, Head(lines).id = TradeId(n),
         FileFits(n)', Names(journal', TradeId(n)), Part(n) \notin handled',
         pc = "scaleout" => PrePassed(n)', pc = "main" => Finished(n)', calm = 2 => AsOnExchange(n)'
  PROVE  OwnInv(n)'
<1>1. PassFits(n) /\ pc \in Loops
  BY DEF OwnInv, LooksAt
<1>2. pc # "ladder"
  <2> SUFFICES ASSUME pc = "ladder" PROVE FALSE
    OBVIOUS
  <2>1. Of(lines, n) = {}
    BY <1>1 DEF PassFits
  <2>2. lines \in Seq(Line) /\ lines # <<>>
    BY DEF BaseInv, RecInv, PassHolds, LooksAt
  <2>3. 1 \in DOMAIN lines /\ Head(lines) = lines[1]
    BY <2>2
  <2> QED BY <2>1, <2>3, IdsDiffer DEF Of, LinesOf
<1>3. LinesFit(n)
  BY <1>1, <1>2 DEF PassFits, Loops
<1>4. ~ Names(lines', TradeId(n))
  BY <1>3, LinesAfter
<1>5. \A l \in Of(lines', n) : l.id = Part(n) /\ l.status = "closed"
  <2>1. \A l \in Of(lines', n) : l \in Of(lines, n) /\ l.id # TradeId(n)
    BY <1>3, <1>4, LinesAfter, OfNamed
  <2> QED BY <1>3, <2>1 DEF LinesFit
<1>6. LinesFit(n)'
  BY <1>3, <1>5, LinesAfter DEF LinesFit
<1> QED BY <1>2, <1>4, <1>6, LoopFits

-----------------------------------------------------------------------------
(* What a pass finds for the trade                                         *)

\* Its groups hold the rows the exchange lists of it, one group to a price.
LEMMA GroupsHold ==
  ASSUME NEW n \in Trades, Own(n), BaseInv, rows = visible
  PROVE  /\ \A g \in GroupsOf(n) : /\ g.rows \subseteq Seen(n) /\ \E x \in Seen(n) : x.entry = g.entry
                                   /\ g.rows = {y \in Seen(n) : y.entry = g.entry}
         /\ \A x \in Seen(n) : \E g \in GroupsOf(n) : x \in g.rows /\ g.entry = x.entry
         /\ \A g, h \in GroupsOf(n) : g.entry = h.entry => g = h
<1>1. \A x \in rows : x \in exits
  BY DEF BaseInv, RecInv, PassHolds
<1>2. \A x \in rows : PairOf[x.trade] = PairOf[n] <=> x.trade = n
  BY <1>1, RowIs
<1> DEFINE G(e) == [pair |-> PairOf[n], entry |-> e, rows |-> {y \in Seen(n) : y.entry = e}]
<1>3. ASSUME NEW g \in GroupsOf(n) PROVE \E x \in Seen(n) : g = G(x.entry)
  <2>1. PICK x \in rows : g = [pair |-> PairOf[x.trade], entry |-> x.entry,
                rows |-> {y \in rows : PairOf[y.trade] = PairOf[x.trade] /\ y.entry = x.entry}]
    BY DEF GroupsOf, Groups
  <2>2. PairOf[x.trade] = PairOf[n]
    BY <2>1 DEF GroupsOf
  <2>3. {y \in rows : PairOf[y.trade] = PairOf[x.trade] /\ y.entry = x.entry} = {y \in Seen(n) : y.entry = x.entry}
    BY <1>2, <2>2 DEF Seen
  <2>4. x \in Seen(n)
    BY <1>2, <2>2 DEF Seen
  <2> QED BY <2>1, <2>2, <2>3, <2>4
<1>4. ASSUME NEW x \in Seen(n) PROVE G(x.entry) \in GroupsOf(n)
  <2>1. x \in rows /\ x.trade = n
    BY DEF Seen
  <2>2. {y \in rows : PairOf[y.trade] = PairOf[x.trade] /\ y.entry = x.entry} = {y \in Seen(n) : y.entry = x.entry}
    BY <1>2, <2>1 DEF Seen
  <2>3. G(x.entry) = [pair |-> PairOf[x.trade], entry |-> x.entry,
                rows |-> {y \in rows : PairOf[y.trade] = PairOf[x.trade] /\ y.entry = x.entry}]
    BY <2>1, <2>2
  <2>4. G(x.entry) \in Groups(rows)
    BY <2>1, <2>3, Zenon DEF Groups
  <2> QED BY <2>4 DEF GroupsOf
<1>5. \A e : G(e).entry = e /\ G(e).rows = {y \in Seen(n) : y.entry = e}
  OBVIOUS
<1> HIDE DEF G
<1>6. \A g \in GroupsOf(n) : /\ g.rows \subseteq Seen(n) /\ \E x \in Seen(n) : x.entry = g.entry
                             /\ g.rows = {y \in Seen(n) : y.entry = g.entry}
  BY <1>3, <1>5
<1>7. \A x \in Seen(n) : \E g \in GroupsOf(n) : x \in g.rows /\ g.entry = x.entry
  BY <1>4, <1>5
<1>8. \A g, h \in GroupsOf(n) : g.entry = h.entry => g = h
  BY <1>3, <1>5
<1> QED BY <1>6, <1>7, <1>8

\* Together they hold all of them, and so does one that is alone.
LEMMA RowsOfGroups ==
  ASSUME NEW n \in Trades, Own(n), BaseInv, rows = visible
  PROVE  /\ RowsOf(GroupsOf(n)) = Seen(n)
         /\ GroupsOf(n) = {} <=> Seen(n) = {}
         /\ \A g \in GroupsOf(n) : (\A h \in GroupsOf(n) : h = g) => g.rows = Seen(n)
         /\ (\E x, y \in Seen(n) : x.entry # y.entry) <=> (\E g, h \in GroupsOf(n) : g # h)
<1>1. RowsOf(GroupsOf(n)) = Seen(n)
  BY GroupsHold DEF RowsOf
<1>2. GroupsOf(n) = {} <=> Seen(n) = {}
  BY GroupsHold
<1>3. ASSUME NEW g \in GroupsOf(n), \A h \in GroupsOf(n) : h = g PROVE g.rows = Seen(n)
  <2>1. ASSUME NEW x \in Seen(n) PROVE x \in g.rows
    <3>1. PICK h \in GroupsOf(n) : x \in h.rows
      BY GroupsHold
    <3> QED BY <1>3, <3>1
  <2>2. g.rows \subseteq Seen(n)
    BY GroupsHold
  <2> QED BY <2>1, <2>2
<1>4. ASSUME NEW x \in Seen(n), NEW y \in Seen(n), x.entry # y.entry PROVE \E g, h \in GroupsOf(n) : g # h
  BY <1>4, GroupsHold
<1>5. ASSUME NEW g \in GroupsOf(n), NEW h \in GroupsOf(n), g # h PROVE \E x, y \in Seen(n) : x.entry # y.entry
  <2>1. g.entry # h.entry
    BY <1>5, GroupsHold
  <2> QED BY <2>1, GroupsHold
<1> QED BY <1>1, <1>2, <1>3, <1>4, <1>5

LEMMA GroupsFinite == BaseInv => IsFiniteSet(Groups(rows))
<1> SUFFICES ASSUME BaseInv PROVE IsFiniteSet(Groups(rows))
  OBVIOUS
<1>1. IsFiniteSet(rows)
  BY RowsFinite DEF BaseInv
<1> DEFINE f == [x \in rows |-> [pair |-> PairOf[x.trade], entry |-> x.entry,
                rows |-> {y \in rows : PairOf[y.trade] = PairOf[x.trade] /\ y.entry = x.entry}]]
<1>2. f \in Surjection(rows, Groups(rows))
  BY DEF Surjection, Groups
<1> QED BY <1>1, <1>2, FS_Surjection

\* A set with two elements.
LEMMA TwoIs ==
  ASSUME NEW S, IsFiniteSet(S)
  PROVE  Cardinality(S) >= 2 <=> \E g, h \in S : g # h
<1>1. Cardinality(S) \in Nat
  BY FS_CardinalityType
<1>2. ASSUME NEW g \in S, NEW h \in S, g # h PROVE Cardinality(S) >= 2
  <2>1. {g, h} \subseteq S
    OBVIOUS
  <2>2. Cardinality({g, h}) <= Cardinality(S)
    BY <2>1, FS_Subset
  <2>3. Cardinality({g}) = 1 /\ IsFiniteSet({g})
    BY FS_Singleton
  <2>4. Cardinality({g} \cup {h}) = Cardinality({g}) + 1
    BY <1>2, <2>3, FS_AddElement
  <2>5. {g} \cup {h} = {g, h}
    OBVIOUS
  <2> QED BY <1>1, <2>2, <2>3, <2>4, <2>5
<1>3. ASSUME ~ \E g, h \in S : g # h PROVE ~ (Cardinality(S) >= 2)
  <2>1. CASE S = {}
    BY <2>1, FS_EmptySet
  <2>2. CASE S # {}
    <3>1. PICK g \in S : TRUE
      BY <2>2
    <3>2. S = {g}
      BY <1>3, <3>1
    <3> QED BY <3>2, FS_Singleton
  <2> QED BY <2>1, <2>2
<1> QED BY <1>2, <1>3

\* No line of its pair reaches what was claimed, nor what is not of the pair.
LEMMA ClaimsWithin ==
  ASSUME NEW n \in Trades, NEW t, t.id.pair = PairOf[n]
  PROVE  /\ ClaimedGroups(t) \subseteq GroupsOf(n) \ usedG /\ FreeGroups(t) \subseteq GroupsOf(n) \ usedG
         /\ ClaimedPosition(t) \subseteq PositionsOf(n) \ usedP /\ FreePositions(t) \subseteq PositionsOf(n) \ usedP
BY DEF ClaimedGroups, ClaimedPosition, FreeGroups, FreePositions, GroupsOf, PositionsOf

\* Its own line reaches all of it.
LEMMA ClaimsOwn ==
  ASSUME NEW n \in Trades, Own(n), BaseInv, ExchangeFits(n), rows = visible,
         PositionsOf(n) = IF life[n] = "open" THEN {[pair |-> PairOf[n], entry |-> avg[n], size |-> left[n]]} ELSE {},
         NEW t \in Line, t.id = TradeId(n), ParentFits(n, t)
  PROVE  /\ ClaimedGroups(t) = GroupsOf(n) \ usedG /\ FreeGroups(t) = GroupsOf(n) \ usedG
         /\ ClaimedPosition(t) = PositionsOf(n) \ usedP /\ FreePositions(t) = PositionsOf(n) \ usedP
         /\ ~ IsLadder(t)
<1>1. t.id.pair = PairOf[n] /\ t.entry \in Nat /\ t.day \in Nat /\ InReach(n, t.entry) /\ visible \subseteq exits
  BY IdsDiffer DEF Line, ParentFits, BaseInv, RecInv, MarketHolds
<1>2. ~ IsLadder(t)
  BY IdsDiffer DEF IsLadder, Own
<1>3. ASSUME NEW g \in GroupsOf(n)
      PROVE  g.pair = t.id.pair /\ Reaches(t, g.entry) /\ MatchPx(g.entry, t.entry) /\ LastOf(g.rows).day >= t.day
  <2>1. PICK x \in Seen(n) : x.entry = g.entry
    BY GroupsHold
  <2>2. x \in Mine(n) /\ x.entry \in Nat /\ InReach(n, x.entry)
    BY <1>1, RowIs DEF Seen, Mine, ExchangeFits
  <2>3. Near(g.entry, t.entry) /\ MatchPx(g.entry, t.entry)
    BY <1>1, <2>1, <2>2, Close
  <2>4. g.rows \in SUBSET Exit /\ IsFiniteSet(g.rows) /\ g.rows # {} /\ g.rows \subseteq Seen(n)
    <3>1. g \in Groups(rows) /\ rows \in SUBSET Exit /\ IsFiniteSet(rows)
      BY RowsFinite DEF GroupsOf, BaseInv
    <3>2. g.rows \in SUBSET rows /\ g.rows # {} /\ IsFiniteSet(g.rows)
      BY <3>1, GroupsAre
    <3> QED BY <3>1, <3>2, GroupsHold
  <2>5. LastOf(g.rows) \in Seen(n)
    BY <2>4, LastIs
  <2>6. LastOf(g.rows) \in exits /\ LastOf(g.rows) \in Mine(n)
    BY <1>1, <2>5 DEF Seen, Mine
  <2>7. t.day <= LastOf(g.rows).day
    BY <2>6 DEF ParentFits
  <2>8. LastOf(g.rows).day >= t.day
    BY <1>1, <2>6, <2>7, RowIs
  <2> QED BY <1>1, <1>2, <2>3, <2>8 DEF GroupsOf, Reaches
<1>4. ASSUME NEW p \in PositionsOf(n) PROVE p.pair = t.id.pair /\ Reaches(t, p.entry) /\ MatchPx(p.entry, t.entry)
  <2>1. p.entry = avg[n] /\ avg[n] \in Nat /\ InReach(n, avg[n])
    BY DEF ExchangeFits, BaseInv, RecInv, MarketHolds
  <2>2. Near(p.entry, t.entry) /\ MatchPx(p.entry, t.entry)
    BY <1>1, <2>1, Close
  <2> QED BY <1>1, <1>2, <2>2 DEF PositionsOf, Reaches
<1>5. GroupsOf(n) \ usedG \subseteq ClaimedGroups(t) /\ GroupsOf(n) \ usedG \subseteq FreeGroups(t)
  BY <1>3 DEF ClaimedGroups, FreeGroups, GroupsOf
<1>6. PositionsOf(n) \ usedP \subseteq ClaimedPosition(t) /\ PositionsOf(n) \ usedP \subseteq FreePositions(t)
  BY <1>4 DEF ClaimedPosition, FreePositions, PositionsOf
<1> QED BY <1>1, <1>2, <1>5, <1>6, ClaimsWithin

\* A line of its pair is engaged at most when the trade is scaled out and
\* nothing of it was claimed yet.
LEMMA EngagedOnly ==
  ASSUME NEW n \in Trades, BaseInv, NEW t, t.id.pair = PairOf[n], ~ IsLadder(t), Engaged(t)
  PROVE  ScaledOut(n) /\ ~ AllClaimed(n)
<1>1. /\ ClaimedGroups(t) \subseteq GroupsOf(n) \ usedG /\ ClaimedPosition(t) \subseteq PositionsOf(n) \ usedP
      /\ ClaimedGroups(t) # {}
      /\ ClaimedPosition(t) # {} \/ Cardinality(ClaimedGroups(t)) >= 2
  BY ClaimsWithin DEF Engaged
<1>2. IsFiniteSet(ClaimedGroups(t))
  <2>1. ClaimedGroups(t) \subseteq Groups(rows)
    BY DEF ClaimedGroups
  <2> QED BY <2>1, GroupsFinite, FS_Subset
<1>3. Cardinality(ClaimedGroups(t)) >= 2 => \E g, h \in GroupsOf(n) : g # h
  BY <1>1, <1>2, TwoIs
<1> QED BY <1>1, <1>3 DEF ScaledOut, AllClaimed

\* Its own line is engaged when the trade is scaled out.
LEMMA EngagedWhen ==
  ASSUME NEW n \in Trades, BaseInv, NEW t, ~ IsLadder(t), t.status \in Matchable, ScaledOut(n),
         ClaimedGroups(t) = GroupsOf(n), ClaimedPosition(t) = PositionsOf(n)
  PROVE  Engaged(t)
<1>1. IsFiniteSet(GroupsOf(n))
  <2>1. GroupsOf(n) \subseteq Groups(rows)
    BY DEF GroupsOf
  <2> QED BY <2>1, GroupsFinite, FS_Subset
<1>2. (\E g, h \in GroupsOf(n) : g # h) => Cardinality(GroupsOf(n)) >= 2
  BY <1>1, TwoIs
<1>3. GroupsOf(n) # {} /\ (PositionsOf(n) # {} \/ \E g, h \in GroupsOf(n) : g # h)
  BY DEF ScaledOut
<1> QED BY <1>2, <1>3 DEF Engaged

-----------------------------------------------------------------------------
(* The line at the head                                                    *)

LEMMA AtHead ==
  ASSUME NEW n \in Trades, BaseInv, ~ raced, OwnInv(n), LooksAt, Head(lines).id.pair = PairOf[n]
  PROVE  /\ pc \in {"scaleout", "main"} /\ Head(lines) \in Of(lines, n) /\ Head(lines) \in Line /\ LinesFit(n)
         /\ rows = visible
         /\ PositionsOf(n) = IF life[n] = "open" THEN {[pair |-> PairOf[n], entry |-> avg[n], size |-> left[n]]} ELSE {}
         /\ pc = "scaleout" => IF Names(lines, TradeId(n)) THEN Untouched(n) ELSE PrePassed(n)
         /\ pc = "main" => IF Names(lines, TradeId(n)) THEN PrePassed(n) ELSE Finished(n)
         /\ Part(n) \notin handled
<1>1. PassFits(n) /\ pc \in Loops
  BY DEF OwnInv, LooksAt
<1>2. Head(lines) \in Of(lines, n)
  <2>1. lines \in Seq(Line) /\ lines # <<>>
    BY DEF BaseInv, RecInv, PassHolds, LooksAt
  <2>2. 1 \in DOMAIN lines /\ Head(lines) = lines[1]
    BY <2>1
  <2> QED BY <2>2 DEF Of, LinesOf
<1>3. pc # "ladder"
  BY <1>1, <1>2 DEF PassFits
<1>4. LinesFit(n)
  BY <1>1, <1>3 DEF PassFits, Loops
<1>5. Head(lines) \in Line
  BY <1>4, LinesAfter
<1> QED BY <1>1, <1>2, <1>3, <1>4, <1>5 DEF PassFits, Loops

\* The child of the trade comes up after its parent, and finds nothing.
LEMMA PartAtHead ==
  ASSUME NEW n \in Trades, Own(n), BaseInv, ~ raced, OwnInv(n), LooksAt, Head(lines).id.pair = PairOf[n],
         Head(lines).id # TradeId(n)
  PROVE  /\ Head(lines).id = Part(n) /\ Head(lines).status = "closed"
         /\ pc # "main" => ~ Engaged(Head(lines))
         /\ pc = "main" => FreeGroups(Head(lines)) = {} /\ FreePositions(Head(lines)) = {}
<1>1. Head(lines).id = Part(n) /\ Head(lines).status = "closed"
  BY AtHead DEF LinesFit
<1>2. ~ Names(lines, TradeId(n))
  BY <1>1, AtHead, LinesAfter
<1>3. pc # "main" => ~ Engaged(Head(lines))
  <2> SUFFICES ASSUME pc # "main", Engaged(Head(lines)) PROVE FALSE
    OBVIOUS
  <2>1. PrePassed(n)
    BY <1>2, AtHead
  <2>2. ~ IsLadder(Head(lines))
    BY <1>1, IdsDiffer DEF IsLadder
  <2>3. ScaledOut(n) /\ ~ AllClaimed(n)
    BY <2>2, EngagedOnly
  <2> QED BY <2>1, <2>3 DEF PrePassed
<1>4. pc = "main" => FreeGroups(Head(lines)) = {} /\ FreePositions(Head(lines)) = {}
  <2> SUFFICES ASSUME pc = "main" PROVE FreeGroups(Head(lines)) = {} /\ FreePositions(Head(lines)) = {}
    OBVIOUS
  <2>1. AllClaimed(n)
    BY <1>2, AtHead DEF Finished
  <2> QED BY <2>1, ClaimsWithin DEF AllClaimed
<1> QED BY <1>1, <1>3, <1>4

\* Its own line comes up as it is in the file, unless the pre-pass took it.
LEMMA OwnAtHead ==
  ASSUME NEW n \in Trades, Own(n), BaseInv, ~ raced, OwnInv(n), LooksAt, Head(lines).id = TradeId(n)
  PROVE  /\ Names(journal, TradeId(n))
         /\ pc = "scaleout" => Untouched(n)
         /\ pc = "main" => PrePassed(n)
         /\ TradeId(n) \notin handled =>
              /\ Head(lines) \in Of(journal, n) /\ ParentFits(n, Head(lines)) /\ LineOf(TradeId(n)) = Head(lines)
              /\ ClaimedGroups(Head(lines)) = GroupsOf(n) \ usedG /\ FreeGroups(Head(lines)) = GroupsOf(n) \ usedG
              /\ ClaimedPosition(Head(lines)) = PositionsOf(n) \ usedP /\ FreePositions(Head(lines)) = PositionsOf(n) \ usedP
              /\ ~ IsLadder(Head(lines))
<1> DEFINE t == Head(lines)
<1>1. t.id.pair = PairOf[n]
  BY IdsDiffer
<1>2. t \in Of(lines, n) /\ t \in Line /\ LinesFit(n) /\ Names(lines, TradeId(n))
  BY <1>1, AtHead, OfNamed
<1>3. ExchangeFits(n) /\ FileFits(n)
  BY DEF OwnInv
<1>4. ASSUME TradeId(n) \notin handled
      PROVE  t \in Of(journal, n) /\ ParentFits(n, t) /\ LineOf(TradeId(n)) = t
  <2>1. t \in LinesOf(journal)
    BY <1>2, <1>4, IdsDiffer DEF LinesFit
  <2>2. t \in Of(journal, n)
    BY <1>1, <2>1 DEF Of
  <2>3. ParentFits(n, t)
    BY <1>3, <2>2, IdsDiffer DEF FileFits
  <2>4. HasLine(TradeId(n))
    BY <2>1, NamesIs, HasIsNames
  <2>5. LineOf(TradeId(n)) \in LinesOf(journal) /\ LineOf(TradeId(n)).id = TradeId(n)
    BY <2>4, LineOfHere
  <2>6. LineOf(TradeId(n)) = t
    <3>1. Unique(journal)
      BY DEF BaseInv, RecInv, FileHolds
    <3> QED BY <2>1, <2>5, <3>1, OneOfEach
  <2> QED BY <2>2, <2>3, <2>6
<1>5. ASSUME TradeId(n) \notin handled
      PROVE  /\ ClaimedGroups(t) = GroupsOf(n) \ usedG /\ FreeGroups(t) = GroupsOf(n) \ usedG
             /\ ClaimedPosition(t) = PositionsOf(n) \ usedP /\ FreePositions(t) = PositionsOf(n) \ usedP
             /\ ~ IsLadder(t)
  <2>1. ParentFits(n, t)
    BY <1>4, <1>5
  <2>2. /\ rows = visible
        /\ PositionsOf(n) = IF life[n] = "open" THEN {[pair |-> PairOf[n], entry |-> avg[n], size |-> left[n]]} ELSE {}
    BY <1>1, AtHead
  <2> HIDE DEF t
  <2>3. t \in Line /\ t.id = TradeId(n)
    BY <1>2 DEF t
  <2> QED BY <1>3, <2>1, <2>2, <2>3, ClaimsOwn
<1>6. Names(journal, TradeId(n))
  <2>1. life[n] # "none" => Names(journal, TradeId(n))
    <3>1. PassFits(n) /\ pc # "idle"
      BY DEF OwnInv, LooksAt, Loops
    <3> QED BY <3>1 DEF PassFits
  <2>2. CASE life[n] # "none"
    BY <2>1, <2>2
  <2>3. CASE life[n] = "none"
    <3>1. Of(journal, n) = {}
      BY <1>3, <2>3 DEF FileFits, ParentFits, ChildFits
    <3>2. TradeId(n) \in handled
      BY <1>4, <3>1
    <3>3. ~ Untouched(n) /\ pc \in {"scaleout", "main"}
      BY <1>1, <3>2, AtHead DEF Untouched
    <3>4. PrePassed(n)
      BY <1>1, <1>2, <3>3, AtHead
    <3>5. ScaledOut(n)
      BY <3>3, <3>4 DEF PrePassed
    <3>6. GroupsOf(n) # {} /\ rows = visible
      BY <1>1, <3>5, AtHead DEF ScaledOut
    <3>7. Seen(n) # {} /\ Mine(n) = {}
      BY <1>3, <2>3, <3>6, RowsOfGroups DEF ExchangeFits
    <3> QED BY <3>7, SeenIsMine
  <2> QED BY <2>2, <2>3
<1> QED BY <1>1, <1>2, <1>4, <1>5, <1>6, AtHead

\* A step that looks at a line of another pair, and claims for it.
LEMMA PairGoesOn ==
  ASSUME NEW n \in Trades, BaseInv, ~ raced, OwnInv(n), LooksAt, Head(lines).id.pair # PairOf[n],
         Differs(journal, journal', Head(lines).id.pair),
         usedG \subseteq usedG', \A g \in usedG' : g \in usedG \/ g.pair = Head(lines).id.pair,
         usedP \subseteq usedP', \A p \in usedP' : p \in usedP \/ p.pair = Head(lines).id.pair,
         handled \subseteq handled', \A id \in handled' : id \in handled \/ id = Head(lines).id
  PROVE  OwnInv(n)'
<1>1. Head(lines).id # TradeId(n) /\ Head(lines).id # Part(n)
  BY IdsDiffer
<1>2. FileFits(n) /\ PassFits(n)
  BY DEF OwnInv
<1>3. Of(journal', n) = Of(journal, n) /\ ParentFirst(journal', n)
  BY <1>2, OfKept DEF FileFits
<1>4. /\ GroupsOf(n) \cap usedG' = GroupsOf(n) \cap usedG
      /\ PositionsOf(n) \cap usedP' = PositionsOf(n) \cap usedP
  BY DEF GroupsOf, PositionsOf
<1>5. (TradeId(n) \in handled' <=> TradeId(n) \in handled) /\ Part(n) \notin handled'
  BY <1>1, <1>2 DEF PassFits
<1> QED BY <1>1, <1>3, <1>4, <1>5, OtherGoesOn

\* A step that leaves the file and the claims as they are, at another line.
LEMMA NothingGoesOn ==
  ASSUME NEW n \in Trades, BaseInv, ~ raced, OwnInv(n), LooksAt, Head(lines).id # TradeId(n),
         UNCHANGED <<journal, usedG, usedP, handled>>
  PROVE  OwnInv(n)'
<1>1. FileFits(n) /\ PassFits(n)
  BY DEF OwnInv
<1>2. /\ Of(journal', n) = Of(journal, n) /\ ParentFirst(journal', n) /\ Part(n) \notin handled'
      /\ GroupsOf(n) \cap usedG' = GroupsOf(n) \cap usedG
      /\ PositionsOf(n) \cap usedP' = PositionsOf(n) \cap usedP
      /\ TradeId(n) \in handled' <=> TradeId(n) \in handled
  BY <1>1 DEF FileFits, PassFits
<1> QED BY <1>2, OtherGoesOn

\* Its line is rewritten as o, or was o.
LEMMA OwnSet ==
  ASSUME NEW n \in Trades, BaseInv, FileFits(n), UNCHANGED exchange, NEW t \in Of(journal, n), t.id = TradeId(n),
         NEW o, o.id = TradeId(n), ParentFits(n, o), (journal' = journal /\ o = t) \/ journal' = Rewrite(journal, o),
         life[n] = "flat" => o.status = "closed" /\ Seen(n) \subseteq o.net
  PROVE  /\ FileFits(n)' /\ o \in Of(journal', n) /\ Names(journal', TradeId(n))
         /\ Of(journal', n) = {l \in Of(journal, n) : l.id # TradeId(n)} \cup {o}
<1>1. UNCHANGED <<life, avg, left, legs, exits, visible, day>>
  BY DEF exchange
<1>2. Mine(n)' = Mine(n) /\ Seen(n)' = Seen(n)
  BY <1>1 DEF Mine, Seen
<1>3. Names(journal, TradeId(n))
  BY OfNamed
<1>4. Of(journal', n) = {l \in Of(journal, n) : l.id # TradeId(n)} \cup {o}
  <2>1. CASE journal' = journal /\ o = t
    <3>1. ASSUME NEW l \in Of(journal, n), l.id = TradeId(n) PROVE l = t
      <4>1. Unique(journal) /\ l \in LinesOf(journal) /\ t \in LinesOf(journal)
        BY DEF BaseInv, RecInv, FileHolds, Of
      <4> QED BY <3>1, <4>1, OneOfEach
    <3> QED BY <2>1, <3>1
  <2>2. CASE journal' = Rewrite(journal, o)
    BY <1>3, <2>2, OfRewrite
  <2> QED BY <2>1, <2>2
<1>5. ParentFirst(journal', n)
  <2>1. ParentFirst(journal, n)
    BY DEF FileFits
  <2> QED BY <2>1, RewriteOrder
<1>6. \A l : (ParentFits(n, l)' <=> ParentFits(n, l)) /\ (ChildFits(n, l)' <=> ChildFits(n, l))
  BY <1>1, <1>2 DEF ParentFits, ChildFits
<1>7. o \in Of(journal', n) /\ Names(journal', TradeId(n))
  BY <1>4, OfNamed
<1>8. life[n] = "flat" => Settled(n)'
  BY <1>2, <1>7 DEF Settled
<1>9. \A l \in Of(journal', n) : (l.id = TradeId(n) /\ ParentFits(n, l)') \/ (l.id = Part(n) /\ ChildFits(n, l)')
  BY <1>4, <1>6 DEF FileFits
<1>10. FileFits(n)'
  BY <1>1, <1>2, <1>5, <1>7, <1>8, <1>9 DEF FileFits
<1> QED BY <1>4, <1>7, <1>10

-----------------------------------------------------------------------------
(* The pre-passes                                                          *)

\* What an undisturbed step of a loop leaves to show.
LEMMA LoopOwn ==
  ASSUME NEW n \in Trades, LooksAt, OwnInv(n), ~ raced => OwnInv(n)'
  PROVE  OwnInv(n)'
BY DEF LooksAt, OwnInv

LEMMA PrePassNothingOwn ==
  ASSUME NEW n \in Trades, Own(n), BaseInv, OwnInv(n), PrePassNothing PROVE OwnInv(n)'
<1>1. LooksAt /\ UNCHANGED <<journal, usedG, usedP, handled>> /\ ~ Engaged(Head(lines)) /\ pc # "main"
  BY DEF PrePassNothing, NextLine, PrePasses, LooksAt, Loops
<1> SUFFICES ASSUME ~ raced PROVE OwnInv(n)'
  BY <1>1, LoopOwn
<1>2. CASE Head(lines).id # TradeId(n)
  BY <1>1, <1>2, NothingGoesOn
<1>3. CASE Head(lines).id = TradeId(n)
  <2> DEFINE t == Head(lines)
  <2>1. t.id.pair = PairOf[n]
    BY <1>3, IdsDiffer
  <2>2. pc = "scaleout" /\ rows = visible /\ Untouched(n) /\ Names(journal, TradeId(n))
        /\ PositionsOf(n) = IF life[n] = "open" THEN {[pair |-> PairOf[n], entry |-> avg[n], size |-> left[n]]} ELSE {}
    BY <1>1, <1>3, <2>1, AtHead, OwnAtHead
  <2>3. /\ t \in Of(journal, n) /\ ParentFits(n, t)
        /\ ClaimedGroups(t) = GroupsOf(n) /\ ClaimedPosition(t) = PositionsOf(n) /\ ~ IsLadder(t)
    BY <1>1, <1>3, <2>2, OwnAtHead DEF Untouched
  <2>4. ExchangeFits(n) /\ FileFits(n) /\ PassFits(n) /\ Quiet(n)
    BY DEF OwnInv
  <2>5. ~ ScaledOut(n)
    <3> SUFFICES ASSUME ScaledOut(n) PROVE FALSE
      OBVIOUS
    <3>1. t.status \notin Matchable
      BY <1>1, <2>3, EngagedWhen
    <3>2. t.status = "cancelled"
      <4>1. t \in Line
        BY <1>1, <2>1, AtHead
      <4> QED BY <3>1, <4>1 DEF Line, Matchable
    <3>3. life[n] = "withdrawn" /\ Mine(n) = {}
      BY <2>3, <2>4, <3>2 DEF ParentFits, ExchangeFits
    <3>4. Seen(n) = {}
      BY <3>3, SeenIsMine
    <3> QED BY <2>2, <3>4, RowsOfGroups DEF ScaledOut
  <2>6. Of(journal', n) = Of(journal, n)
    BY <1>1
  <2>7. /\ AsOnExchange(n)' <=> AsOnExchange(n)
        /\ PrePassed(n)' <=> PrePassed(n)
    BY <1>1, <2>6, ClaimsSame
  <2>8. PrePassed(n)
    BY <2>2, <2>5 DEF PrePassed
  <2>9. FileFits(n)'
    <3>1. UNCHANGED exchange
      BY <1>1 DEF LooksAt
    <3> QED BY <1>1, <2>4, <3>1, FileSame
  <2>10. calm = 2 => AsOnExchange(n)'
    BY <2>4, <2>7 DEF Quiet
  <2> QED BY <1>1, <1>3, <2>2, <2>4, <2>7, <2>8, <2>9, <2>10, OwnGoesOn DEF PassFits
<1> QED BY <1>2, <1>3

\* The child of the trade, with these exits.
Counts(n, l, net) == l.id = Part(n) /\ l.net = net /\ l.status = "closed"

\* The child a pre-pass writes.
LEMMA ChildWritten ==
  ASSUME NEW n \in Trades, BaseInv, NEW j \in Seq(Line), Unique(j), \A id : Names(j, id) <=> Names(journal, id),
         ParentFirst(j, n), Names(j, TradeId(n)), NEW c \in Line, c.id = Part(n),
         c.status = "closed", \A l \in Of(journal, n) : l.id = Part(n) => l \in Of(j, n) /\ l.status = "closed"
  PROVE  /\ ParentFirst(Upsert(j, c), n)
         /\ \A l \in Of(j, n) : l.id # Part(n) => l \in Of(Upsert(j, c), n)
         /\ \A l \in Of(Upsert(j, c), n) : (l \in Of(j, n) /\ l.id # Part(n)) \/ Counts(n, l, c.net)
         /\ \E l \in Of(Upsert(j, c), n) : Counts(n, l, c.net)
<1>1. c.id.pair = PairOf[n]
  BY IdsDiffer
<1>2. CASE ~ HasLine(c.id)
  <2>1. Upsert(j, c) = Append(j, c) /\ ~ Names(j, Part(n))
    BY <1>2, HasIsNames DEF Upsert
  <2>2. LinesOf(Upsert(j, c)) = LinesOf(j) \cup {c}
    BY <2>1, AppendLines
  <2>3. ParentFirst(Upsert(j, c), n)
    BY <2>1, AppendOrder
  <2>4. Of(Upsert(j, c), n) = Of(j, n) \cup {c}
    BY <1>1, <2>2 DEF Of
  <2>5. \A l \in Of(j, n) : l.id # Part(n)
    BY <2>1, OfNamed
  <2> QED BY <2>3, <2>4, <2>5 DEF Counts
<1>3. CASE HasLine(c.id)
  <2> DEFINE old == LineOf(c.id)
  <2>1. old \in LinesOf(journal) /\ old.id = Part(n)
    BY <1>3, LineOfHere
  <2>2. old \in Of(journal, n)
    BY <2>1, IdsDiffer DEF Of
  <2>3. old \in Of(j, n) /\ \A l \in Of(j, n) : l.id = Part(n) => l = old
    BY <2>1, <2>2, OneOfEach DEF Of
  <2>4. CASE old.net = c.net
    <3>1. Upsert(j, c) = j
      BY <1>3, <2>4 DEF Upsert
    <3> QED BY <2>1, <2>2, <2>3, <2>4, <3>1 DEF Counts
  <2>5. CASE old.net # c.net
    <3> DEFINE new == [c EXCEPT !.day = LineOf(c.id).day]
    <3>1. Upsert(j, c) = Rewrite(j, new)
      BY <1>3, <2>5 DEF Upsert
    <3>2. new.id = Part(n) /\ new.net = c.net /\ new.status = c.status
      BY DEF Line
    <3>3. Names(j, Part(n))
      BY <2>1, <2>3, OfNamed
    <3> HIDE DEF new, old
    <3>4. LinesOf(Rewrite(j, new)) = {l \in LinesOf(j) : l.id # Part(n)} \cup {new}
      BY <3>2, <3>3, RewriteLines
    <3>5. Of(Upsert(j, c), n) = {l \in Of(j, n) : l.id # Part(n)} \cup {new}
      BY <3>1, <3>2, <3>4, IdsDiffer DEF Of
    <3>6. ParentFirst(Upsert(j, c), n)
      BY <3>1, RewriteOrder
    <3> QED BY <3>2, <3>5, <3>6 DEF Counts
  <2> QED BY <2>4, <2>5
<1> QED BY <1>2, <1>3

\* What the pre-pass sees of a trade that is open and has exits.
LEMMA PrePassOpenSees ==
  ASSUME NEW n \in Trades, Own(n), BaseInv, ~ raced, OwnInv(n), PrePassOpen, Head(lines).id = TradeId(n)
  PROVE  /\ LooksAt /\ pc = "scaleout" /\ rows = visible /\ Untouched(n) /\ ScaledOut(n) /\ Names(journal, TradeId(n))
         /\ Head(lines) \in Line /\ Head(lines) \in Of(journal, n) /\ ParentFits(n, Head(lines))
         /\ LineOf(TradeId(n)) = Head(lines) /\ ~ IsLadder(Head(lines))
         /\ ClaimedGroups(Head(lines)) = GroupsOf(n) /\ ClaimedPosition(Head(lines)) = PositionsOf(n)
         /\ life[n] = "open" /\ PositionsOf(n) = {[pair |-> PairOf[n], entry |-> avg[n], size |-> left[n]]}
         /\ GroupsOf(n) # {} /\ RowsOf(GroupsOf(n)) = Seen(n) /\ Seen(n) # {}
<1> DEFINE t == Head(lines)
<1>1. LooksAt /\ pc # "main" /\ Engaged(t) /\ \E p : p \in ClaimedPosition(t)
  BY DEF PrePassOpen, NextLine, PrePasses, LooksAt, Loops
<1>2. t.id.pair = PairOf[n]
  BY IdsDiffer
<1>3. pc = "scaleout" /\ rows = visible /\ Untouched(n) /\ Names(journal, TradeId(n)) /\ t \in Line
      /\ PositionsOf(n) = IF life[n] = "open" THEN {[pair |-> PairOf[n], entry |-> avg[n], size |-> left[n]]} ELSE {}
  BY <1>1, <1>2, AtHead, OwnAtHead
<1>4. /\ t \in Of(journal, n) /\ ParentFits(n, t) /\ LineOf(TradeId(n)) = t
      /\ ClaimedGroups(t) = GroupsOf(n) /\ ClaimedPosition(t) = PositionsOf(n) /\ ~ IsLadder(t)
  BY <1>1, <1>3, OwnAtHead DEF Untouched
<1>5. ScaledOut(n) /\ GroupsOf(n) # {}
  BY <1>1, <1>2, <1>4, EngagedOnly DEF ScaledOut
<1>6. life[n] = "open"
  BY <1>1, <1>3, <1>4
<1>7. RowsOf(GroupsOf(n)) = Seen(n) /\ Seen(n) # {}
  BY <1>3, <1>5, RowsOfGroups
<1> QED BY <1>1, <1>3, <1>4, <1>5, <1>6, <1>7

\* The trade is open and has exits: its line is open, and its child counts them.
LEMMA PrePassOpenAtOwn ==
  ASSUME NEW n \in Trades, Own(n), BaseInv, ~ raced, OwnInv(n), PrePassOpen, Head(lines).id = TradeId(n)
  PROVE  FileFits(n)' /\ AsOnExchange(n)' /\ AllClaimed(n)' /\ TradeId(n) \in handled' /\ Part(n) \notin handled'
         /\ Names(journal', TradeId(n)) /\ ScaledOut(n)' /\ LooksAt
<1> DEFINE t == Head(lines)
           claim == ClaimedGroups(t)
<1>1. /\ LooksAt /\ pc # "main" /\ Engaged(t)
      /\ usedG' = usedG \cup claim /\ handled' = handled \cup {TradeId(n)}
  BY DEF PrePassOpen, NextLine, PrePasses, LooksAt, Loops
<1>2. t.id.pair = PairOf[n] /\ ChildId(t.id) = Part(n)
  BY IdsDiffer DEF Part
<1>3. pc = "scaleout" /\ rows = visible /\ Untouched(n) /\ Names(journal, TradeId(n)) /\ t \in Line
      /\ PositionsOf(n) = IF life[n] = "open" THEN {[pair |-> PairOf[n], entry |-> avg[n], size |-> left[n]]} ELSE {}
  BY PrePassOpenSees
<1>4. /\ t \in Of(journal, n) /\ ParentFits(n, t) /\ LineOf(TradeId(n)) = t
      /\ claim = GroupsOf(n) /\ ClaimedPosition(t) = PositionsOf(n) /\ ~ IsLadder(t)
  BY PrePassOpenSees
<1>5. ExchangeFits(n) /\ FileFits(n) /\ PassFits(n)
  BY DEF OwnInv
<1>6. ScaledOut(n)
  BY PrePassOpenSees
<1>7. PICK p \in PositionsOf(n) :
        /\ usedP' = usedP \cup {p}
        /\ journal' = LET opened == IF ReadsOpen(t, p) THEN journal ELSE Rewrite(journal, Opened(t, p))
                      IN  IF claim = {} THEN opened ELSE Upsert(opened, Child(t, claim))
  <2> HIDE DEF claim
  <2> QED BY <1>4 DEF PrePassOpen, claim
<1>8. life[n] = "open" /\ PositionsOf(n) = {p} /\ p.size = left[n]
  BY <1>7, PrePassOpenSees
<1>9. claim # {} /\ RowsOf(claim) = Seen(n) /\ Seen(n) # {} /\ Seen(n) \subseteq Mine(n)
  BY PrePassOpenSees, SeenIsMine
<1>10. UNCHANGED <<life, avg, left, legs, exits, visible, day, rows, positions>> /\ UNCHANGED exchange
  BY <1>1 DEF LooksAt, exchange
<1>11. /\ Mine(n)' = Mine(n) /\ Seen(n)' = Seen(n) /\ GroupsOf(n)' = GroupsOf(n)
       /\ PositionsOf(n)' = PositionsOf(n)
  BY <1>10 DEF Mine, Seen, GroupsOf, PositionsOf
<1>12. PICK o : o = IF ReadsOpen(t, p) THEN t ELSE Opened(t, p)
  OBVIOUS
<1>13. PICK j : j = IF ReadsOpen(t, p) THEN journal ELSE Rewrite(journal, Opened(t, p))
  OBVIOUS
<1>14. PICK c : c = Child(t, claim)
  OBVIOUS
<1> HIDE DEF claim
<1>15. journal' = Upsert(j, c)
  BY <1>7, <1>9, <1>13, <1>14
<1>16. c \in Line /\ c.id = Part(n) /\ c.net = Seen(n) /\ c.status = "closed"
  <2>1. rows \in SUBSET Exit /\ IsFiniteSet(rows) /\ claim \in SUBSET Groups(rows)
    BY <1>4, RowsFinite DEF BaseInv, GroupsOf
  <2>2. Child(t, claim) \in Line /\ Child(t, claim).id = ChildId(t.id)
    BY <1>3, <1>9, <2>1, ChildIs
  <2> QED BY <1>2, <1>9, <1>14, <2>2 DEF Child
<1> HIDE DEF t
<1>17. o \in Line /\ o.id = TradeId(n) /\ o.status = "open" /\ o.size = left[n] /\ ParentFits(n, o)
  <2>1. CASE ReadsOpen(t, p)
    BY <1>3, <1>4, <1>8, <1>12, <2>1 DEF ReadsOpen, t
  <2>2. CASE ~ ReadsOpen(t, p)
    <3>1. left[n] \in Nat
      BY DEF BaseInv, RecInv, MarketHolds
    <3>2. o = [t EXCEPT !.status = "open", !.size = left[n]]
      BY <1>4, <1>8, <1>12, <2>2 DEF Opened, t
    <3>3. /\ o \in Line /\ o.id = TradeId(n) /\ o.status = "open" /\ o.size = left[n]
          /\ o.entry = t.entry /\ o.day = t.day /\ o.net = t.net
      BY <1>3, <3>1, <3>2 DEF Line, t
    <3> QED BY <1>4, <1>8, <3>3 DEF ParentFits
  <2> QED BY <2>1, <2>2
<1>18. /\ j \in Seq(Line) /\ Unique(j) /\ \A id : Names(j, id) <=> Names(journal, id)
       /\ ParentFirst(j, n) /\ Of(j, n) = {l \in Of(journal, n) : l.id # TradeId(n)} \cup {o}
  <2>1. journal \in Seq(Line) /\ Unique(journal) /\ ParentFirst(journal, n)
    BY <1>5 DEF BaseInv, RecInv, FileHolds, FileFits
  <2>2. CASE ReadsOpen(t, p)
    <3>1. \A l \in Of(journal, n) : l.id = TradeId(n) => l = t
      BY <1>4, <2>1, OneOfEach DEF Of, t
    <3>2. t.id = TradeId(n)
      BY DEF t
    <3> QED BY <1>4, <1>12, <1>13, <2>1, <2>2, <3>1, <3>2
  <2>3. CASE ~ ReadsOpen(t, p)
    <3>1. j = Rewrite(journal, o)
      BY <1>12, <1>13, <2>3
    <3>2. LinesOf(j) = {l \in LinesOf(journal) : l.id # TradeId(n)} \cup {o}
      BY <1>3, <1>17, <3>1, RewriteLines
    <3>3. Of(j, n) = {l \in Of(journal, n) : l.id # TradeId(n)} \cup {o}
      BY <1>17, <3>2, IdsDiffer DEF Of
    <3> QED BY <1>17, <2>1, <3>1, <3>3, RewriteKeeps, RewriteOrder
  <2> QED BY <2>2, <2>3
<1>19. /\ ParentFirst(journal', n)
       /\ \A l \in Of(j, n) : l.id # Part(n) => l \in Of(journal', n)
       /\ \A l \in Of(journal', n) : (l \in Of(j, n) /\ l.id # Part(n)) \/ Counts(n, l, c.net)
       /\ \E l \in Of(journal', n) : Counts(n, l, c.net)
  <2>1. \A l \in Of(journal, n) : l.id = Part(n) => l \in Of(j, n) /\ l.status = "closed"
    BY <1>5, <1>18, IdsDiffer DEF FileFits, ChildFits
  <2> QED BY <1>3, <1>15, <1>16, <1>18, <2>1, ChildWritten
<1>20. /\ o \in Of(journal', n)
       /\ \A l \in Of(journal', n) : l = o \/ (l.id = Part(n) /\ l.net = Seen(n) /\ l.status = "closed")
  <2>1. o \in Of(j, n) /\ o.id # Part(n)
    BY <1>17, <1>18, IdsDiffer
  <2>2. \A l \in Of(j, n) : l.id # Part(n) => l = o
    BY <1>5, <1>18 DEF FileFits
  <2> QED BY <1>16, <1>19, <2>1, <2>2 DEF Counts
<1>21. FileFits(n)'
  <2>1. ParentFits(n, o)'
    BY <1>10, <1>11, <1>17 DEF ParentFits
  <2>2. \A l : l.net = Seen(n) /\ l.status = "closed" => ChildFits(n, l)'
    BY <1>8, <1>9, <1>10, <1>11 DEF ChildFits
  <2>3. \A l \in Of(journal', n) : (l.id = TradeId(n) /\ ParentFits(n, l)') \/ (l.id = Part(n) /\ ChildFits(n, l)')
    BY <1>17, <1>20, <2>1, <2>2
  <2>4. Names(journal', TradeId(n))
    BY <1>17, <1>20, OfNamed
  <2> QED BY <1>8, <1>9, <1>10, <1>11, <1>19, <2>3, <2>4 DEF FileFits
<1>22. AsOnExchange(n)'
  <2>1. \A l \in Of(journal', n) : l.id = TradeId(n) => l = o
    BY <1>17, <1>20, IdsDiffer
  <2>2. life'[n] = "open" /\ left'[n] = left[n]
    BY <1>8, <1>10
  <2> QED BY <1>11, <1>16, <1>17, <1>19, <2>1, <2>2 DEF AsOnExchange, Counts
<1>23. AllClaimed(n)' /\ ScaledOut(n)'
  BY <1>1, <1>4, <1>6, <1>7, <1>8, <1>11 DEF AllClaimed, ScaledOut, claim
<1>24. TradeId(n) \in handled' /\ Part(n) \notin handled'
  BY <1>1, <1>5, IdsDiffer DEF PassFits
<1>25. Names(journal', TradeId(n))
  BY <1>17, <1>20, OfNamed
<1> QED BY <1>1, <1>21, <1>22, <1>23, <1>24, <1>25

LEMMA PrePassOpenOwn ==
  ASSUME NEW n \in Trades, Own(n), BaseInv, OwnInv(n), PrePassOpen PROVE OwnInv(n)'
<1> DEFINE t == Head(lines)
<1>1. LooksAt /\ pc # "main" /\ Engaged(t)
  BY DEF PrePassOpen, NextLine, PrePasses, LooksAt, Loops
<1> SUFFICES ASSUME ~ raced PROVE OwnInv(n)'
  BY <1>1, LoopOwn
<1>2. CASE t.id.pair # PairOf[n]
  <2>1. Differs(journal, journal', t.id.pair)
    BY PrePassOpenTouches DEF BaseInv
  <2>2. /\ usedG' = usedG \cup ClaimedGroups(t) /\ handled' = handled \cup {t.id}
        /\ \E p \in ClaimedPosition(t) : usedP' = usedP \cup {p}
    BY DEF PrePassOpen
  <2>3. /\ \A g \in ClaimedGroups(t) : g.pair = t.id.pair
        /\ \A p \in ClaimedPosition(t) : p.pair = t.id.pair
    BY DEF ClaimedGroups, ClaimedPosition
  <2> HIDE DEF t
  <2>4. /\ usedG \subseteq usedG' /\ \A g \in usedG' : g \in usedG \/ g.pair = t.id.pair
        /\ usedP \subseteq usedP' /\ \A p \in usedP' : p \in usedP \/ p.pair = t.id.pair
        /\ handled \subseteq handled' /\ \A id \in handled' : id \in handled \/ id = t.id
    BY <2>2, <2>3
  <2> QED BY <1>1, <1>2, <2>1, <2>4, PairGoesOn DEF t
<1>3. CASE t.id.pair = PairOf[n] /\ t.id # TradeId(n)
  BY <1>1, <1>3, PartAtHead
<1>4. CASE t.id = TradeId(n)
  <2>1. FileFits(n)' /\ AsOnExchange(n)' /\ AllClaimed(n)' /\ TradeId(n) \in handled' /\ Part(n) \notin handled'
        /\ Names(journal', TradeId(n)) /\ ScaledOut(n)'
    BY <1>4, PrePassOpenAtOwn
  <2>2. PrePassed(n)'
    BY <2>1 DEF PrePassed
  <2> QED BY <1>1, <1>4, <2>1, <2>2, OwnGoesOn
<1> QED BY <1>2, <1>3, <1>4

\* What the pre-pass sees of a trade that is flat after exits at several prices.
LEMMA PrePassFlatSees ==
  ASSUME NEW n \in Trades, Own(n), BaseInv, ~ raced, OwnInv(n), PrePassFlat, Head(lines).id = TradeId(n)
  PROVE  /\ LooksAt /\ pc = "scaleout" /\ rows = visible /\ Untouched(n) /\ ScaledOut(n) /\ Names(journal, TradeId(n))
         /\ Head(lines) \in Line /\ Head(lines) \in Of(journal, n) /\ ParentFits(n, Head(lines))
         /\ LineOf(TradeId(n)) = Head(lines) /\ ~ IsLadder(Head(lines))
         /\ ClaimedGroups(Head(lines)) = GroupsOf(n) /\ ClaimedPosition(Head(lines)) = PositionsOf(n)
         /\ life[n] = "flat" /\ PositionsOf(n) = {} /\ \E x, y \in Seen(n) : x.entry # y.entry
         /\ GroupsOf(n) # {} /\ RowsOf(GroupsOf(n)) = Seen(n) /\ Seen(n) # {}
<1> DEFINE t == Head(lines)
<1>1. LooksAt /\ pc # "main" /\ Engaged(t) /\ ClaimedPosition(t) = {}
  BY DEF PrePassFlat, NextLine, PrePasses, LooksAt, Loops
<1>2. t.id.pair = PairOf[n]
  BY IdsDiffer
<1>3. pc = "scaleout" /\ rows = visible /\ Untouched(n) /\ Names(journal, TradeId(n)) /\ t \in Line
      /\ PositionsOf(n) = IF life[n] = "open" THEN {[pair |-> PairOf[n], entry |-> avg[n], size |-> left[n]]} ELSE {}
  BY <1>1, <1>2, AtHead, OwnAtHead
<1>4. /\ t \in Of(journal, n) /\ ParentFits(n, t) /\ LineOf(TradeId(n)) = t
      /\ ClaimedGroups(t) = GroupsOf(n) /\ ClaimedPosition(t) = PositionsOf(n) /\ ~ IsLadder(t)
  BY <1>1, <1>3, OwnAtHead DEF Untouched
<1>5. ExchangeFits(n) /\ FileFits(n)
  BY DEF OwnInv
<1>6. ScaledOut(n) /\ PositionsOf(n) = {} /\ life[n] # "open" /\ GroupsOf(n) # {} /\ \E g, h \in GroupsOf(n) : g # h
  BY <1>1, <1>2, <1>3, <1>4, EngagedOnly DEF ScaledOut
<1>7. RowsOf(GroupsOf(n)) = Seen(n) /\ Seen(n) # {} /\ \E x, y \in Seen(n) : x.entry # y.entry
  BY <1>3, <1>6, RowsOfGroups
<1>8. life[n] = "flat"
  <2>1. Mine(n) # {}
    BY <1>7, SeenIsMine
  <2> QED BY <1>5, <1>6, <2>1 DEF ExchangeFits
<1> QED BY <1>1, <1>3, <1>4, <1>6, <1>7, <1>8

\* The trade is flat after exits at several prices: one line counts them all,
\* and there is no child any more.
LEMMA PrePassFlatAtOwn ==
  ASSUME NEW n \in Trades, Own(n), BaseInv, ~ raced, OwnInv(n), PrePassFlat, Head(lines).id = TradeId(n)
  PROVE  FileFits(n)' /\ AsOnExchange(n)' /\ AllClaimed(n)' /\ TradeId(n) \in handled' /\ Part(n) \notin handled'
         /\ Names(journal', TradeId(n)) /\ ScaledOut(n)' /\ LooksAt
<1> DEFINE t == Head(lines)
           claim == ClaimedGroups(t)
<1>1. /\ LooksAt /\ pc # "main" /\ Engaged(t) /\ ClaimedPosition(t) = {} /\ UNCHANGED usedP
      /\ usedG' = usedG \cup claim /\ handled' = handled \cup {TradeId(n)}
  BY DEF PrePassFlat, NextLine, PrePasses, LooksAt, Loops
<1>2. t.id.pair = PairOf[n] /\ ChildId(t.id) = Part(n)
  BY IdsDiffer DEF Part
<1>3. pc = "scaleout" /\ rows = visible /\ Untouched(n) /\ Names(journal, TradeId(n)) /\ t \in Line
      /\ PositionsOf(n) = IF life[n] = "open" THEN {[pair |-> PairOf[n], entry |-> avg[n], size |-> left[n]]} ELSE {}
  BY PrePassFlatSees
<1>4. /\ t \in Of(journal, n) /\ ParentFits(n, t) /\ LineOf(TradeId(n)) = t
      /\ claim = GroupsOf(n) /\ ClaimedPosition(t) = PositionsOf(n) /\ ~ IsLadder(t)
  BY PrePassFlatSees
<1>5. ExchangeFits(n) /\ FileFits(n) /\ PassFits(n)
  BY DEF OwnInv
<1>6. ScaledOut(n) /\ PositionsOf(n) = {} /\ life[n] # "open"
  BY PrePassFlatSees
<1>7. claim # {} /\ RowsOf(claim) = Seen(n) /\ Seen(n) # {}
  BY PrePassFlatSees
<1>8. Seen(n) \subseteq Mine(n) /\ Mine(n) # {} /\ life[n] = "flat"
  BY PrePassFlatSees, SeenIsMine
<1>9. UNCHANGED <<life, avg, left, legs, exits, visible, day, rows, positions>> /\ UNCHANGED exchange
  BY <1>1 DEF LooksAt, exchange
<1>10. /\ Mine(n)' = Mine(n) /\ Seen(n)' = Seen(n) /\ GroupsOf(n)' = GroupsOf(n)
       /\ PositionsOf(n)' = PositionsOf(n)
  BY <1>9 DEF Mine, Seen, GroupsOf, PositionsOf
<1>11. PICK done : done = [t EXCEPT !.status = "closed", !.net = Seen(n), !.size = Cardinality(Seen(n)),
                                    !.entry = MeanEntry(Seen(n))]
  OBVIOUS
<1>12. PICK j : j = IF ReadsClosed(t, Seen(n)) THEN journal ELSE Rewrite(journal, done)
  OBVIOUS
<1>13. PICK o : o = IF ReadsClosed(t, Seen(n)) THEN t ELSE done
  OBVIOUS
<1>14. journal' = Without(j, Part(n))
  <2>1. t.id = TradeId(n) /\ LineOf(t.id) = t
    BY <1>4
  <2>2. RowsOf(ClaimedGroups(t)) = Seen(n)
    BY <1>7, <1>8
  <2>3. journal' = Without(IF ReadsClosed(t, RowsOf(ClaimedGroups(t))) THEN journal
                           ELSE Rewrite(journal, [LineOf(t.id) EXCEPT !.status = "closed", !.net = RowsOf(ClaimedGroups(t)),
                                    !.size = Cardinality(RowsOf(ClaimedGroups(t))),
                                    !.entry = IF IsLadder(t) THEN @ ELSE MeanEntry(RowsOf(ClaimedGroups(t)))]),
                           ChildId(t.id))
    BY DEF PrePassFlat
  <2> HIDE DEF t
  <2> QED BY <1>2, <1>4, <1>11, <1>12, <2>1, <2>2, <2>3
<1> HIDE DEF claim, t
<1>15. InReach(n, MeanEntry(Seen(n))) /\ MeanEntry(Seen(n)) \in Nat /\ Seen(n) \in SUBSET Exit /\ Cardinality(Seen(n)) \in Nat
  BY <1>5, <1>7, MeanInReach
<1>16. o \in Line /\ o.id = TradeId(n) /\ o.status = "closed" /\ o.net = Seen(n) /\ ParentFits(n, o)
  <2>1. CASE ReadsClosed(t, Seen(n))
    BY <1>3, <1>4, <1>13, <2>1 DEF ReadsClosed, t
  <2>2. CASE ~ ReadsClosed(t, Seen(n))
    <3>1. /\ done \in Line /\ done.id = TradeId(n) /\ done.status = "closed" /\ done.net = Seen(n)
          /\ done.entry = MeanEntry(Seen(n)) /\ done.day = t.day
      BY <1>3, <1>11, <1>15 DEF Line, t
    <3>2. ParentFits(n, done)
      BY <1>4, <1>8, <1>15, <3>1 DEF ParentFits
    <3> QED BY <1>13, <2>2, <3>1, <3>2
  <2> QED BY <2>1, <2>2
<1>17. j \in Seq(Line) /\ ParentFirst(j, n) /\ Of(j, n) = {l \in Of(journal, n) : l.id # TradeId(n)} \cup {o}
  <2>1. journal \in Seq(Line) /\ Unique(journal) /\ ParentFirst(journal, n)
    BY <1>5 DEF BaseInv, RecInv, FileHolds, FileFits
  <2>2. CASE ReadsClosed(t, Seen(n))
    <3>1. \A l \in Of(journal, n) : l.id = TradeId(n) => l = t
      BY <1>4, <2>1, OneOfEach DEF Of, t
    <3>2. t.id = TradeId(n)
      BY DEF t
    <3> QED BY <1>4, <1>12, <1>13, <2>1, <2>2, <3>1, <3>2
  <2>3. CASE ~ ReadsClosed(t, Seen(n))
    <3>1. j = Rewrite(journal, o)
      BY <1>12, <1>13, <2>3
    <3>2. LinesOf(j) = {l \in LinesOf(journal) : l.id # TradeId(n)} \cup {o}
      BY <1>3, <1>16, <3>1, RewriteLines
    <3>3. Of(j, n) = {l \in Of(journal, n) : l.id # TradeId(n)} \cup {o}
      BY <1>16, <3>2, IdsDiffer DEF Of
    <3> QED BY <1>16, <2>1, <3>1, <3>3, RewriteKeeps, RewriteOrder
  <2> QED BY <2>2, <2>3
<1>18. Of(journal', n) = {o} /\ ParentFirst(journal', n)
  <2>1. LinesOf(journal') = {l \in LinesOf(j) : l.id # Part(n)}
    BY <1>14, <1>17, WithoutLines
  <2>2. Of(journal', n) = {l \in Of(j, n) : l.id # Part(n)}
    BY <2>1 DEF Of
  <2>3. \A l \in Of(journal, n) : l.id = TradeId(n) \/ l.id = Part(n)
    BY <1>5 DEF FileFits
  <2>4. Of(journal', n) = {o}
    BY <1>16, <1>17, <2>2, <2>3, IdsDiffer
  <2> QED BY <1>14, <1>17, <2>4, WithoutOrder, IdsDiffer
<1>19. Names(journal', TradeId(n))
  BY <1>16, <1>18, OfNamed
<1>20. FileFits(n)'
  <2>1. ParentFits(n, o)'
    BY <1>9, <1>10, <1>16 DEF ParentFits
  <2>2. Settled(n)'
    BY <1>10, <1>16, <1>18 DEF Settled
  <2> QED BY <1>8, <1>10, <1>16, <1>18, <1>19, <2>1, <2>2 DEF FileFits
<1>21. AsOnExchange(n)'
  <2>1. life'[n] = "flat"
    BY <1>8, <1>9
  <2> QED BY <1>10, <1>16, <1>18, <2>1, IdsDiffer DEF AsOnExchange
<1>22. AllClaimed(n)' /\ ScaledOut(n)'
  BY <1>1, <1>4, <1>6, <1>10 DEF AllClaimed, ScaledOut, claim, t
<1>23. TradeId(n) \in handled' /\ Part(n) \notin handled'
  BY <1>1, <1>5, IdsDiffer DEF PassFits
<1> QED BY <1>1, <1>19, <1>20, <1>21, <1>22, <1>23

LEMMA PrePassFlatOwn ==
  ASSUME NEW n \in Trades, Own(n), BaseInv, OwnInv(n), PrePassFlat PROVE OwnInv(n)'
<1> DEFINE t == Head(lines)
<1>1. LooksAt /\ pc # "main" /\ Engaged(t)
  BY DEF PrePassFlat, NextLine, PrePasses, LooksAt, Loops
<1> SUFFICES ASSUME ~ raced PROVE OwnInv(n)'
  BY <1>1, LoopOwn
<1>2. CASE t.id.pair # PairOf[n]
  <2>1. Differs(journal, journal', t.id.pair)
    BY PrePassFlatTouches DEF BaseInv
  <2>2. usedG' = usedG \cup ClaimedGroups(t) /\ handled' = handled \cup {t.id} /\ usedP' = usedP
    BY DEF PrePassFlat
  <2>3. \A g \in ClaimedGroups(t) : g.pair = t.id.pair
    BY DEF ClaimedGroups
  <2> HIDE DEF t
  <2>4. /\ usedG \subseteq usedG' /\ \A g \in usedG' : g \in usedG \/ g.pair = t.id.pair
        /\ usedP \subseteq usedP' /\ \A p \in usedP' : p \in usedP \/ p.pair = t.id.pair
        /\ handled \subseteq handled' /\ \A id \in handled' : id \in handled \/ id = t.id
    BY <2>2, <2>3
  <2> QED BY <1>1, <1>2, <2>1, <2>4, PairGoesOn DEF t
<1>3. CASE t.id.pair = PairOf[n] /\ t.id # TradeId(n)
  BY <1>1, <1>3, PartAtHead
<1>4. CASE t.id = TradeId(n)
  <2>1. FileFits(n)' /\ AsOnExchange(n)' /\ AllClaimed(n)' /\ TradeId(n) \in handled' /\ Part(n) \notin handled'
        /\ Names(journal', TradeId(n)) /\ ScaledOut(n)'
    BY <1>4, PrePassFlatAtOwn
  <2>2. PrePassed(n)'
    BY <2>1 DEF PrePassed
  <2> QED BY <1>1, <1>4, <2>1, <2>2, OwnGoesOn
<1> QED BY <1>2, <1>3, <1>4

-----------------------------------------------------------------------------
(* The main loop                                                           *)

\* What the main loop finds at the line of a trade the pre-pass left.
LEMMA LeftToMain ==
  ASSUME NEW n \in Trades, Own(n), BaseInv, ~ raced, OwnInv(n), LooksAt, pc = "main",
         Head(lines).id = TradeId(n), TradeId(n) \notin handled
  PROVE  /\ Head(lines) \in Line /\ Head(lines) \in Of(journal, n) /\ ParentFits(n, Head(lines))
         /\ LineOf(TradeId(n)) = Head(lines) /\ Names(journal, TradeId(n)) /\ HasLine(TradeId(n))
         /\ FreeGroups(Head(lines)) = GroupsOf(n) /\ FreePositions(Head(lines)) = PositionsOf(n)
         /\ ~ ScaledOut(n) /\ Untouched(n) /\ rows = visible
         /\ PositionsOf(n) = IF life[n] = "open" THEN {[pair |-> PairOf[n], entry |-> avg[n], size |-> left[n]]} ELSE {}
         /\ ExchangeFits(n) /\ FileFits(n) /\ PassFits(n)
<1>1. Head(lines).id.pair = PairOf[n]
  BY IdsDiffer
<1>2. PrePassed(n) /\ Names(journal, TradeId(n))
  BY OwnAtHead
<1>3. ~ ScaledOut(n) /\ Untouched(n)
  BY <1>2 DEF PrePassed
<1>4. /\ Head(lines) \in Of(journal, n) /\ ParentFits(n, Head(lines)) /\ LineOf(TradeId(n)) = Head(lines)
      /\ FreeGroups(Head(lines)) = GroupsOf(n) \ usedG /\ FreePositions(Head(lines)) = PositionsOf(n) \ usedP
  BY OwnAtHead
<1>5. FreeGroups(Head(lines)) = GroupsOf(n) /\ FreePositions(Head(lines)) = PositionsOf(n)
  BY <1>3, <1>4 DEF Untouched
<1>6. ExchangeFits(n) /\ FileFits(n) /\ PassFits(n)
  BY DEF OwnInv
<1> QED BY <1>1, <1>2, <1>3, <1>4, <1>5, <1>6, AtHead, HasIsNames

\* What a step of the main loop at its own line has to show.
LEMMA MainOwn ==
  ASSUME NEW n \in Trades, Own(n), BaseInv, ~ raced, OwnInv(n), LooksAt, pc = "main",
         Head(lines).id = TradeId(n), FileFits(n)', Names(journal', TradeId(n)), AsOnExchange(n)',
         GroupsOf(n) \subseteq usedG', PositionsOf(n) \subseteq usedP', UNCHANGED handled
  PROVE  OwnInv(n)'
<1>1. UNCHANGED <<rows, positions>>
  BY DEF LooksAt
<1>2. GroupsOf(n)' = GroupsOf(n) /\ PositionsOf(n)' = PositionsOf(n)
  BY <1>1 DEF GroupsOf, PositionsOf
<1>3. Finished(n)'
  BY <1>2 DEF Finished, AllClaimed
<1>4. Part(n) \notin handled'
  BY DEF OwnInv, PassFits
<1> QED BY <1>3, <1>4, OwnGoesOn

LEMMA MainSkipsOwn ==
  ASSUME NEW n \in Trades, Own(n), BaseInv, OwnInv(n), MainSkips PROVE OwnInv(n)'
<1> DEFINE t == Head(lines)
<1>1. LooksAt /\ UNCHANGED <<journal, usedG, usedP, handled, exchange>> /\ pc = "main"
  BY DEF MainSkips, NextLine, LooksAt, Loops
<1> SUFFICES ASSUME ~ raced PROVE OwnInv(n)'
  BY <1>1, LoopOwn
<1>2. CASE t.id # TradeId(n)
  BY <1>1, <1>2, NothingGoesOn
<1>3. CASE t.id = TradeId(n)
  <2>1. ExchangeFits(n) /\ FileFits(n)
    BY DEF OwnInv
  <2>2. FileFits(n)' /\ (AsOnExchange(n)' <=> AsOnExchange(n))
    BY <1>1, <2>1, FileSame
  <2>3. PrePassed(n) /\ Names(journal, TradeId(n))
    BY <1>1, <1>3, OwnAtHead
  <2>4. Finished(n)
    <3>1. CASE TradeId(n) \in handled
      BY <2>3, <3>1 DEF PrePassed, Untouched, Finished
    <3>2. CASE TradeId(n) \notin handled
      <4>1. t.status = "cancelled"
        BY <1>3, <3>2 DEF MainSkips
      <4>2. t \in Of(journal, n) /\ ParentFits(n, t) /\ rows = visible
            /\ PositionsOf(n) = IF life[n] = "open" THEN {[pair |-> PairOf[n], entry |-> avg[n], size |-> left[n]]} ELSE {}
        BY <1>1, <1>3, <3>2, LeftToMain
      <4>3. life[n] = "withdrawn" /\ Mine(n) = {}
        BY <2>1, <4>1, <4>2 DEF ParentFits, ExchangeFits
      <4>4. Seen(n) = {}
        BY <4>3, SeenIsMine
      <4>5. GroupsOf(n) = {} /\ PositionsOf(n) = {}
        BY <4>2, <4>3, <4>4, RowsOfGroups
      <4>6. \A l \in Of(journal, n) : l.id = TradeId(n) => l = t
        <5>1. Unique(journal)
          BY DEF BaseInv, RecInv, FileHolds
        <5> HIDE DEF t
        <5> QED BY <1>3, <4>2, <5>1, OneOfEach DEF Of
      <4>7. AsOnExchange(n)
        BY <4>1, <4>3, <4>6 DEF AsOnExchange
      <4> QED BY <4>5, <4>7 DEF Finished, AllClaimed
    <3> QED BY <3>1, <3>2
  <2> QED BY <1>1, <1>3, <2>2, <2>3, <2>4, MainOwn DEF Finished, AllClaimed
<1> QED BY <1>2, <1>3

LEMMA MainOpensOwn ==
  ASSUME NEW n \in Trades, Own(n), BaseInv, OwnInv(n), MainOpens PROVE OwnInv(n)'
<1> DEFINE t == Head(lines)
<1>1. LooksAt /\ UNCHANGED <<usedG, handled, exchange>> /\ pc = "main" /\ t.id \notin handled
  BY DEF MainOpens, Matches, NextLine, LooksAt, Loops
<1> SUFFICES ASSUME ~ raced PROVE OwnInv(n)'
  BY <1>1, LoopOwn
<1>2. PICK p \in FreePositions(t) :
        /\ usedP' = usedP \cup {p}
        /\ journal' = IF ReadsOpen(t, p) THEN journal ELSE Rewrite(journal, [Opened(t, p) EXCEPT !.entry = p.entry])
  BY DEF MainOpens
<1>3. CASE t.id.pair # PairOf[n]
  <2>1. Differs(journal, journal', t.id.pair) /\ p.pair = t.id.pair
    BY MainOpensTouches DEF BaseInv, FreePositions
  <2> HIDE DEF t
  <2>2. /\ usedG \subseteq usedG' /\ \A g \in usedG' : g \in usedG \/ g.pair = t.id.pair
        /\ usedP \subseteq usedP' /\ \A q \in usedP' : q \in usedP \/ q.pair = t.id.pair
        /\ handled \subseteq handled' /\ \A id \in handled' : id \in handled \/ id = t.id
    BY <1>1, <1>2, <2>1
  <2> QED BY <1>1, <1>3, <2>1, <2>2, PairGoesOn DEF t
<1>4. CASE t.id.pair = PairOf[n] /\ t.id # TradeId(n)
  BY <1>1, <1>2, <1>4, PartAtHead
<1>5. CASE t.id = TradeId(n)
  <2>1. /\ t \in Line /\ t \in Of(journal, n) /\ ParentFits(n, t) /\ LineOf(TradeId(n)) = t
        /\ FreePositions(t) = PositionsOf(n) /\ ~ ScaledOut(n) /\ rows = visible
        /\ PositionsOf(n) = IF life[n] = "open" THEN {[pair |-> PairOf[n], entry |-> avg[n], size |-> left[n]]} ELSE {}
        /\ ExchangeFits(n) /\ FileFits(n)
    BY <1>1, <1>5, LeftToMain
  <2>2. life[n] = "open" /\ PositionsOf(n) = {p} /\ p.size = left[n] /\ p.entry = avg[n]
    BY <1>2, <2>1
  <2>3. GroupsOf(n) = {} /\ Seen(n) = {}
    BY <2>1, <2>2, RowsOfGroups DEF ScaledOut
  <2>4. PICK o : o = IF ReadsOpen(t, p) THEN t ELSE [t EXCEPT !.status = "open", !.size = left[n], !.entry = avg[n]]
    OBVIOUS
  <2>5. (journal' = journal /\ o = t) \/ journal' = Rewrite(journal, o)
    <3>1. LineOf(t.id) = t
      BY <1>5, <2>1
    <3> HIDE DEF t
    <3>2. [Opened(t, p) EXCEPT !.entry = p.entry] = [t EXCEPT !.status = "open", !.size = left[n], !.entry = avg[n]]
      BY <2>1, <2>2, <3>1 DEF Opened, Line
    <3> QED BY <1>2, <2>4, <3>2
  <2>6. o.id = TradeId(n) /\ o.status = "open" /\ o.size = left[n] /\ ParentFits(n, o)
    <3>0. t.id = TradeId(n)
      BY <1>5
    <3> HIDE DEF t
    <3>1. CASE ReadsOpen(t, p)
      BY <2>1, <2>2, <2>4, <3>0, <3>1 DEF ReadsOpen
    <3>2. CASE ~ ReadsOpen(t, p)
      <4>1. /\ o.id = TradeId(n) /\ o.status = "open" /\ o.size = left[n] /\ o.entry = avg[n]
            /\ o.day = t.day /\ o.net = t.net
        BY <2>1, <2>4, <3>0, <3>2 DEF Line
      <4> QED BY <2>1, <2>2, <4>1 DEF ParentFits, ExchangeFits
    <3> QED BY <3>1, <3>2
  <2>7. /\ FileFits(n)' /\ Names(journal', TradeId(n))
        /\ Of(journal', n) = {l \in Of(journal, n) : l.id # TradeId(n)} \cup {o}
    BY <1>1, <1>5, <2>1, <2>2, <2>5, <2>6, OwnSet
  <2>8. AsOnExchange(n)'
    <3>1. UNCHANGED <<life, left, visible>>
      BY <1>1 DEF exchange
    <3>2. Seen(n)' = {} /\ life'[n] = "open" /\ left'[n] = left[n]
      BY <2>2, <2>3, <3>1 DEF Seen
    <3>3. \A l \in Of(journal', n) : l.id = TradeId(n) => l = o
      BY <2>7
    <3> QED BY <2>6, <3>2, <3>3 DEF AsOnExchange
  <2>9. GroupsOf(n) \subseteq usedG' /\ PositionsOf(n) \subseteq usedP'
    BY <1>2, <2>2, <2>3
  <2> QED BY <1>1, <1>5, <2>7, <2>8, <2>9, MainOwn
<1> QED BY <1>3, <1>4, <1>5

\* One group, and flat: the line counts what the exchange lists of the trade.
LEMMA MainClosesOwn ==
  ASSUME NEW n \in Trades, Own(n), BaseInv, OwnInv(n), MainCloses PROVE OwnInv(n)'
<1> DEFINE t == Head(lines)
<1>1. LooksAt /\ UNCHANGED <<usedP, handled, exchange>> /\ pc = "main" /\ t.id \notin handled /\ FreePositions(t) = {}
  BY DEF MainCloses, Matches, NextLine, LooksAt, Loops
<1> SUFFICES ASSUME ~ raced PROVE OwnInv(n)'
  BY <1>1, LoopOwn
<1>2. PICK g \in FreeGroups(t) :
        /\ usedG' = usedG \cup {g}
        /\ journal' = IF ReadsClosed(t, g.rows) THEN journal
                      ELSE Rewrite(journal, [LineOf(t.id) EXCEPT !.status = "closed", !.entry = g.entry,
                                                      !.net = g.rows, !.size = Cardinality(g.rows)])
  BY DEF MainCloses
<1>3. CASE t.id.pair # PairOf[n]
  <2>1. Differs(journal, journal', t.id.pair) /\ g.pair = t.id.pair
    BY MainClosesTouches DEF BaseInv, FreeGroups
  <2> HIDE DEF t
  <2>2. /\ usedG \subseteq usedG' /\ \A h \in usedG' : h \in usedG \/ h.pair = t.id.pair
        /\ usedP \subseteq usedP' /\ \A q \in usedP' : q \in usedP \/ q.pair = t.id.pair
        /\ handled \subseteq handled' /\ \A id \in handled' : id \in handled \/ id = t.id
    BY <1>1, <1>2, <2>1
  <2> QED BY <1>1, <1>3, <2>1, <2>2, PairGoesOn DEF t
<1>4. CASE t.id.pair = PairOf[n] /\ t.id # TradeId(n)
  BY <1>1, <1>2, <1>4, PartAtHead
<1>5. CASE t.id = TradeId(n)
  <2>1. /\ t \in Line /\ t \in Of(journal, n) /\ ParentFits(n, t) /\ LineOf(TradeId(n)) = t
        /\ FreePositions(t) = PositionsOf(n) /\ FreeGroups(t) = GroupsOf(n) /\ ~ ScaledOut(n) /\ rows = visible
        /\ PositionsOf(n) = IF life[n] = "open" THEN {[pair |-> PairOf[n], entry |-> avg[n], size |-> left[n]]} ELSE {}
        /\ ExchangeFits(n) /\ FileFits(n)
    BY <1>1, <1>5, LeftToMain
  <2>2. life[n] # "open" /\ PositionsOf(n) = {} /\ g \in GroupsOf(n) /\ \A h \in GroupsOf(n) : h = g
    BY <1>1, <1>2, <2>1 DEF ScaledOut
  <2>3. g.rows = Seen(n) /\ Seen(n) # {} /\ (\E x \in Seen(n) : x.entry = g.entry)
        /\ ~ \E x, y \in Seen(n) : x.entry # y.entry
    BY <2>1, <2>2, RowsOfGroups, GroupsHold
  <2>4. visible \subseteq exits /\ exits \subseteq Exit
    BY DEF BaseInv, RecInv, MarketHolds
  <2>5. Seen(n) \subseteq Mine(n) /\ Mine(n) # {} /\ life[n] = "flat"
    <3>1. Seen(n) \subseteq Mine(n) /\ Mine(n) # {}
      BY <2>3, SeenIsMine
    <3> QED BY <2>1, <2>2, <3>1 DEF ExchangeFits
  <2>6. PICK o : o = IF ReadsClosed(t, Seen(n)) THEN t
                     ELSE [t EXCEPT !.status = "closed", !.entry = g.entry, !.net = Seen(n), !.size = Cardinality(Seen(n))]
    OBVIOUS
  <2>7. (journal' = journal /\ o = t) \/ journal' = Rewrite(journal, o)
    <3>1. LineOf(t.id) = t /\ g.rows = Seen(n)
      BY <1>5, <2>1, <2>3, <2>5
    <3> HIDE DEF t
    <3> QED BY <1>2, <2>6, <3>1
  <2>8. o.id = TradeId(n) /\ o.status = "closed" /\ o.net = Seen(n) /\ ParentFits(n, o)
    <3>0. t.id = TradeId(n)
      BY <1>5
    <3> HIDE DEF t
    <3>1. CASE ReadsClosed(t, Seen(n))
      BY <2>1, <2>6, <3>0, <3>1 DEF ReadsClosed
    <3>2. CASE ~ ReadsClosed(t, Seen(n))
      <4>1. /\ o.id = TradeId(n) /\ o.status = "closed" /\ o.net = Seen(n) /\ o.entry = g.entry /\ o.day = t.day
        BY <2>1, <2>6, <3>0, <3>2 DEF Line
      <4>2. InReach(n, g.entry)
        BY <2>1, <2>3, <2>5 DEF ExchangeFits
      <4> QED BY <2>1, <2>5, <4>1, <4>2 DEF ParentFits
    <3> QED BY <3>1, <3>2
  <2>9. /\ FileFits(n)' /\ Names(journal', TradeId(n))
        /\ Of(journal', n) = {l \in Of(journal, n) : l.id # TradeId(n)} \cup {o}
    BY <1>1, <1>5, <2>1, <2>7, <2>8, OwnSet
  <2>10. AsOnExchange(n)'
    <3>1. UNCHANGED <<life, left, exits, visible>>
      BY <1>1 DEF exchange
    <3>2. Mine(n)' = Mine(n) /\ Seen(n)' = Seen(n) /\ life'[n] = "flat"
      BY <2>5, <3>1 DEF Mine, Seen
    <3>3. \A l \in Of(journal', n) : l.id = TradeId(n) => l = o
      BY <2>9
    <3> QED BY <2>3, <2>8, <3>2, <3>3 DEF AsOnExchange
  <2>11. GroupsOf(n) \subseteq usedG' /\ PositionsOf(n) \subseteq usedP'
    BY <1>1, <1>2, <2>2
  <2> QED BY <1>1, <1>5, <2>9, <2>10, <2>11, MainOwn
<1> QED BY <1>3, <1>4, <1>5

\* The orders the pass has of its pair: its entry, and its legs.
LEMMA OrdersOwn ==
  ASSUME NEW n \in Trades, Own(n), {o \in orders : o.pair = PairOf[n]} = OrdersOf(PairOf[n])
  PROVE  /\ life[n] = "resting" => \E o \in orders : ~ o.reduce /\ o.pair = PairOf[n] /\ o.entry = Level[n]
         /\ \A o \in orders : ~ o.reduce /\ o.pair = PairOf[n] => life[n] = "resting"
<1>1. ASSUME life[n] = "resting" PROVE \E o \in orders : ~ o.reduce /\ o.pair = PairOf[n] /\ o.entry = Level[n]
  <2> DEFINE o == [pair |-> PairOf[n], entry |-> Level[n], reduce |-> FALSE]
  <2>1. o \in OrdersOf(PairOf[n])
    BY <1>1 DEF OrdersOf
  <2>2. ~ o.reduce /\ o.pair = PairOf[n] /\ o.entry = Level[n]
    OBVIOUS
  <2>3. o \in orders
    BY <2>1
  <2> HIDE DEF o
  <2> QED BY <2>2, <2>3
<1>2. ASSUME NEW o \in orders, ~ o.reduce, o.pair = PairOf[n] PROVE life[n] = "resting"
  <2>1. o \in OrdersOf(PairOf[n])
    BY <1>2
  <2>2. \A m \in Trades : PairOf[m] = PairOf[n] => m = n
    BY DEF Own
  <2>3. \/ \E m \in Trades : PairOf[m] = PairOf[n] /\ life[m] = "resting"
        \/ \E m \in Ladders : PairOf[m] = PairOf[n]
        \/ o.reduce = TRUE
    BY <2>1 DEF OrdersOf
  <2>4. ~ \E m \in Ladders : PairOf[m] = PairOf[n]
    BY <2>2, ConstantsAssumption DEF Own
  <2> QED BY <1>2, <2>2, <2>3, <2>4
<1> QED BY <1>1, <1>2

\* What the loop sees of a trade of which the exchange has no position and
\* lists no row: its line is closed, or pending, and then its
\* entry still rests unless it was withdrawn.
LEMMA MainCancelsSees ==
  ASSUME NEW n \in Trades, Own(n), BaseInv, ~ raced, OwnInv(n), MainCancels, Head(lines).id = TradeId(n)
  PROVE  /\ Head(lines) \in Line /\ Head(lines) \in Of(journal, n) /\ ParentFits(n, Head(lines))
         /\ LineOf(TradeId(n)) = Head(lines) /\ \A l \in Of(journal, n) : l.id = TradeId(n) => l = Head(lines)
         /\ GroupsOf(n) = {} /\ PositionsOf(n) = {} /\ FileFits(n)
         /\ life[n] \in {"resting", "flat", "withdrawn"} /\ Seen(n) = {}
         /\ life[n] = "flat" => Head(lines).status = "closed"
         /\ life[n] # "flat" => Head(lines).status = "pending"
         /\ Head(lines).status = "pending" => (StillResting(Head(lines)) <=> life[n] = "resting")
<1> DEFINE t == Head(lines)
<1>0. /\ LooksAt /\ pc = "main" /\ t.id \notin handled /\ t.id = TradeId(n)
      /\ FreePositions(t) = {} /\ FreeGroups(t) = {} /\ t.status \in Matchable
  BY DEF MainCancels, Matches, NextLine, LooksAt, Loops
<1>1. /\ t \in Line /\ t \in Of(journal, n) /\ ParentFits(n, t) /\ LineOf(TradeId(n)) = t
      /\ FreePositions(t) = PositionsOf(n) /\ FreeGroups(t) = GroupsOf(n) /\ rows = visible
      /\ PositionsOf(n) = IF life[n] = "open" THEN {[pair |-> PairOf[n], entry |-> avg[n], size |-> left[n]]} ELSE {}
      /\ ExchangeFits(n) /\ FileFits(n) /\ PassFits(n)
  BY <1>0, LeftToMain
<1>2. life[n] # "open" /\ Seen(n) = {}
  <2>1. GroupsOf(n) = {} /\ PositionsOf(n) = {}
    BY <1>0, <1>1
  <2>2. Seen(n) = {}
    BY <1>1, <2>1, RowsOfGroups
  <2> QED BY <1>1, <2>1, <2>2
<1>3. life[n] \in {"resting", "flat", "withdrawn"}
  <2>1. life[n] \in Lives
    BY DEF BaseInv, RecInv, MarketHolds, Lives
  <2> QED BY <1>1, <1>2, <2>1 DEF Lives, ParentFits, ExchangeFits
<1>4. \A l \in Of(journal, n) : l.id = TradeId(n) => l = t
  <2>1. Unique(journal)
    BY DEF BaseInv, RecInv, FileHolds
  <2> HIDE DEF t
  <2> QED BY <1>0, <1>1, <2>1, OneOfEach DEF Of
<1>5. life[n] = "flat" => t.status = "closed"
  <2> SUFFICES ASSUME life[n] = "flat" PROVE t.status = "closed"
    OBVIOUS
  <2>1. Settled(n)
    BY <1>1, <1>2 DEF FileFits, Missed
  <2> QED BY <1>4, <2>1 DEF Settled
<1>6. life[n] # "flat" => t.status = "pending"
  <2>1. t.status \in {"closed", "open"} => life[n] \in {"open", "flat"}
    BY <1>1 DEF ParentFits
  <2> QED BY <1>0, <1>2, <2>1 DEF Matchable
<1>7. t.status = "pending" => (StillResting(t) <=> life[n] = "resting")
  <2>0. t.id.pair = PairOf[n] /\ t.entry \in Nat /\ Level[n] \in Nat /\ InReach(n, Level[n]) /\ InReach(n, t.entry)
    BY <1>0, <1>1, IdsDiffer, ConstantsAssumption DEF Line, InReach, ParentFits
  <2>1. MatchPx(Level[n], t.entry)
    BY <2>0, Close
  <2>2. {o \in orders : o.pair = PairOf[n]} = OrdersOf(PairOf[n])
    BY <1>0, <1>1 DEF PassFits
  <2> HIDE DEF t
  <2>3. StillResting(t) => life[n] = "resting"
    BY <2>0, <2>2, OrdersOwn DEF StillResting
  <2>4. t.status = "pending" /\ life[n] = "resting" => StillResting(t)
    <3> SUFFICES ASSUME t.status = "pending", life[n] = "resting" PROVE StillResting(t)
      OBVIOUS
    <3>1. PICK o \in orders : ~ o.reduce /\ o.pair = PairOf[n] /\ o.entry = Level[n]
      BY <2>2, OrdersOwn
    <3> QED BY <2>0, <2>1, <3>1 DEF StillResting
  <2> QED BY <2>3, <2>4
<1>8. GroupsOf(n) = {} /\ PositionsOf(n) = {}
  BY <1>0, <1>1
<1> QED BY <1>1, <1>2, <1>3, <1>4, <1>5, <1>6, <1>7, <1>8

LEMMA MainCancelsOwn ==
  ASSUME NEW n \in Trades, Own(n), BaseInv, OwnInv(n), MainCancels PROVE OwnInv(n)'
<1> DEFINE t == Head(lines)
<1>1. /\ LooksAt /\ UNCHANGED <<usedG, usedP, handled, exchange>> /\ pc = "main" /\ t.id \notin handled
      /\ FreePositions(t) = {} /\ FreeGroups(t) = {} /\ t.status \in Matchable
  BY DEF MainCancels, Matches, NextLine, LooksAt, Loops
<1> SUFFICES ASSUME ~ raced PROVE OwnInv(n)'
  BY <1>1, LoopOwn
<1>2. journal' = IF t.status = "closed" \/ StillResting(t) THEN journal
                 ELSE Rewrite(journal, [LineOf(t.id) EXCEPT !.status = "cancelled"])
  BY DEF MainCancels
<1>3. CASE t.id.pair # PairOf[n]
  <2>1. Differs(journal, journal', t.id.pair)
    BY MainCancelsTouches DEF BaseInv
  <2> HIDE DEF t
  <2>2. /\ usedG \subseteq usedG' /\ \A h \in usedG' : h \in usedG \/ h.pair = t.id.pair
        /\ usedP \subseteq usedP' /\ \A q \in usedP' : q \in usedP \/ q.pair = t.id.pair
        /\ handled \subseteq handled' /\ \A id \in handled' : id \in handled \/ id = t.id
    BY <1>1
  <2> QED BY <1>1, <1>3, <2>1, <2>2, PairGoesOn DEF t
<1>4. CASE t.id.pair = PairOf[n] /\ t.id # TradeId(n)
  <2>1. t.status = "closed"
    BY <1>1, <1>4, PartAtHead
  <2>2. UNCHANGED <<journal, usedG, usedP, handled>>
    BY <1>1, <1>2, <2>1
  <2> QED BY <1>1, <1>4, <2>2, NothingGoesOn
<1>5. CASE t.id = TradeId(n)
  <2>1. /\ t \in Line /\ t \in Of(journal, n) /\ ParentFits(n, t) /\ LineOf(TradeId(n)) = t
        /\ GroupsOf(n) = {} /\ PositionsOf(n) = {} /\ FileFits(n)
        /\ \A l \in Of(journal, n) : l.id = TradeId(n) => l = t
    BY <1>5, MainCancelsSees
  <2>2. /\ life[n] \in {"resting", "flat", "withdrawn"}
        /\ life[n] = "flat" => t.status = "closed"
        /\ life[n] # "flat" => t.status = "pending"
        /\ t.status = "pending" => (StillResting(t) <=> life[n] = "resting")
        /\ Seen(n) = {}
    BY <1>5, MainCancelsSees
  <2>3. UNCHANGED <<life, left, exits, visible>>
    BY <1>1 DEF exchange
  <2>4. Mine(n)' = Mine(n) /\ Seen(n)' = Seen(n)
    BY <2>3 DEF Mine, Seen
  <2>5. PICK o : o = IF t.status = "closed" \/ StillResting(t) THEN t ELSE [t EXCEPT !.status = "cancelled"]
    OBVIOUS
  <2>6. (journal' = journal /\ o = t) \/ journal' = Rewrite(journal, o)
    <3>1. LineOf(t.id) = t
      BY <1>5, <2>1
    <3> HIDE DEF t
    <3> QED BY <1>2, <2>5, <3>1
  <2>7. /\ o.id = TradeId(n) /\ ParentFits(n, o)
        /\ life[n] = "flat" => o.status = "closed"
        /\ life[n] = "resting" => o.status = "pending"
        /\ life[n] = "withdrawn" => o.status = "cancelled"
    <3>0. t.id = TradeId(n)
      BY <1>5
    <3> HIDE DEF t
    <3>1. CASE life[n] # "withdrawn"
      <4>1. o = t
        BY <2>2, <2>5, <3>1
      <4> QED BY <2>1, <2>2, <3>0, <3>1, <4>1
    <3>2. CASE life[n] = "withdrawn"
      <4>1. o = [t EXCEPT !.status = "cancelled"]
        BY <2>2, <2>5, <3>2
      <4>2. o.id = TradeId(n) /\ o.status = "cancelled" /\ o.entry = t.entry /\ o.day = t.day /\ o.net = t.net
        BY <2>1, <3>0, <4>1 DEF Line
      <4> QED BY <2>1, <3>2, <4>2 DEF ParentFits
    <3> QED BY <3>1, <3>2
  <2>8. /\ FileFits(n)' /\ Names(journal', TradeId(n))
        /\ Of(journal', n) = {l \in Of(journal, n) : l.id # TradeId(n)} \cup {o}
    BY <1>1, <1>5, <2>1, <2>2, <2>6, <2>7, OwnSet
  <2>9. AsOnExchange(n)'
    <3>1. \A l \in Of(journal', n) : l.id = TradeId(n) => l = o
      BY <2>8
    <3> QED BY <2>2, <2>3, <2>4, <2>7, <3>1 DEF AsOnExchange
  <2>10. GroupsOf(n) \subseteq usedG' /\ PositionsOf(n) \subseteq usedP'
    BY <1>1, <2>1
  <2> QED BY <1>1, <1>5, <2>8, <2>9, <2>10, MainOwn
<1> QED BY <1>3, <1>4, <1>5

-----------------------------------------------------------------------------
(* The next loop, what nobody claimed, and the end of the pass             *)

\* In a file each id is one line's, so a child's parent is before it.
LEMMA OrderIs ==
  ASSUME NEW n \in Trades, NEW j, Unique(j), ParentFirst(j, n)
  PROVE  \A i, k \in DOMAIN j : j[i].id = Part(n) /\ j[k].id = TradeId(n) => k < i
BY DEF Unique, ParentFirst

\* A trade that was not placed has left nothing anywhere.
LEMMA NotPlaced ==
  ASSUME NEW n \in Trades, Own(n), BaseInv, ~ raced, OwnInv(n), ~ Names(journal, TradeId(n)),
         pc \in Loops
  PROVE  GroupsOf(n) = {} /\ PositionsOf(n) = {} /\ ~ ScaledOut(n) /\ AsOnExchange(n)
<1>1. ExchangeFits(n) /\ FileFits(n) /\ PassFits(n)
  BY DEF OwnInv
<1>2. life[n] = "none" /\ rows = visible
      /\ PositionsOf(n) = IF life[n] = "open" THEN {[pair |-> PairOf[n], entry |-> avg[n], size |-> left[n]]} ELSE {}
  BY <1>1 DEF PassFits, Loops
<1>3. Seen(n) = {}
  BY <1>1, <1>2, SeenIsMine DEF ExchangeFits
<1>4. GroupsOf(n) = {} /\ PositionsOf(n) = {}
  BY <1>2, <1>3, RowsOfGroups
<1>5. AsOnExchange(n)
  BY <1>2 DEF AsOnExchange
<1> QED BY <1>4, <1>5 DEF ScaledOut

LEMMA StartScaleOutOwn ==
  ASSUME NEW n \in Trades, Own(n), BaseInv, OwnInv(n), StartScaleOut PROVE OwnInv(n)'
<1> SUFFICES ASSUME ~ raced' PROVE ExchangeFits(n)' /\ FileFits(n)' /\ PassFits(n)' /\ Quiet(n)'
  BY DEF OwnInv
<1>1. /\ ~ raced /\ pc = "ladder" /\ pc' = "scaleout" /\ UNCHANGED exchange /\ UNCHANGED journal
      /\ UNCHANGED <<life, avg, left, legs, visible, rows, positions, orders, usedG, usedP, handled, calm>>
      /\ lines' = OtherLines(journal)
  BY DEF StartScaleOut, exchange
<1>2. ExchangeFits(n) /\ FileFits(n) /\ PassFits(n) /\ Quiet(n)
  BY <1>1 DEF OwnInv
<1>3. ExchangeFits(n)' /\ FileFits(n)' /\ (AsOnExchange(n)' <=> AsOnExchange(n))
  BY <1>1, <1>2, FileSame
<1>4. journal \in Seq(Line) /\ Unique(journal) /\ ParentFirst(journal, n)
  BY <1>2 DEF BaseInv, RecInv, FileHolds, FileFits
<1>5. /\ GroupsOf(n)' = GroupsOf(n) /\ PositionsOf(n)' = PositionsOf(n)
      /\ OrdersOf(PairOf[n])' = OrdersOf(PairOf[n])
  BY <1>1 DEF GroupsOf, PositionsOf, OrdersOf, SecondToFill
<1>6. Untouched(n) /\ Untouched(n)'
  BY <1>1, <1>2, <1>5 DEF PassFits, Untouched
<1> DEFINE S == {i \in DOMAIN journal : ~ IsLadder(journal[i])}
<1>7. LinesOf(lines') = {journal[i] : i \in S} /\ Unique(lines')
  BY <1>1, <1>4, AmongLines, AmongKeeps DEF OtherLines
<1>8. \A i \in DOMAIN journal : journal[i].id = TradeId(n) => i \in S
  BY IdsDiffer DEF IsLadder, Own
<1>9. ParentFirst(lines', n)
  BY <1>1, <1>4, <1>8, AmongOrder DEF OtherLines
<1>10. \A l \in Of(lines', n) : l \in Of(journal, n)
  BY <1>7 DEF Of, LinesOf
<1>11. LinesFit(n)'
  <2>1. \A l \in Of(lines', n) : \/ l.id = TradeId(n) /\ l \in LinesOf(journal')
                                 \/ l.id = Part(n) /\ l.status = "closed"
    BY <1>1, <1>2, <1>10 DEF FileFits, ChildFits, Of
  <2> QED BY <1>7, <1>9, <2>1, OrderIs DEF LinesFit
<1>12. Names(journal, TradeId(n)) => Names(lines', TradeId(n))
  <2> SUFFICES ASSUME NEW i \in DOMAIN journal, journal[i].id = TradeId(n) PROVE Names(lines', TradeId(n))
    BY DEF Names
  <2>1. journal[i] \in LinesOf(lines')
    BY <1>7, <1>8
  <2> QED BY <2>1, NamesIs
<1>13. ~ Names(lines', TradeId(n)) => PrePassed(n)'
  <2>1. ~ Names(lines', TradeId(n)) => ~ ScaledOut(n)
    BY <1>1, <1>12, NotPlaced DEF Loops
  <2>2. ~ ScaledOut(n) => ~ ScaledOut(n)'
    BY <1>5 DEF ScaledOut
  <2> QED BY <1>6, <2>1, <2>2 DEF PrePassed
<1>14. PassFits(n)'
  BY <1>1, <1>2, <1>5, <1>6, <1>11, <1>13 DEF PassFits
<1>15. Quiet(n)'
  BY <1>1, <1>2, <1>3 DEF Quiet
<1> QED BY <1>3, <1>14, <1>15

LEMMA StartMainLoopOwn ==
  ASSUME NEW n \in Trades, Own(n), BaseInv, OwnInv(n), StartMainLoop PROVE OwnInv(n)'
<1> SUFFICES ASSUME ~ raced' PROVE ExchangeFits(n)' /\ FileFits(n)' /\ PassFits(n)' /\ Quiet(n)'
  BY DEF OwnInv
<1>1. /\ ~ raced /\ pc = "scaleout" /\ pc' = "main" /\ UNCHANGED exchange /\ UNCHANGED journal
      /\ UNCHANGED <<life, avg, left, legs, visible, rows, positions, orders, usedG, usedP, handled, calm>>
      /\ lines = <<>> /\ lines' = journal
  BY DEF StartMainLoop, exchange
<1>2. ExchangeFits(n) /\ FileFits(n) /\ PassFits(n) /\ Quiet(n)
  BY <1>1 DEF OwnInv
<1>3. ExchangeFits(n)' /\ FileFits(n)' /\ (AsOnExchange(n)' <=> AsOnExchange(n))
  BY <1>1, <1>2, FileSame
<1>4. Unique(journal) /\ ParentFirst(journal, n)
  BY <1>2 DEF BaseInv, RecInv, FileHolds, FileFits
<1>5. /\ GroupsOf(n)' = GroupsOf(n) /\ PositionsOf(n)' = PositionsOf(n)
      /\ OrdersOf(PairOf[n])' = OrdersOf(PairOf[n])
  BY <1>1 DEF GroupsOf, PositionsOf, OrdersOf, SecondToFill
<1>6. PrePassed(n)
  <2>1. ~ Names(lines, TradeId(n))
    BY <1>1 DEF Names
  <2> QED BY <1>1, <1>2, <2>1 DEF PassFits
<1>7. PrePassed(n)'
  BY <1>1, <1>3, <1>5, <1>6 DEF PrePassed, Untouched, AllClaimed, ScaledOut
<1>8. ~ Names(journal, TradeId(n)) => Finished(n)'
  <2> SUFFICES ASSUME ~ Names(journal, TradeId(n)) PROVE Finished(n)'
    OBVIOUS
  <2>1. GroupsOf(n) = {} /\ PositionsOf(n) = {} /\ AsOnExchange(n)
    BY <1>1, NotPlaced DEF Loops
  <2> QED BY <1>3, <1>5, <2>1 DEF Finished, AllClaimed
<1>9. LinesFit(n)'
  <2>1. \A l \in Of(journal, n) : \/ l.id = TradeId(n) /\ l \in LinesOf(journal)
                                  \/ l.id = Part(n) /\ l.status = "closed"
    BY <1>2 DEF FileFits, ChildFits, Of
  <2> QED BY <1>1, <1>4, <2>1, OrderIs DEF LinesFit
<1>10. PassFits(n)'
  BY <1>1, <1>2, <1>5, <1>7, <1>8, <1>9 DEF PassFits
<1>11. Quiet(n)'
  BY <1>1, <1>2, <1>3 DEF Quiet
<1> QED BY <1>3, <1>10, <1>11

\* A step over what nobody claimed concerns another pair: of its own, nothing
\* is left.
LEMMA OrphanGoesOn ==
  ASSUME NEW n \in Trades, Own(n), BaseInv, ~ raced, OwnInv(n), pc = "main", lines = <<>>,
         UNCHANGED <<exchange, pc, rows, positions, orders, lines, handled, calm, raced>>,
         usedG \subseteq usedG', usedP \subseteq usedP', NEW pr, pr # PairOf[n], Differs(journal, journal', pr)
  PROVE  OwnInv(n)'
<1>1. ExchangeFits(n) /\ FileFits(n) /\ PassFits(n) /\ Quiet(n)
  BY DEF OwnInv
<1>2. UNCHANGED <<life, avg, left, legs, exits, visible, day>>
  BY DEF exchange
<1>3. Mine(n)' = Mine(n) /\ Seen(n)' = Seen(n) /\ PositionsOf(n)' = PositionsOf(n) /\ GroupsOf(n)' = GroupsOf(n)
      /\ OrdersOf(PairOf[n])' = OrdersOf(PairOf[n])
  BY <1>2 DEF Mine, Seen, PositionsOf, GroupsOf, OrdersOf, SecondToFill
<1>4. Of(journal', n) = Of(journal, n) /\ ParentFirst(journal', n)
  BY <1>1, OfKept DEF FileFits
<1>5. ExchangeFits(n)' /\ FileFits(n)'
  BY <1>1, <1>2, <1>3, <1>4, TradeUntouched
<1>6. AsOnExchange(n)' <=> AsOnExchange(n)
  BY <1>2, <1>3, <1>4 DEF AsOnExchange
<1>7. ~ Names(lines, TradeId(n)) /\ Of(lines, n) = {}
  BY DEF Names, Of, LinesOf
<1>8. Finished(n)
  BY <1>1, <1>7 DEF PassFits
<1>9. Finished(n)'
  BY <1>3, <1>6, <1>8 DEF Finished, AllClaimed
<1>10. LinesFit(n)'
  BY <1>1, <1>7 DEF PassFits, LinesFit
<1>11. Names(journal', TradeId(n)) <=> Names(journal, TradeId(n))
  BY <1>4, OfNamed
<1>12. PassFits(n)'
  BY <1>1, <1>2, <1>3, <1>7, <1>9, <1>10, <1>11 DEF PassFits
<1>13. Quiet(n)'
  BY <1>1, <1>6 DEF Quiet
<1> QED BY <1>5, <1>12, <1>13 DEF OwnInv

\* All of its own is claimed when the lines have been looked at.
LEMMA OwnFinished ==
  ASSUME NEW n \in Trades, ~ raced, OwnInv(n), pc = "main", lines = <<>>
  PROVE  Finished(n)
<1>1. ~ Names(lines, TradeId(n))
  BY DEF Names
<1> QED BY <1>1 DEF OwnInv, PassFits

LEMMA OrphanGroupOwn ==
  ASSUME NEW n \in Trades, Own(n), BaseInv, OwnInv(n), OrphanGroup PROVE OwnInv(n)'
<1>1. /\ pc = "main" /\ lines = <<>>
      /\ UNCHANGED <<exchange, pc, rows, positions, orders, lines, usedP, handled, calm, raced>>
  BY DEF OrphanGroup
<1> SUFFICES ASSUME ~ raced PROVE OwnInv(n)'
  BY <1>1 DEF OwnInv
<1>2. PICK g \in Groups(rows) \ usedG :
        /\ usedG' = usedG \cup {g}
        /\ journal' = IF HasLine(OrphanLine(g).id) THEN journal ELSE Append(journal, OrphanLine(g))
  BY DEF OrphanGroup
<1>3. g.pair # PairOf[n]
  BY <1>1, OwnFinished DEF Finished, AllClaimed, GroupsOf
<1>4. Differs(journal, journal', g.pair)
  BY <1>2, OrphanGroupTouches DEF BaseInv
<1> QED BY <1>1, <1>2, <1>3, <1>4, OrphanGoesOn

LEMMA OrphanPositionOwn ==
  ASSUME NEW n \in Trades, Own(n), BaseInv, OwnInv(n), OrphanPosition PROVE OwnInv(n)'
<1>1. /\ pc = "main" /\ lines = <<>>
      /\ UNCHANGED <<exchange, pc, rows, positions, orders, lines, usedG, handled, calm, raced>>
  BY DEF OrphanPosition
<1> SUFFICES ASSUME ~ raced PROVE OwnInv(n)'
  BY <1>1 DEF OwnInv
<1>2. PICK p \in positions \ usedP :
        /\ usedP' = usedP \cup {p}
        /\ journal' = IF HasLine(OpenId(p)) THEN journal ELSE Append(journal, OpenLine(p))
  BY DEF OrphanPosition, OpenId, OpenLine
<1>3. p.pair # PairOf[n]
  BY <1>1, OwnFinished DEF Finished, AllClaimed, PositionsOf
<1>4. Differs(journal, journal', p.pair)
  BY <1>2, OrphanPositionTouches DEF BaseInv
<1> QED BY <1>1, <1>2, <1>3, <1>4, OrphanGoesOn

\* The last cancellation spares a resting entry that has its line.
LEMMA EndPassSpares ==
  ASSUME NEW n \in Trades, Own(n), BaseInv, ~ raced, OwnInv(n), EndPass
  PROVE  life'[n] = life[n] /\ Finished(n)
<1>1. pc = "main" /\ lines = <<>> /\ CancelOrphans
  BY DEF EndPass
<1>2. Finished(n) /\ ExchangeFits(n) /\ PassFits(n)
  BY <1>1, OwnFinished DEF OwnInv
<1>3. PICK done \in SUBSET OrphanPairs :
        life' = [m \in Trades |-> IF PairOf[m] \in done /\ life[m] = "resting" THEN "withdrawn"
                                  ELSE IF PairOf[m] \in done /\ life[m] = "between" THEN "flat" ELSE life[m]]
  BY <1>1 DEF CancelOrphans
<1>4. ASSUME life[n] = "resting" PROVE PairOf[n] \notin OrphanPairs
  <2>1. Names(journal, TradeId(n))
    BY <1>1, <1>2, <1>4 DEF PassFits
  <2>2. PICK l \in Of(journal, n) : l.id = TradeId(n)
    BY <2>1, OfNamed
  <2>3. l.status = "pending"
    BY <1>2, <1>4, <2>2 DEF Finished, AsOnExchange
  <2>4. PICK i \in DOMAIN journal : l = journal[i]
    BY LineAt DEF Of
  <2>5. PairOf[n] \in ActivePairs
    BY <2>3, <2>4 DEF ActivePairs, Of
  <2>6. {o \in orders : o.pair = PairOf[n]} = OrdersOf(PairOf[n])
    BY <1>1, <1>2 DEF PassFits
  <2>7. PICK e \in orders : ~ e.reduce /\ e.pair = PairOf[n]
    BY <1>4, <2>6, OrdersOwn
  <2> QED BY <2>5, <2>7 DEF OrphanPairs
<1>5. life[n] # "between"
  BY <1>2 DEF ExchangeFits
<1> QED BY <1>2, <1>3, <1>4, <1>5

LEMMA EndPassOwn ==
  ASSUME NEW n \in Trades, Own(n), BaseInv, OwnInv(n), EndPass PROVE OwnInv(n)'
<1>1. /\ Forgets /\ UNCHANGED <<avg, left, legs, exits, visible, day, journal, calm, raced>> /\ pc # "idle"
  BY DEF EndPass
<1> SUFFICES ASSUME ~ raced PROVE ExchangeFits(n)' /\ FileFits(n)' /\ PassFits(n)' /\ Quiet(n)'
  BY <1>1 DEF OwnInv
<1>2. life'[n] = life[n] /\ Finished(n)
  BY EndPassSpares
<1>3. ExchangeFits(n) /\ FileFits(n) /\ PassFits(n)
  BY DEF OwnInv
<1>4. Mine(n)' = Mine(n) /\ Seen(n)' = Seen(n)
  BY <1>1 DEF Mine, Seen
<1>5. ExchangeFits(n)' /\ FileFits(n)'
  BY <1>1, <1>2, <1>3, <1>4, TradeUntouched DEF FileFits
<1>6. AsOnExchange(n)'
  BY <1>1, <1>2, <1>4 DEF Finished, AsOnExchange
<1>7. PassFits(n)'
  BY <1>1, <1>2, <1>3 DEF Forgets, PassFits
<1> QED BY <1>5, <1>6, <1>7 DEF Quiet

-----------------------------------------------------------------------------
(* Every step                                                              *)

LEMMA NumberedNext == RecInv /\ Numbered /\ [Next]_vars => Numbered'
<1> SUFFICES ASSUME RecInv, Numbered, [Next]_vars PROVE Numbered'
  OBVIOUS
<1>1. ASSUME NEW n \in Trades, ExitUnit(n) PROVE Numbered'
  <2> DEFINE x == [no |-> Cardinality(exits) + 1, trade |-> n, entry |-> avg[n], day |-> day]
  <2>1. exits' = exits \cup {x} /\ x.no = Cardinality(exits) + 1
    BY <1>1 DEF ExitUnit
  <2> HIDE DEF x
  <2>2. IsFiniteSet(exits) /\ exits \subseteq Exit
    BY DEF RecInv, MarketHolds
  <2>3. x \notin exits
    BY <2>1, <2>2, ExitNew
  <2>4. Cardinality(exits') = Cardinality(exits) + 1 /\ Cardinality(exits) \in Nat
    BY <2>1, <2>2, <2>3, FS_AddElement, FS_CardinalityType
  <2>5. \A y \in exits : y.no \in Nat /\ y.no <= Cardinality(exits)
    BY <2>2, ExitIs DEF Numbered
  <2>6. \A y \in exits' : y.no <= Cardinality(exits) + 1
    BY <2>1, <2>4, <2>5
  <2> QED BY <2>4, <2>6 DEF Numbered
<1>2. CASE exits' = exits
  BY <1>2 DEF Numbered
<1>3. ASSUME NEW n \in Trades, \/ Place(n) \/ Log(n) \/ Fill(n) \/ ScaleIn(n) \/ FillSecond(n)
                               \/ Withdraw(n) \/ \E m \in Trades : Merge(n, m)
      PROVE  exits' = exits
  BY <1>3 DEF Place, Log, Fill, ScaleIn, FillSecond, Withdraw, Merge, exchange
<1>4. ASSUME NEW i \in DOMAIN journal, SyncLine(journal[i]) PROVE exits' = exits
  BY <1>4 DEF SyncLine, exchange
<1>5. NextDay \/ Dies \/ (\E x \in visible : Forget(x)) \/ UNCHANGED vars => exits' = exits
  BY DEF NextDay, Dies, Forget, vars, exchange
<1>6. FetchRows \/ FetchPositions \/ FetchOrders \/ PrePassNothing \/ PrePassOpen \/ PrePassFlat
        \/ StartScaleOut \/ StartMainLoop => exits' = exits
  BY DEF FetchRows, FetchPositions, FetchOrders, PrePassNothing, PrePassOpen, PrePassFlat,
         StartScaleOut, StartMainLoop, exchange
<1>7. MainSkips \/ MainOpens \/ MainCloses \/ MainCancels \/ OrphanGroup \/ OrphanPosition \/ EndPass => exits' = exits
  BY DEF MainSkips, MainOpens, MainCloses, MainCancels, OrphanGroup, OrphanPosition, EndPass, exchange
<1> QED BY <1>1, <1>2, <1>3, <1>4, <1>5, <1>6, <1>7 DEF Next, PassStep

LEMMA OwnNext ==
  ASSUME NEW n \in Trades, Own(n), BaseInv, OwnInv(n), [Next]_vars
  PROVE  OwnInv(n)'
<1>1. ASSUME NEW m \in Trades, \/ Place(m) \/ Log(m) \/ Fill(m) \/ ScaleIn(m) \/ ExitUnit(m)
                               \/ FillSecond(m) \/ Withdraw(m) \/ \E k \in Trades : Merge(m, k)
      PROVE  OwnInv(n)'
  BY <1>1, PlaceOwn, LogOwn, FillOwn, ScaleInOwn, ExitUnitOwn, MergeOwn
<1>2. ASSUME NEW i \in DOMAIN journal, SyncLine(journal[i]) PROVE OwnInv(n)'
  BY <1>2, SyncOwn
<1>3. NextDay \/ Dies \/ (\E x \in visible : Forget(x)) => OwnInv(n)'
  BY NextDayOwn, DiesOwn, ForgetOwn
<1>4. PassStep => OwnInv(n)'
  BY FetchRowsOwn, FetchPositionsOwn, FetchOrdersOwn, PrePassNothingOwn, PrePassOpenOwn, PrePassFlatOwn,
     StartScaleOutOwn, StartMainLoopOwn, MainSkipsOwn, MainOpensOwn, MainClosesOwn, MainCancelsOwn,
     OrphanGroupOwn, OrphanPositionOwn, EndPassOwn DEF PassStep
<1>5. UNCHANGED vars => OwnInv(n)'
  <2> SUFFICES ASSUME UNCHANGED vars PROVE OwnInv(n)'
    OBVIOUS
  <2>1. UNCHANGED <<life, avg, left, legs, exits, visible, day, journal, pc, rows, positions, orders,
                    lines, usedG, usedP, handled, calm, raced>>
    BY DEF vars, exchange, pass
  <2>2. /\ Mine(n)' = Mine(n) /\ Seen(n)' = Seen(n) /\ GroupsOf(n)' = GroupsOf(n)
        /\ PositionsOf(n)' = PositionsOf(n) /\ OrdersOf(PairOf[n])' = OrdersOf(PairOf[n])
    BY <2>1 DEF Mine, Seen, GroupsOf, PositionsOf, OrdersOf, SecondToFill
  <2> SUFFICES ASSUME ~ raced PROVE ExchangeFits(n)' /\ FileFits(n)' /\ PassFits(n)' /\ Quiet(n)'
    BY <2>1 DEF OwnInv
  <2>3. ExchangeFits(n) /\ FileFits(n) /\ PassFits(n) /\ Quiet(n)
    BY DEF OwnInv
  <2>4. ExchangeFits(n)' /\ FileFits(n)'
    BY <2>1, <2>2, <2>3, TradeUntouched DEF FileFits
  <2>5. /\ AsOnExchange(n)' <=> AsOnExchange(n)
        /\ Untouched(n)' <=> Untouched(n)
        /\ AllClaimed(n)' <=> AllClaimed(n)
        /\ ScaledOut(n)' <=> ScaledOut(n)
        /\ LinesFit(n)' <=> LinesFit(n)
    BY <2>1, <2>2 DEF AsOnExchange, Untouched, AllClaimed, ScaledOut, LinesFit
  <2>6. (PrePassed(n)' <=> PrePassed(n)) /\ (Finished(n)' <=> Finished(n))
    <3>1. TradeId(n) \in handled' <=> TradeId(n) \in handled
      BY <2>1
    <3>2. CASE ScaledOut(n)
      BY <2>5, <3>1, <3>2, Zenon DEF PrePassed, Finished
    <3>3. CASE ~ ScaledOut(n)
      BY <2>5, <3>3, Zenon DEF PrePassed, Finished
    <3> QED BY <3>2, <3>3
  <2>7. PassFits(n)'
    BY <2>1, <2>2, <2>3, <2>5, <2>6 DEF PassFits
  <2>8. Quiet(n)'
    BY <2>1, <2>3, <2>5 DEF Quiet
  <2> QED BY <2>4, <2>7, <2>8
<1> QED BY <1>1, <1>2, <1>3, <1>4, <1>5 DEF Next

LEMMA OwnInit == ASSUME NEW n \in Trades, Init PROVE OwnInv(n)
<1>1. Mine(n) = {} /\ Seen(n) = {} /\ LinesOf(journal) = {} /\ Of(journal, n) = {} /\ ~ Names(journal, TradeId(n))
  BY DEF Init, Mine, Seen, LinesOf, Of, Names
<1>2. life[n] = "none" /\ avg[n] = Level[n] /\ Level[n] \in Nat /\ AddUp \in Nat
  BY ConstantsAssumption DEF Init
<1>3. ExchangeFits(n)
  BY <1>1, <1>2 DEF ExchangeFits, InReach
<1>4. ParentFirst(journal, n)
  BY DEF Init, ParentFirst
<1>5. FileFits(n)
  BY <1>1, <1>2, <1>4 DEF FileFits
<1>6. PassFits(n) /\ Quiet(n)
  BY <1>2 DEF Init, PassFits, Quiet
<1> QED BY <1>3, <1>5, <1>6 DEF OwnInv

LEMMA BaseNext == BaseInv /\ [Next]_vars => BaseInv'
BY RecNext, NetsNext, NumberedNext DEF BaseInv

-----------------------------------------------------------------------------
(* What a reader of the journal finds                                      *)

AllOwn == \A n \in Trades : Own(n) => OwnInv(n)

LEMMA OwnInvariant == Spec => [](BaseInv /\ AllOwn)
<1>1. Init => BaseInv /\ AllOwn
  <2> SUFFICES ASSUME Init PROVE BaseInv /\ AllOwn
    OBVIOUS
  <2>1. NetsOnPair /\ Numbered
    BY DEF Init, NetsOnPair, LinesOf, Numbered
  <2>2. AllOwn
    BY OwnInit DEF AllOwn
  <2> QED BY <2>1, <2>2, RecInit DEF BaseInv
<1>2. BaseInv /\ AllOwn /\ [Next]_vars => (BaseInv /\ AllOwn)'
  <2> SUFFICES ASSUME BaseInv, AllOwn, [Next]_vars PROVE BaseInv' /\ AllOwn'
    OBVIOUS
  <2>1. BaseInv'
    BY BaseNext
  <2>2. ASSUME NEW n \in Trades, Own(n) PROVE OwnInv(n)'
    BY <2>2, OwnNext DEF AllOwn
  <2> QED BY <2>1, <2>2 DEF AllOwn
<1> QED BY <1>1, <1>2, PTL DEF Spec

LEMMA AsRead ==
  ASSUME NEW n \in Trades, Own(n), BaseInv, OwnInv(n), Fresh, ~ raced, HasLine(TradeId(n))
  PROVE  Reads(n)
<1>1. LineOf(TradeId(n)) \in Of(journal, n) /\ LineOf(TradeId(n)).id = TradeId(n)
  BY LineOfHere, IdsDiffer DEF Of
<1>2. AsOnExchange(n)
  BY DEF OwnInv, Quiet, Fresh
<1>3. life[n] \in Lives \ {"none", "between", "shared", "merged"} /\ LineOf(TradeId(n)).net \subseteq Mine(n)
  <2>1. life[n] \in Lives
    BY DEF BaseInv, RecInv, MarketHolds, Lives
  <2>2. FileFits(n) /\ ExchangeFits(n)
    BY DEF OwnInv
  <2>3. ParentFits(n, LineOf(TradeId(n)))
    BY <1>1, <2>2, IdsDiffer DEF FileFits
  <2> QED BY <2>1, <2>2, <2>3 DEF ParentFits, ExchangeFits
<1>4. CASE life[n] = "resting"
  BY <1>1, <1>2, <1>4 DEF Reads, AsOnExchange
<1>5. CASE life[n] = "open"
  BY <1>1, <1>2, <1>5 DEF Reads, AsOnExchange
<1>6. CASE life[n] = "flat"
  <2>1. {x \in exits : x.trade = n} \cap visible = Seen(n)
    BY SeenIsMine DEF Seen, Mine
  <2> QED BY <1>1, <1>2, <1>3, <1>6, <2>1 DEF Reads, AsOnExchange, Mine
<1>7. CASE life[n] = "withdrawn"
  BY <1>1, <1>2, <1>7 DEF Reads, AsOnExchange
<1> QED BY <1>3, <1>4, <1>5, <1>6, <1>7 DEF Lives

\* Whatever else the account holds (ladders, manual trades, several trades of
\* one pair), a logged trade alone on its pair reads in the journal as it is
\* on the exchange after every pass, as long as no pass was disturbed
\* (journal.js lines 1029-1076).
THEOREM LoneTradeReads ==
  ASSUME NEW n \in Trades, Own(n)
  PROVE  Spec => [](Fresh /\ ~ raced /\ HasLine(TradeId(n)) => Reads(n))
<1>1. BaseInv /\ AllOwn => (Fresh /\ ~ raced /\ HasLine(TradeId(n)) => Reads(n))
  BY AsRead DEF AllOwn
<1> QED BY <1>1, OwnInvariant, PTL

\* When every logged trade is alone on its pair, the whole journal mirrors
\* the exchange after every pass, as long as no pass was disturbed.
THEOREM LoneTradesAreMirrored ==
  ASSUME \A n \in Logged : Own(n)
  PROVE  Spec => []Mirrored
<1>1. BaseInv /\ AllOwn => Mirrored
  BY AsRead, ConstantsAssumption DEF AllOwn, Mirrored
<1> QED BY <1>1, OwnInvariant, PTL

\* The trade whose exits a line counts.
LEMMA NetOf ==
  ASSUME BaseInv, NEW i \in DOMAIN journal, NEW x \in journal[i].net
  PROVE  x.trade \in Trades /\ journal[i].id.pair = PairOf[x.trade] /\ journal[i] \in Of(journal, x.trade)
<1>1. journal[i] \in Line /\ journal[i] \in LinesOf(journal) /\ NetFits(journal[i])
  BY DEF BaseInv, RecInv, FileHolds, NetsOnPair, LinesOf
<1>2. x \in Exit
  BY <1>1 DEF Line
<1> QED BY <1>1, <1>2 DEF Exit, NetFits, Of

\* When every trade is logged and alone on its pair, no exit is counted by
\* two lines unless they are a trade's and its own child's, and no closed
\* line mixes two trades (journal.js lines 986-1022, reconcile-match.js:155).
THEOREM LoneTradesAreKeptApart ==
  ASSUME \A n \in Trades : Own(n)
  PROVE  Spec => []KeptApart
<1>1. BaseInv /\ AllOwn => KeptApart
  <2> SUFFICES ASSUME BaseInv, AllOwn, ~ raced PROVE CountedOnce /\ Separated
    BY DEF KeptApart, CountedOnce, Separated
  <2>1. ASSUME NEW i \in DOMAIN journal, NEW j \in DOMAIN journal, NEW x \in journal[i].net, x \in journal[j].net
        PROVE  i = j \/ journal[j].id = ChildId(journal[i].id) \/ journal[i].id = ChildId(journal[j].id)
    <3>1. PICK n \in Trades : n = x.trade
      BY <2>1, NetOf
    <3>2. journal[i] \in Of(journal, n) /\ journal[j] \in Of(journal, n)
      BY <2>1, <3>1, NetOf
    <3>3. FileFits(n)
      BY DEF AllOwn, OwnInv
    <3>4. /\ journal[i].id = TradeId(n) \/ journal[i].id = Part(n)
          /\ journal[j].id = TradeId(n) \/ journal[j].id = Part(n)
      BY <3>2, <3>3 DEF FileFits
    <3>5. journal[i].id = journal[j].id => i = j
      BY <2>1 DEF BaseInv, RecInv, FileHolds, Unique
    <3> QED BY <3>4, <3>5 DEF Part
  <2>2. CountedOnce
    BY <2>1 DEF CountedOnce, LinesIn
  <2>3. Separated
    <3> SUFFICES ASSUME NEW i \in DOMAIN journal, NEW x \in journal[i].net, NEW y \in journal[i].net
                 PROVE  x.trade = y.trade
      BY DEF Separated, LinesIn
    <3>1. x.trade \in Trades /\ y.trade \in Trades /\ PairOf[x.trade] = PairOf[y.trade]
      BY NetOf
    <3> QED BY <3>1 DEF Own
  <2> QED BY <2>2, <2>3
<1> QED BY <1>1, OwnInvariant, PTL

\* A line that reads as the trade is, and its child, count all its rows.
LEMMA ReadCounts ==
  ASSUME NEW n \in Trades, BaseInv, OwnInv(n), ~ raced, AsOnExchange(n), Names(journal, TradeId(n)),
         NEW x \in Seen(n)
  PROVE  Counted(x)
<1>1. FileFits(n) /\ life[n] \in {"open", "flat"}
  BY SeenIsMine DEF OwnInv, ExchangeFits
<1>2. PICK l \in Of(journal, n) : l.id = TradeId(n)
  BY OfNamed
<1>3. \E c \in Of(journal, n) : c.status = "closed" /\ x \in c.net
  <2>1. CASE life[n] = "flat"
    BY <1>2, <2>1 DEF AsOnExchange
  <2>2. CASE life[n] = "open"
    <3>1. PICK c \in Of(journal, n) : c.id = Part(n) /\ c.net = Seen(n)
      BY <1>2, <2>2 DEF AsOnExchange
    <3> QED BY <1>1, <3>1, IdsDiffer DEF FileFits, ChildFits
  <2> QED BY <1>1, <2>1, <2>2
<1> QED BY <1>3, LineAt DEF Counted, Of

\* After every pass, when no pass was disturbed, the open lines of trades
\* alone on their pair are the positions of the exchange, with their sizes,
\* and every exit is counted (journal.js lines 986-1097).
THEOREM LoneTradesAreAligned ==
  ASSUME \A n \in Trades : Own(n)
  PROVE  Spec => [](~ raced => PositionsAligned /\ NoExitMissed)
<1>1. BaseInv /\ AllOwn => (~ raced => PositionsAligned /\ NoExitMissed)
  <2> SUFFICES ASSUME BaseInv, AllOwn, ~ raced, Fresh PROVE PositionsAligned /\ NoExitMissed
    BY DEF PositionsAligned, NoExitMissed
  <2>1. ASSUME NEW n \in Trades
        PROVE  OwnInv(n) /\ AsOnExchange(n) /\ FileFits(n) /\ (life[n] # "none" => Names(journal, TradeId(n)))
    BY DEF AllOwn, OwnInv, Quiet, Fresh, PassFits
  <2>0. ASSUME NEW n \in Trades PROVE Holds(n) <=> life[n] = "open"
    BY <2>1 DEF OwnInv, ExchangeFits, Holds
  <2>2. ASSUME NEW n \in Trades, life[n] = "open"
        PROVE  \E i \in LinesIn("open") : journal[i].id.pair = PairOf[n] /\ journal[i].size = left[n]
    <3>1. PICK l \in Of(journal, n) : l.id = TradeId(n)
      BY <2>1, <2>2, OfNamed
    <3>2. l.status = "open" /\ l.size = left[n] /\ l.id.pair = PairOf[n]
      BY <2>1, <2>2, <3>1 DEF AsOnExchange, Of
    <3>3. PICK i \in DOMAIN journal : l = journal[i]
      BY <3>1, LineAt DEF Of
    <3> QED BY <3>2, <3>3 DEF LinesIn
  <2>3. ASSUME NEW i \in LinesIn("open")
        PROVE  \E n \in Trades : life[n] = "open" /\ PairOf[n] = journal[i].id.pair /\ journal[i].id = TradeId(n)
    <3>1. i \in DOMAIN journal /\ journal[i].status = "open" /\ journal[i] \in Line /\ journal[i] \in LinesOf(journal)
      BY DEF LinesIn, BaseInv, RecInv, FileHolds, LinesOf
    <3>2. PICK n \in Trades : PairOf[n] = journal[i].id.pair
      BY <3>1 DEF Line, Id, Pairs
    <3>3. journal[i] \in Of(journal, n)
      BY <3>1, <3>2 DEF Of
    <3>4. journal[i].id = TradeId(n) /\ ParentFits(n, journal[i])
      BY <2>1, <3>1, <3>3 DEF FileFits, ChildFits
    <3>5. life[n] = "open"
      BY <2>1, <3>1, <3>3, <3>4 DEF ParentFits, AsOnExchange
    <3> QED BY <3>2, <3>4, <3>5
  <2>4. ASSUME NEW i \in LinesIn("open"), NEW j \in LinesIn("open"), journal[i].id.pair = journal[j].id.pair
        PROVE  i = j
    <3>1. PICK n \in Trades : PairOf[n] = journal[i].id.pair /\ journal[i].id = TradeId(n)
      BY <2>3
    <3>2. PICK m \in Trades : PairOf[m] = journal[j].id.pair /\ journal[j].id = TradeId(m)
      BY <2>3
    <3>3. m = n
      BY <2>4, <3>1, <3>2 DEF Own
    <3> QED BY <3>1, <3>2, <3>3 DEF LinesIn, BaseInv, RecInv, FileHolds, Unique
  <2>5. ASSUME NEW x \in visible PROVE Counted(x)
    <3>1. x \in exits /\ x.trade \in Trades
      BY DEF BaseInv, RecInv, MarketHolds, Exit
    <3>2. PICK n \in Trades : n = x.trade /\ x \in Seen(n)
      BY <3>1 DEF Seen
    <3>3. life[n] # "none"
      BY <2>1, <3>2, SeenIsMine DEF OwnInv, ExchangeFits
    <3> QED BY <2>1, <3>2, <3>3, ReadCounts
  <2> QED BY <2>0, <2>2, <2>3, <2>4, <2>5 DEF PositionsAligned, NoExitMissed
<1> QED BY <1>1, OwnInvariant, PTL

-----------------------------------------------------------------------------
(* What a step may not do to the file                                      *)

LEMMA AppendSpares ==
  ASSUME NEW j \in Seq(Line), NEW new, NEW l \in LinesOf(j)
  PROVE  l \in LinesOf(Append(j, new))
<1> DEFINE q == Append(j, new)
<1>1. /\ DOMAIN j = 1..Len(j) /\ Len(j) \in Nat /\ DOMAIN q = 1..(Len(j) + 1)
      /\ \A i \in 1..Len(j) : q[i] = j[i]
  OBVIOUS
<1> HIDE DEF q
<1>2. PICK i \in DOMAIN j : l = j[i]
  BY LineAt
<1>3. i \in DOMAIN q /\ l = q[i]
  BY <1>1, <1>2
<1> QED BY <1>3 DEF LinesOf, q

\* `journal.js sync` closes active lines only.
LEMMA SyncSpares ==
  ASSUME BaseInv, NEW i \in DOMAIN journal, SyncLine(journal[i]), NEW l \in LinesOf(journal), l.status = "closed"
  PROVE  l \in LinesOf(journal')
<1>1. PICK new : /\ new = [journal[i] EXCEPT !.status = "closed", !.net = SyncRows(journal[i]),
                                             !.entry = MeanEntry(SyncRows(journal[i]))]
                 /\ journal' = Rewrite(journal, new) /\ journal[i].status # "closed"
  BY DEF SyncLine
<1>2. journal[i] \in Line /\ journal[i] \in LinesOf(journal) /\ Unique(journal)
  BY DEF BaseInv, RecInv, FileHolds, LinesOf
<1>3. new.id = journal[i].id
  BY <1>1, <1>2 DEF Line
<1>4. l.id # new.id
  BY <1>1, <1>2, <1>3, OneOfEach
<1>5. Names(journal, new.id)
  BY <1>3 DEF Names
<1>6. LinesOf(Rewrite(journal, new)) = {k \in LinesOf(journal) : k.id # new.id} \cup {new}
  BY <1>5, RewriteLines
<1> QED BY <1>1, <1>4, <1>6

\* The main loop has looked at the line of the trade: it reads as the trade is.
LEMMA MainReads ==
  ASSUME NEW n \in Trades, BaseInv, ~ raced, OwnInv(n), OwnInv(n)', LooksAt, pc = "main",
         Head(lines).id = TradeId(n)
  PROVE  AsOnExchange(n)'
<1>1. LinesFit(n)
  BY AtHead, IdsDiffer
<1>2. ~ Names(lines', TradeId(n))
  BY <1>1, LinesAfter
<1>3. PassFits(n)' /\ pc' = "main"
  BY DEF OwnInv, LooksAt
<1>4. Finished(n)'
  BY <1>2, <1>3 DEF PassFits
<1> QED BY <1>4 DEF Finished

\* At a line of its pair, a step of a loop writes nothing or comes to its own
\* line.
LEMMA OwnOrNothing ==
  ASSUME NEW n \in Trades, Own(n), BaseInv, ~ raced, OwnInv(n), Head(lines).id.pair = PairOf[n],
         PrePassOpen \/ PrePassFlat \/ MainOpens \/ MainCloses \/ MainCancels
  PROVE  LooksAt /\ (journal' = journal \/ Head(lines).id = TradeId(n))
<1>1. LooksAt
  BY DEF PrePassOpen, PrePassFlat, MainOpens, MainCloses, MainCancels, Matches, NextLine, PrePasses, LooksAt, Loops
<1> SUFFICES ASSUME Head(lines).id # TradeId(n) PROVE journal' = journal
  BY <1>1
<1>2. /\ Head(lines).status = "closed" /\ (pc # "main" => ~ Engaged(Head(lines)))
      /\ pc = "main" => FreeGroups(Head(lines)) = {} /\ FreePositions(Head(lines)) = {}
  BY <1>1, PartAtHead
<1>3. ~ PrePassOpen /\ ~ PrePassFlat
  BY <1>2 DEF PrePassOpen, PrePassFlat, NextLine, PrePasses
<1>4. ~ MainOpens /\ ~ MainCloses
  BY <1>2 DEF MainOpens, MainCloses, Matches, NextLine
<1>5. MainCancels
  BY <1>3, <1>4
<1> QED BY <1>2, <1>5 DEF MainCancels

\* The main loop, at its line, rewrites no closed line but to count rows or
\* to open it again.
LEMMA MainSpares ==
  ASSUME NEW n \in Trades, Own(n), BaseInv, ~ raced, OwnInv(n), pc = "main", Head(lines).id = TradeId(n),
         PrePassOpen \/ PrePassFlat \/ MainOpens \/ MainCloses \/ MainCancels,
         NEW l \in Of(journal, n), l.status = "closed"
  PROVE  l \in LinesOf(journal') \/ Seen(n) # {} \/ Reopened(l)
<1> DEFINE t == Head(lines)
<1>1. MainOpens \/ MainCloses \/ MainCancels
  BY DEF PrePassOpen, PrePassFlat, NextLine, PrePasses
<1>2. LooksAt /\ TradeId(n) \notin handled
  BY <1>1 DEF MainOpens, MainCloses, MainCancels, Matches, NextLine, LooksAt, Loops
<1>3. /\ t \in Line /\ t \in Of(journal, n) /\ LineOf(TradeId(n)) = t /\ Names(journal, TradeId(n))
      /\ FreeGroups(t) = GroupsOf(n) /\ rows = visible
  BY <1>2, LeftToMain
<1>4. Unique(journal) /\ l \in LinesOf(journal) /\ t \in LinesOf(journal)
  BY <1>3 DEF BaseInv, RecInv, FileHolds, Of
<1>5. ASSUME NEW new, new.id = TradeId(n), journal' = Rewrite(journal, new)
      PROVE  new \in LinesOf(journal') /\ (l.id # TradeId(n) => l \in LinesOf(journal'))
  <2>1. LinesOf(journal') = {k \in LinesOf(journal) : k.id # TradeId(n)} \cup {new}
    BY <1>3, <1>5, RewriteLines
  <2> QED BY <1>4, <2>1
<1>6. CASE MainOpens
  <2>1. PICK p \in FreePositions(t) : journal' = IF ReadsOpen(t, p) THEN journal
                                                ELSE Rewrite(journal, [Opened(t, p) EXCEPT !.entry = p.entry])
    BY <1>6 DEF MainOpens
  <2> DEFINE new == [Opened(t, p) EXCEPT !.entry = p.entry]
  <2>2. new.id = TradeId(n) /\ new.status = "open"
    BY <1>3 DEF Opened, Line
  <2> HIDE DEF new
  <2>3. CASE journal' = journal
    BY <1>4, <2>3
  <2>4. CASE journal' = Rewrite(journal, new)
    <3>1. new \in LinesOf(journal') /\ (l.id # TradeId(n) => l \in LinesOf(journal'))
      BY <1>5, <2>2, <2>4
    <3>2. PICK i \in DOMAIN journal' : journal'[i] = new
      BY <3>1, LineAt
    <3> QED BY <2>2, <3>1, <3>2 DEF Reopened
  <2> QED BY <2>1, <2>3, <2>4 DEF new
<1>7. CASE MainCloses
  <2>1. GroupsOf(n) # {}
    BY <1>3, <1>7 DEF MainCloses
  <2> QED BY <1>3, <2>1, RowsOfGroups
<1>8. CASE MainCancels
  <2> DEFINE new == [LineOf(t.id) EXCEPT !.status = "cancelled"]
  <2>1. journal' = IF t.status = "closed" \/ StillResting(t) THEN journal ELSE Rewrite(journal, new)
    BY <1>8 DEF MainCancels
  <2>2. new.id = TradeId(n)
    BY <1>3 DEF Line
  <2>3. CASE t.status = "closed"
    BY <1>4, <2>1, <2>3
  <2>4. CASE t.status # "closed"
    <3>1. l.id # TradeId(n)
      BY <1>4, <2>4, OneOfEach
    <3> HIDE DEF new, t
    <3> QED BY <1>4, <1>5, <2>1, <2>2, <3>1
  <2> QED BY <2>3, <2>4
<1> QED BY <1>1, <1>6, <1>7, <1>8

\* A closed line of the trade stays, unless the step leaves its lines as the
\* trade is, with rows of it to count or the line open again.
LEMMA Spared ==
  ASSUME NEW n \in Trades, Own(n), BaseInv, ~ raced, OwnInv(n), OwnInv(n)', Next,
         NEW l \in Of(journal, n), l.status = "closed"
  PROVE  l \in LinesOf(journal') \/ (LooksAt /\ AsOnExchange(n)' /\ (Seen(n) # {} \/ Reopened(l)))
<1>1. l \in LinesOf(journal) /\ l.id.pair = PairOf[n] /\ journal \in Seq(Line)
  BY DEF Of, BaseInv, RecInv, FileHolds
<1>2. CASE journal' = journal
  BY <1>1, <1>2
<1>3. ASSUME NEW pr, pr # PairOf[n], Differs(journal, journal', pr) PROVE l \in LinesOf(journal')
  BY <1>1, <1>3 DEF Differs
<1>4. ASSUME NEW m \in Trades, \/ Place(m) \/ Log(m) \/ Fill(m) \/ ScaleIn(m) \/ ExitUnit(m)
                               \/ FillSecond(m) \/ Withdraw(m) \/ \E k \in Trades : Merge(m, k)
      PROVE  l \in LinesOf(journal')
  <2>1. CASE Log(m)
    <3>1. PICK new : journal' = Append(journal, new)
      BY <2>1 DEF Log
    <3> QED BY <1>1, <3>1, AppendSpares
  <2>2. CASE ~ Log(m)
    <3>1. journal' = journal
      BY <1>4, <2>2 DEF Place, Fill, ScaleIn, ExitUnit, FillSecond, Withdraw, Merge
    <3> QED BY <1>1, <3>1
  <2> QED BY <2>1, <2>2
<1>5. ASSUME NEW i \in DOMAIN journal, SyncLine(journal[i]) PROVE l \in LinesOf(journal')
  BY <1>1, <1>5, SyncSpares
<1>6. \/ NextDay \/ Dies \/ FetchRows \/ FetchPositions \/ FetchOrders \/ PrePassNothing
      \/ StartScaleOut \/ StartMainLoop \/ MainSkips \/ EndPass \/ \E x \in visible : Forget(x)
      => journal' = journal
  BY DEF NextDay, Dies, FetchRows, FetchPositions, FetchOrders, PrePassNothing, StartScaleOut,
         StartMainLoop, MainSkips, EndPass, Forget
<1>7. ASSUME OrphanGroup \/ OrphanPosition PROVE l \in LinesOf(journal')
  <2>1. journal' = journal \/ \E new : journal' = Append(journal, new)
    <3>1. CASE OrphanGroup
      BY <3>1 DEF OrphanGroup
    <3>2. CASE OrphanPosition
      BY <3>2 DEF OrphanPosition
    <3> QED BY <1>7, <3>1, <3>2
  <2>2. PICK new : journal' = journal \/ journal' = Append(journal, new)
    BY <2>1
  <2> QED BY <1>1, <2>2, AppendSpares
<1>8. ASSUME PrePassOpen \/ PrePassFlat \/ MainOpens \/ MainCloses \/ MainCancels
      PROVE  l \in LinesOf(journal') \/ (LooksAt /\ AsOnExchange(n)' /\ (Seen(n) # {} \/ Reopened(l)))
  <2>1. CASE Head(lines).id.pair # PairOf[n]
    <3>1. Differs(journal, journal', Head(lines).id.pair)
      BY <1>8, PrePassOpenTouches, PrePassFlatTouches, MainOpensTouches, MainClosesTouches, MainCancelsTouches
         DEF BaseInv
    <3> QED BY <1>3, <2>1, <3>1
  <2>2. CASE Head(lines).id.pair = PairOf[n]
    <3>1. LooksAt /\ (journal' = journal \/ Head(lines).id = TradeId(n))
      BY <1>8, <2>2, OwnOrNothing
    <3>2. CASE Head(lines).id = TradeId(n) /\ pc = "main"
      <4>1. LooksAt /\ AsOnExchange(n)'
        BY <3>1, <3>2, MainReads
      <4>2. l \in LinesOf(journal') \/ Seen(n) # {} \/ Reopened(l)
        BY <1>8, <3>2, MainSpares
      <4> QED BY <4>1, <4>2
    <3>3. CASE Head(lines).id = TradeId(n) /\ pc # "main"
      <4>1. PrePassOpen \/ PrePassFlat
        BY <1>8, <3>3 DEF MainOpens, MainCloses, MainCancels, Matches, NextLine
      <4>2. AsOnExchange(n)' /\ Seen(n) # {}
        BY <3>3, <4>1, PrePassOpenAtOwn, PrePassFlatAtOwn, PrePassOpenSees, PrePassFlatSees
      <4> QED BY <3>1, <4>2
    <3> QED BY <1>2, <3>1, <3>2, <3>3
  <2> QED BY <2>1, <2>2
<1> QED BY <1>2, <1>4, <1>5, <1>6, <1>7, <1>8 DEF Next, PassStep

LEMMA StaysCounted ==
  ASSUME NEW n \in Trades, Own(n), BaseInv, OwnInv(n), OwnInv(n)', [Next]_vars, ~ raced,
         NEW i \in LinesIn("closed"), NEW x \in journal[i].net, x.trade = n
  PROVE  Counted(x)' \/ AgedAlone(x) \/ Reopened(journal[i])
<1>1. i \in DOMAIN journal /\ journal[i].status = "closed" /\ journal[i] \in Of(journal, n)
  BY NetOf DEF LinesIn
<1>2. x \in Mine(n)
  BY <1>1 DEF OwnInv, FileFits, ParentFits, ChildFits
<1>3. ASSUME NEW l \in LinesOf(journal'), l.status = "closed", x \in l.net PROVE Counted(x)'
  BY <1>3, LineAt DEF Counted
<1>4. CASE UNCHANGED vars
  BY <1>1, <1>4 DEF Counted, vars
<1>5. CASE Next
  <2>1. CASE journal[i] \in LinesOf(journal')
    BY <1>1, <1>3, <2>1
  <2>2. CASE LooksAt /\ AsOnExchange(n)' /\ Seen(n) # {}
    <3>1. UNCHANGED <<life, exits, visible>> /\ raced' = raced /\ pc' # "idle" /\ rows = visible
      BY <2>2 DEF LooksAt, exchange, Loops, OwnInv, PassFits
    <3>2. CASE x \notin rows
      BY <2>2, <3>1, <3>2 DEF AgedAlone, Seen
    <3>3. CASE x \in rows
      <4>1. Seen(n)' = Seen(n) /\ Mine(n)' = Mine(n) /\ life'[n] = life[n] /\ x \in Seen(n)'
        BY <3>1, <3>3 DEF Seen, Mine
      <4>2. FileFits(n)' /\ PassFits(n)' /\ ExchangeFits(n)'
        BY <3>1 DEF OwnInv
      <4>3. life'[n] \in {"open", "flat"} /\ Names(journal', TradeId(n))
        BY <1>2, <3>1, <4>1, <4>2 DEF ExchangeFits, PassFits
      <4>4. PICK l \in Of(journal', n) : l.id = TradeId(n)
        BY <4>3, OfNamed
      <4>5. \E c \in Of(journal', n) : c.status = "closed" /\ x \in c.net
        <5>1. CASE life'[n] = "flat"
          BY <2>2, <4>1, <4>4, <5>1 DEF AsOnExchange
        <5>2. CASE life'[n] = "open"
          <6>1. PICK c \in Of(journal', n) : c.id = Part(n) /\ c.net = Seen(n)'
            BY <2>2, <4>1, <4>4, <5>2 DEF AsOnExchange
          <6>2. c.status = "closed"
            BY <4>2, <6>1, IdsDiffer DEF FileFits, ChildFits
          <6> QED BY <4>1, <6>1, <6>2
        <5> QED BY <4>3, <5>1, <5>2
      <4> QED BY <1>3, <4>5 DEF Of
    <3> QED BY <3>2, <3>3
  <2> QED BY <1>1, <1>5, <2>1, <2>2, Spared
<1> QED BY <1>4, <1>5

\* Whatever else the account holds, an exit of a logged trade alone on its
\* pair that a closed line counts is dropped only by a pass that finds other
\* rows of the trade and not this one any more, or its position still open,
\* as long as no pass was disturbed (journal.js lines 948-975, 1031).
THEOREM LoneHistoryKept ==
  ASSUME NEW n \in Trades, Own(n)
  PROVE  Spec => [][\A i \in LinesIn("closed") : \A x \in journal[i].net :
                      x.trade = n => raced \/ Counted(x)' \/ AgedAlone(x) \/ Reopened(journal[i])]_vars
<1>1. /\ BaseInv /\ AllOwn /\ (BaseInv /\ AllOwn)' /\ [Next]_vars
      => [\A i \in LinesIn("closed") : \A x \in journal[i].net :
            x.trade = n => raced \/ Counted(x)' \/ AgedAlone(x) \/ Reopened(journal[i])]_vars
  BY StaysCounted DEF AllOwn
<1> QED BY <1>1, OwnInvariant, PTL DEF Spec

\* When every trade is logged and alone on its pair, what a closed line
\* counts stays counted by some line, even once the exchange has forgotten
\* the rows, unless a pass finds some rows of the trade but not this one, or
\* opens the line again (journal.js lines 948-975, 1031).
THEOREM LoneTradesKeepTheirHistory ==
  ASSUME \A n \in Trades : Own(n)
  PROVE  Spec => HistoryKept
<1>1. /\ BaseInv /\ AllOwn /\ (BaseInv /\ AllOwn)' /\ [Next]_vars
      => [\A i \in LinesIn("closed") : \A x \in journal[i].net :
            raced \/ Counted(x)' \/ AgedAlone(x) \/ Reopened(journal[i])]_vars
  <2> SUFFICES ASSUME BaseInv, AllOwn, BaseInv', AllOwn', [Next]_vars, ~ raced,
                      NEW i \in LinesIn("closed"), NEW x \in journal[i].net
               PROVE  Counted(x)' \/ AgedAlone(x) \/ Reopened(journal[i])
    OBVIOUS
  <2>1. PICK n \in Trades : x.trade = n
    BY NetOf DEF LinesIn
  <2>2. OwnInv(n) /\ OwnInv(n)'
    BY DEF AllOwn
  <2> QED BY <2>1, <2>2, StaysCounted
<1> QED BY <1>1, OwnInvariant, PTL DEF Spec, HistoryKept

-----------------------------------------------------------------------------
(* A pass over what the last one saw                                       *)

LEMMA PrePassOpenAgain ==
  ASSUME NEW n \in Trades, Own(n), BaseInv, ~ raced, OwnInv(n), PrePassOpen, Head(lines).id = TradeId(n),
         AsOnExchange(n)
  PROVE  journal' = journal
<1> DEFINE t == Head(lines)
           claim == ClaimedGroups(t)
<1>1. /\ t \in Of(journal, n) /\ claim = GroupsOf(n) /\ claim # {} /\ RowsOf(claim) = Seen(n) /\ Seen(n) # {}
      /\ ClaimedPosition(t) = PositionsOf(n) /\ life[n] = "open"
      /\ PositionsOf(n) = {[pair |-> PairOf[n], entry |-> avg[n], size |-> left[n]]}
  BY PrePassOpenSees
<1>2. t.status = "open" /\ t.size = left[n] /\ \E c \in Of(journal, n) : c.id = Part(n) /\ c.net = Seen(n)
  BY <1>1 DEF AsOnExchange
<1>3. PICK c \in LinesOf(journal) : c.id = Part(n) /\ c.net = Seen(n)
  BY <1>2 DEF Of
<1>4. HasLine(Part(n)) /\ LineOf(Part(n)) = c
  <2>1. HasLine(Part(n))
    BY <1>3, NamesIs, HasIsNames
  <2>2. LineOf(Part(n)) \in LinesOf(journal) /\ LineOf(Part(n)).id = Part(n) /\ Unique(journal)
    BY <2>1, LineOfHere DEF BaseInv, RecInv, FileHolds
  <2> QED BY <1>3, <2>1, <2>2, OneOfEach
<1>5. Child(t, claim).id = Part(n) /\ Child(t, claim).net = Seen(n)
  BY <1>1 DEF Child, Part
<1>6. Upsert(journal, Child(t, claim)) = journal
  BY <1>3, <1>4, <1>5 DEF Upsert
<1>7. \A p \in ClaimedPosition(t) : ReadsOpen(t, p)
  BY <1>1, <1>2 DEF ReadsOpen
<1>8. PICK p \in ClaimedPosition(t) :
        journal' = LET opened == IF ReadsOpen(t, p) THEN journal ELSE Rewrite(journal, Opened(t, p))
                   IN  IF claim = {} THEN opened ELSE Upsert(opened, Child(t, claim))
  BY DEF PrePassOpen
<1> HIDE DEF t, claim
<1> QED BY <1>1, <1>6, <1>7, <1>8

LEMMA PrePassFlatAgain ==
  ASSUME NEW n \in Trades, Own(n), BaseInv, ~ raced, OwnInv(n), PrePassFlat, Head(lines).id = TradeId(n),
         AsOnExchange(n)
  PROVE  journal' = journal
<1> DEFINE t == Head(lines)
<1>1. /\ t \in Of(journal, n) /\ RowsOf(ClaimedGroups(t)) = Seen(n)
      /\ life[n] = "flat" /\ \E x, y \in Seen(n) : x.entry # y.entry
  BY PrePassFlatSees
<1>2. t.status = "closed" /\ t.net = Seen(n) /\ \A c \in Of(journal, n) : c.id # Part(n)
  BY <1>1 DEF AsOnExchange
<1>3. ~ Names(journal, Part(n)) /\ journal \in Seq(Line)
  BY <1>2, OfNamed DEF BaseInv, RecInv, FileHolds
<1>4. ReadsClosed(t, RowsOf(ClaimedGroups(t))) /\ ChildId(t.id) = Part(n)
  BY <1>1, <1>2 DEF ReadsClosed, Part
<1>5. journal' = Without(journal, Part(n))
  BY <1>4 DEF PrePassFlat
<1> QED BY <1>3, <1>5, NothingWithout

LEMMA MainOpensAgain ==
  ASSUME NEW n \in Trades, Own(n), BaseInv, ~ raced, OwnInv(n), MainOpens, Head(lines).id = TradeId(n),
         AsOnExchange(n)
  PROVE  journal' = journal
<1> DEFINE t == Head(lines)
<1>1. LooksAt /\ pc = "main" /\ TradeId(n) \notin handled
  BY DEF MainOpens, Matches, NextLine, LooksAt, Loops
<1>2. /\ t \in Of(journal, n) /\ FreePositions(t) = PositionsOf(n)
      /\ PositionsOf(n) = IF life[n] = "open" THEN {[pair |-> PairOf[n], entry |-> avg[n], size |-> left[n]]} ELSE {}
  BY <1>1, LeftToMain
<1>3. PICK p \in FreePositions(t) : journal' = IF ReadsOpen(t, p) THEN journal
                                               ELSE Rewrite(journal, [Opened(t, p) EXCEPT !.entry = p.entry])
  BY DEF MainOpens
<1>4. life[n] = "open" /\ p.size = left[n]
  BY <1>2, <1>3
<1>5. ReadsOpen(t, p)
  BY <1>2, <1>4 DEF AsOnExchange, ReadsOpen
<1> QED BY <1>3, <1>5

LEMMA MainClosesAgain ==
  ASSUME NEW n \in Trades, Own(n), BaseInv, ~ raced, OwnInv(n), MainCloses, Head(lines).id = TradeId(n),
         AsOnExchange(n)
  PROVE  journal' = journal
<1> DEFINE t == Head(lines)
<1>1. LooksAt /\ pc = "main" /\ TradeId(n) \notin handled /\ FreePositions(t) = {}
  BY DEF MainCloses, Matches, NextLine, LooksAt, Loops
<1>2. /\ t \in Of(journal, n) /\ FreePositions(t) = PositionsOf(n) /\ FreeGroups(t) = GroupsOf(n) /\ rows = visible
      /\ PositionsOf(n) = IF life[n] = "open" THEN {[pair |-> PairOf[n], entry |-> avg[n], size |-> left[n]]} ELSE {}
      /\ ~ ScaledOut(n) /\ ExchangeFits(n) /\ FileFits(n)
  BY <1>1, LeftToMain
<1>3. PICK g \in FreeGroups(t) : ReadsClosed(t, g.rows) => journal' = journal
  BY DEF MainCloses
<1>4. g.rows = Seen(n) /\ Seen(n) # {} /\ life[n] # "open"
  BY <1>1, <1>2, <1>3, RowsOfGroups DEF ScaledOut
<1>5. life[n] = "flat"
  BY <1>2, <1>4, SeenIsMine DEF ExchangeFits
<1>6. ReadsClosed(t, g.rows)
  BY <1>2, <1>4, <1>5 DEF AsOnExchange, ReadsClosed
<1> QED BY <1>3, <1>6

LEMMA MainCancelsAgain ==
  ASSUME NEW n \in Trades, Own(n), BaseInv, ~ raced, OwnInv(n), MainCancels, Head(lines).id = TradeId(n),
         AsOnExchange(n)
  PROVE  journal' = journal
<1> DEFINE t == Head(lines)
<1>1. /\ t \in Of(journal, n) /\ life[n] \in {"resting", "flat", "withdrawn"}
      /\ life[n] = "flat" => t.status = "closed"
      /\ life[n] # "flat" => t.status = "pending"
      /\ t.status = "pending" => (StillResting(t) <=> life[n] = "resting")
  BY MainCancelsSees
<1>2. life[n] # "withdrawn"
  BY <1>1 DEF AsOnExchange
<1>3. t.status = "closed" \/ StillResting(t)
  BY <1>1, <1>2
<1> QED BY <1>3 DEF MainCancels

LEMMA SameAgain ==
  ASSUME \A n \in Trades : Own(n), BaseInv, AllOwn, SeenAgain, Next
  PROVE  journal' = journal
<1>1. calm = 2 /\ calm' = 2 /\ ~ raced
  BY DEF SeenAgain
<1>2. ASSUME NEW n \in Trades PROVE OwnInv(n) /\ AsOnExchange(n)
  BY <1>1 DEF AllOwn, OwnInv, Quiet
<1>3. ASSUME NEW n \in Trades, \/ Place(n) \/ Log(n) \/ Fill(n) \/ ScaleIn(n) \/ ExitUnit(n)
                               \/ FillSecond(n) \/ Withdraw(n) \/ \E m \in Trades : Merge(n, m)
      PROVE  FALSE
  BY <1>1, <1>3 DEF Place, Log, Fill, ScaleIn, ExitUnit, FillSecond, Withdraw, Merge, Moves
<1>4. (\E i \in DOMAIN journal : SyncLine(journal[i])) \/ (\E x \in visible : Forget(x)) => FALSE
  BY <1>1 DEF SyncLine, Forget, Moves
<1>5. \/ NextDay \/ Dies \/ FetchRows \/ FetchPositions \/ FetchOrders \/ PrePassNothing
      \/ StartScaleOut \/ StartMainLoop \/ MainSkips \/ EndPass
      => journal' = journal
  BY DEF NextDay, Dies, FetchRows, FetchPositions, FetchOrders, PrePassNothing, StartScaleOut,
         StartMainLoop, MainSkips, EndPass
<1>6. ASSUME NEW n \in Trades, pc = "main", lines = <<>> PROVE AllClaimed(n)
  BY <1>1, <1>2, <1>6, OwnFinished DEF Finished
<1>7. ~ OrphanGroup
  <2> SUFFICES ASSUME pc = "main", lines = <<>>, NEW g \in Groups(rows) \ usedG PROVE FALSE
    BY DEF OrphanGroup
  <2>1. PICK x \in rows : g.pair = PairOf[x.trade]
    BY DEF Groups
  <2>2. x.trade \in Trades
    BY DEF BaseInv, RecInv, MarketHolds, PassHolds, Exit
  <2> QED BY <1>6, <2>1, <2>2 DEF AllClaimed, GroupsOf
<1>8. ~ OrphanPosition
  <2> SUFFICES ASSUME pc = "main", lines = <<>>, NEW p \in positions \ usedP PROVE FALSE
    BY DEF OrphanPosition
  <2>1. PICK n \in Trades : p.pair = PairOf[n]
    BY DEF BaseInv, RecInv, PassHolds, Pairs
  <2> QED BY <1>6, <2>1 DEF AllClaimed, PositionsOf
<1>9. ASSUME PrePassOpen \/ PrePassFlat \/ MainOpens \/ MainCloses \/ MainCancels PROVE journal' = journal
  <2>1. lines # <<>> /\ lines \in Seq(Line)
    BY <1>9 DEF PrePassOpen, PrePassFlat, MainOpens, MainCloses, MainCancels, Matches, NextLine,
                BaseInv, RecInv, PassHolds
  <2>2. Head(lines) \in Line
    BY <2>1
  <2>3. PICK n \in Trades : Head(lines).id.pair = PairOf[n]
    BY <2>2 DEF Line, Id, Pairs
  <2>4. CASE Head(lines).id # TradeId(n)
    BY <1>1, <1>2, <1>9, <2>3, <2>4, OwnOrNothing
  <2>5. CASE Head(lines).id = TradeId(n)
    BY <1>1, <1>2, <1>9, <2>5, PrePassOpenAgain, PrePassFlatAgain, MainOpensAgain, MainClosesAgain,
       MainCancelsAgain
  <2> QED BY <2>4, <2>5
<1> QED BY <1>3, <1>4, <1>5, <1>7, <1>8, <1>9 DEF Next, PassStep

\* When every trade is logged and alone on its pair, a pass over what the
\* previous pass saw rewrites no line, adds none and drops none (journal.js
\* lines 1005-1017).
THEOREM LonePassesAreIdempotent ==
  ASSUME \A n \in Trades : Own(n)
  PROVE  Spec => Idempotent
<1>1. /\ BaseInv /\ AllOwn /\ (BaseInv /\ AllOwn)' /\ [Next]_vars
      => [(SeenAgain /\ \A i \in DOMAIN journal : journal[i].id.kind = "trade") => UNCHANGED journal]_vars
  <2> SUFFICES ASSUME BaseInv, AllOwn, [Next]_vars, SeenAgain PROVE journal' = journal \/ UNCHANGED vars
    OBVIOUS
  <2> QED BY SameAgain
<1> QED BY <1>1, OwnInvariant, PTL DEF Spec, Idempotent

=============================================================================
