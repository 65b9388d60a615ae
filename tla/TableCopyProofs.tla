---------------------------- MODULE TableCopyProofs ----------------------------
(***************************************************************************)
(* Proofs about the copy of a table, for any tables, requests and sample   *)
(* size: the rows copied are those that the conditions mean, as many as    *)
(* were counted, and with all their columns; and what is not copied has a  *)
(* known reason.                                                           *)
(***************************************************************************)
EXTENDS TableCopy, WellFoundedInduction, SequenceTheorems, FiniteSetTheorems, TLAPS

(***************************************************************************)
(* RowFilters: the parameters of all conditions make one flat list, and    *)
(* each clause finds its own in it. FlattenSeq and SqlSelects are defined  *)
(* by recursive functions; that these exist, and what they are, follows by *)
(* looking at the least place where it fails.                              *)
(***************************************************************************)

(* A non-empty set of numbers has a least one.                             *)
LEMMA Least ==
  ASSUME NEW T, T \subseteq Nat, T # {}
  PROVE  \E n \in T : \A m \in T : n <= m
<1> DEFINE R == OpToRel(<, Nat)
<1>1. IsWellFoundedOn(R, Nat) BY NatLessThanWellFounded
<1>2. \A m, n \in Nat : m < n => <<m, n>> \in R BY DEF OpToRel
<1> HIDE DEF R
<1>3. PICK n \in T : \A m \in T : ~(<<m, n>> \in R) BY <1>1, WFMin
<1>4. ASSUME NEW m \in T PROVE n <= m
  <2>1. m \in Nat /\ n \in Nat OBVIOUS
  <2>2. ~(m < n) BY <1>2, <1>3, <2>1
  <2> QED BY <2>1, <2>2
<1> QED BY <1>4

(* The prefixes that FlattenSeq puts together, one after the other.         *)
IsFlat(g, s, n) == g = [i \in 1..n |-> IF i = 1 THEN s[i] ELSE g[i - 1] \o s[i]]
Flat(s) == CHOOSE g : IsFlat(g, s, Len(s))

(* FlattenSeq is the last of the prefixes put together.                    *)
LEMMA FlattenIsFlat == ASSUME NEW s, Len(s) # 0 PROVE FlattenSeq(s) = Flat(s)[Len(s)]
  BY DEF FlattenSeq, Flat, IsFlat

(* There is such a function of prefixes.                                   *)
LEMMA FlatExists == ASSUME NEW s, NEW n \in Nat PROVE \E g : IsFlat(g, s, n)
<1> DEFINE T == {m \in Nat : ~\E g : IsFlat(g, s, m)}
<1>1. SUFFICES ASSUME T # {} PROVE FALSE OBVIOUS
<1>2. T \subseteq Nat OBVIOUS
<1> HIDE DEF T
<1>3. PICK m \in T : \A k \in T : m <= k BY <1>1, <1>2, Least
<1>4. m \in Nat /\ ~\E g : IsFlat(g, s, m) BY DEF T
<1>5. m # 0
  <2>1. IsFlat([i \in 1..0 |-> 0], s, 0) BY DEF IsFlat
  <2> QED BY <1>4, <2>1
<1>6. PICK h : IsFlat(h, s, m - 1) BY <1>3, <1>4, <1>5 DEF T
<1> DEFINE g == [i \in 1..m |-> IF i < m THEN h[i] ELSE IF i = 1 THEN s[i] ELSE h[i - 1] \o s[i]]
<1>7. \A i \in 1..m - 1 : h[i] = IF i = 1 THEN s[i] ELSE h[i - 1] \o s[i]
  BY <1>6, Zenon DEF IsFlat
<1>8. \A i \in 1..m : g[i] = IF i = 1 THEN s[i] ELSE g[i - 1] \o s[i]
  <2> SUFFICES ASSUME NEW i \in 1..m PROVE g[i] = IF i = 1 THEN s[i] ELSE g[i - 1] \o s[i] OBVIOUS
  <2>1. CASE i < m
    <3>1. i \in 1..m - 1 BY <1>4, <2>1
    <3>2. i # 1 => i - 1 \in 1..m /\ i - 1 < m BY <1>4, <2>1
    <3> QED BY <1>7, <2>1, <3>1, <3>2
  <2>2. CASE i = m
    <3>1. i # 1 => i - 1 \in 1..m /\ i - 1 < m BY <1>4, <2>2
    <3> QED BY <1>4, <2>2, <3>1
  <2> QED BY <1>4, <2>1, <2>2
<1>9. IsFlat(g, s, m)
  <2>1. g = [i \in 1..m |-> g[i]] OBVIOUS
  <2> HIDE DEF g
  <2> QED BY <1>8, <2>1, Zenon DEF IsFlat
<1> QED BY <1>4, <1>9

(* And each prefix is the one before it with one sequence more.            *)
LEMMA FlatAt ==
  ASSUME NEW g, NEW s, NEW n \in Nat, IsFlat(g, s, n), NEW i \in 1..n
  PROVE  /\ i = 1 => g[i] = s[i]
         /\ i # 1 => g[i] = g[i - 1] \o s[i]
<1>1. g[i] = IF i = 1 THEN s[i] ELSE g[i - 1] \o s[i]
  BY Zenon DEF IsFlat
<1> QED BY <1>1

(* Where the values of a clause begin: after those of the clauses before.  *)
IsBefore(b, clauses, n) == b = [i \in 1..n |-> IF i = 1 THEN 0 ELSE b[i - 1] + clauses[i - 1].holes]
Before(clauses) == CHOOSE b : IsBefore(b, clauses, Len(clauses) + 1)

(* SqlSelects with its local function given a name.                        *)
LEMMA SelectsIsBefore ==
  ASSUME NEW query, NEW row
  PROVE  SqlSelects(query, row) <=>
           \A i \in DOMAIN query.clauses :
             SqlHolds(query.clauses[i].op, Field(row, query.clauses[i].column),
                      SubSeq(query.params, Before(query.clauses)[i] + 1, Before(query.clauses)[i + 1]))
  BY DEF SqlSelects, Before, IsBefore

(* There is such a function of positions.                                  *)
LEMMA BeforeExists == ASSUME NEW clauses, NEW n \in Nat PROVE \E b : IsBefore(b, clauses, n)
<1> DEFINE T == {m \in Nat : ~\E b : IsBefore(b, clauses, m)}
<1>1. SUFFICES ASSUME T # {} PROVE FALSE OBVIOUS
<1>2. T \subseteq Nat OBVIOUS
<1> HIDE DEF T
<1>3. PICK m \in T : \A k \in T : m <= k BY <1>1, <1>2, Least
<1>4. m \in Nat /\ ~\E b : IsBefore(b, clauses, m) BY DEF T
<1>5. m # 0
  <2>1. IsBefore([i \in 1..0 |-> 0], clauses, 0) BY DEF IsBefore
  <2> QED BY <1>4, <2>1
<1>6. PICK h : IsBefore(h, clauses, m - 1) BY <1>3, <1>4, <1>5 DEF T
<1> DEFINE b == [i \in 1..m |-> IF i < m THEN h[i] ELSE IF i = 1 THEN 0 ELSE h[i - 1] + clauses[i - 1].holes]
<1>7. \A i \in 1..m - 1 : h[i] = IF i = 1 THEN 0 ELSE h[i - 1] + clauses[i - 1].holes
  BY <1>6, Zenon DEF IsBefore
<1>8. \A i \in 1..m : b[i] = IF i = 1 THEN 0 ELSE b[i - 1] + clauses[i - 1].holes
  <2> SUFFICES ASSUME NEW i \in 1..m PROVE b[i] = IF i = 1 THEN 0 ELSE b[i - 1] + clauses[i - 1].holes OBVIOUS
  <2>0. i # 1 => i - 1 \in 1..m /\ i - 1 < m BY <1>4
  <2>1. CASE i < m
    <3>1. i \in 1..m - 1 BY <1>4, <2>1
    <3> QED BY <1>7, <2>0, <2>1, <3>1
  <2>2. CASE i = m BY <1>4, <2>0, <2>2
  <2> QED BY <1>4, <2>1, <2>2
<1>9. IsBefore(b, clauses, m)
  <2>1. b = [i \in 1..m |-> b[i]] OBVIOUS
  <2> HIDE DEF b
  <2> QED BY <1>8, <2>1, Zenon DEF IsBefore
<1> QED BY <1>4, <1>9

(* And each position is the one before it, plus the holes of that clause.  *)
LEMMA BeforeAt ==
  ASSUME NEW b, NEW clauses, NEW n \in Nat, IsBefore(b, clauses, n), NEW i \in 1..n
  PROVE  b[i] = IF i = 1 THEN 0 ELSE b[i - 1] + clauses[i - 1].holes
  BY Zenon DEF IsBefore

(* The i-th prefix of the parameters holds the values of the first i       *)
(* conditions, each where its clause will look for them.                   *)
Prefix(g, b, s, i) ==
  /\ g[i] \in Seq(Nat) /\ b[i] \in Nat /\ b[i + 1] = b[i] + Len(s[i]) /\ Len(g[i]) = b[i + 1]
  /\ \A j \in 1..i : /\ b[j] \in Nat /\ b[j] + Len(s[j]) <= Len(g[i])
                     /\ \A k \in 1..Len(s[j]) : g[i][b[j] + k] = s[j][k]

(* The items of two sequences, one after the other.                        *)
LEMMA Concat ==
  ASSUME NEW p, NEW q, p \in Seq(Nat), q \in Seq(Nat), NEW l, Len(p) = l,
         NEW r, r = p \o q
  PROVE  /\ r \in Seq(Nat) /\ Len(r) = l + Len(q)
         /\ \A m \in 1..l : r[m] = p[m]
         /\ \A k \in 1..Len(q) : r[l + k] = q[k]
<1>1. Len(q) \in Nat /\ l \in Nat BY LenProperties
<1>2. /\ r \in Seq(Nat) /\ Len(r) = l + Len(q)
      /\ \A m \in 1..(l + Len(q)) : r[m] = IF m <= l THEN p[m] ELSE q[m - l]
  BY ConcatProperties
<1>3. ASSUME NEW m \in 1..l PROVE r[m] = p[m]
  <2>1. m \in 1..(l + Len(q)) /\ m <= l BY <1>1
  <2> QED BY <1>2, <2>1
<1>4. ASSUME NEW k \in 1..Len(q) PROVE r[l + k] = q[k]
  <2> DEFINE m == l + k
  <2>1. m \in 1..(l + Len(q)) /\ ~(m <= l) /\ m - l = k BY <1>1
  <2> HIDE DEF m
  <2>2. r[m] = IF m <= l THEN p[m] ELSE q[m - l] BY <1>2, <2>1
  <2>3. r[m] = q[k] BY <2>1, <2>2
  <2> QED BY <2>3 DEF m
<1> QED BY <1>2, <1>3, <1>4

(* Every prefix is as Prefix says, by the least that might not be.         *)
LEMMA PrefixesFilled ==
  ASSUME NEW n \in Nat, NEW s, \A i \in 1..n : s[i] \in Seq(Nat),
         NEW clauses, \A i \in 1..n : clauses[i].holes = Len(s[i]),
         NEW g, IsFlat(g, s, n), NEW b, IsBefore(b, clauses, n + 1)
  PROVE  \A i \in 1..n : Prefix(g, b, s, i)
<1> DEFINE T == {i \in 1..n : ~Prefix(g, b, s, i)}
<1>1. SUFFICES ASSUME T # {} PROVE FALSE OBVIOUS
<1>2. T \subseteq Nat OBVIOUS
<1> HIDE DEF T
<1>3. PICK i \in T : \A k \in T : i <= k BY <1>1, <1>2, Least
<1>4. i \in 1..n /\ ~Prefix(g, b, s, i) BY DEF T
<1>5. s[i] \in Seq(Nat) /\ Len(s[i]) \in Nat BY <1>4, LenProperties
<1>6. b[i + 1] = b[i] + Len(s[i])
  <2>1. i + 1 \in 1..(n + 1) /\ i + 1 # 1 /\ i + 1 - 1 = i BY <1>4
  <2> QED BY <1>4, <2>1, BeforeAt
<1>7. CASE i = 1
  <2>1. b[1] = 0
    <3>1. 1 \in 1..(n + 1) OBVIOUS
    <3> QED BY <3>1, BeforeAt
  <2>2. g[1] = s[1] BY <1>4, <1>7, FlatAt
  <2>3. b[2] = Len(s[1]) /\ b[1] + Len(s[1]) = Len(s[1]) BY <1>5, <1>6, <1>7, <2>1
  <2>4. \A j \in 1..1 : j = 1 OBVIOUS
  <2>5. \A k \in 1..Len(s[1]) : g[1][b[1] + k] = s[1][k] BY <1>5, <1>7, <2>1, <2>2
  <2>6. Prefix(g, b, s, 1) BY <1>5, <1>6, <1>7, <2>1, <2>2, <2>3, <2>4, <2>5 DEF Prefix
  <2> QED BY <1>4, <1>7, <2>6
<1>8. CASE i # 1
  <2>1. i - 1 \in 1..n /\ i \in Nat /\ i - 1 < i BY <1>4, <1>8
  <2>2. Prefix(g, b, s, i - 1) BY <1>3, <2>1 DEF T
  <2>3. g[i - 1] \in Seq(Nat) /\ Len(g[i - 1]) = b[i] /\ b[i] \in Nat
    <3>1. i - 1 + 1 = i BY <2>1
    <3>2. g[i - 1] \in Seq(Nat) /\ Len(g[i - 1]) = b[i - 1 + 1] BY <2>2, Zenon DEF Prefix
    <3>3. Len(g[i - 1]) \in Nat BY <3>2, LenProperties
    <3> QED BY <3>1, <3>2, <3>3, Zenon
  <2>4. g[i] = g[i - 1] \o s[i]
    BY <1>4, <1>8, FlatAt, Zenon
  <2>5. /\ g[i] \in Seq(Nat) /\ Len(g[i]) = b[i] + Len(s[i])
        /\ \A m \in 1..b[i] : g[i][m] = g[i - 1][m]
        /\ \A k \in 1..Len(s[i]) : g[i][b[i] + k] = s[i][k]
    <3> DEFINE p == g[i - 1]
               q == s[i]
               l == b[i]
               r == g[i]
    <3>1. p \in Seq(Nat) /\ q \in Seq(Nat) /\ Len(p) = l /\ r = p \o q /\ l \in Nat /\ Len(q) \in Nat
      BY <1>5, <2>3, <2>4
    <3> HIDE DEF p, q, l, r
    <3>2. r \in Seq(Nat) BY <3>1, Concat, Zenon
    <3>5. Len(r) = l + Len(q) BY <3>1, ConcatProperties
    <3>3. \A m \in 1..l : r[m] = p[m] BY <3>1, Concat
    <3>4. \A k \in 1..Len(q) : r[l + k] = q[k] BY <3>1, Concat
    <3> QED BY <3>2, <3>3, <3>4, <3>5 DEF p, q, l, r
  <2>6. ASSUME NEW j \in 1..i
        PROVE  /\ b[j] \in Nat /\ b[j] + Len(s[j]) <= Len(g[i])
               /\ \A k \in 1..Len(s[j]) : g[i][b[j] + k] = s[j][k]
    <3>1. CASE j = i
      <4>1. b[i] \in Nat /\ b[i] + Len(s[i]) <= Len(g[i]) BY <1>5, <2>3, <2>5
      <4>2. \A k \in 1..Len(s[i]) : g[i][b[i] + k] = s[i][k] BY <2>5
      <4> QED BY <3>1, <4>1, <4>2, Zenon
    <3>2. CASE j # i
      <4>0. j \in 1..i - 1 /\ j \in 1..n BY <1>4, <3>2
      <4>1. /\ b[j] \in Nat /\ b[j] + Len(s[j]) <= b[i]
            /\ \A k \in 1..Len(s[j]) : g[i - 1][b[j] + k] = s[j][k]
        BY <2>2, <2>3, <4>0 DEF Prefix
      <4>2. Len(s[j]) \in Nat BY <4>0, LenProperties
      <4>3. ASSUME NEW k \in 1..Len(s[j]) PROVE g[i][b[j] + k] = s[j][k]
        <5>1. b[j] + k \in 1..b[i] BY <2>3, <4>1, <4>2
        <5>2. g[i - 1][b[j] + k] = s[j][k] BY <4>1, Zenon
        <5>3. g[i][b[j] + k] = g[i - 1][b[j] + k] BY <2>5, <5>1, Zenon
        <5> QED BY <5>2, <5>3, Zenon
      <4>4. b[j] + Len(s[j]) <= Len(g[i]) BY <1>5, <2>3, <2>5, <4>1, <4>2, SMTT(30)
      <4> QED BY <4>1, <4>3, <4>4
    <3> QED BY <3>1, <3>2
  <2>7. Prefix(g, b, s, i) BY <1>6, <2>3, <2>5, <2>6 DEF Prefix
  <2> QED BY <1>4, <2>7
<1> QED BY <1>7, <1>8

(* n sequences of values, and n clauses with holes for them.               *)
HasValues(s, n) == \A i \in 1..n : s[i] \in Seq(Nat)
HasHoles(clauses, s, n) == \A i \in 1..n : clauses[i].holes = Len(s[i])

(* The hole of clause j gets the values of condition j.                    *)
LEMMA ArgumentsFit ==
  ASSUME NEW n \in Nat, NEW s, HasValues(s, n), NEW clauses, HasHoles(clauses, s, n),
         NEW g, IsFlat(g, s, n), NEW b, IsBefore(b, clauses, n + 1), NEW j \in 1..n
  PROVE  SubSeq(g[n], b[j] + 1, b[j + 1]) = s[j]
<1>1. n \in 1..n /\ j \in 1..n OBVIOUS
<1>2. Prefix(g, b, s, n) /\ Prefix(g, b, s, j) BY <1>1, PrefixesFilled DEF HasValues, HasHoles
<1>3. s[j] \in Seq(Nat) /\ Len(s[j]) \in Nat BY <1>1, LenProperties DEF HasValues
<1>4. b[j] \in Nat /\ b[j + 1] = b[j] + Len(s[j]) BY <1>2 DEF Prefix
<1>5. g[n] \in Seq(Nat) /\ b[j] + Len(s[j]) <= Len(g[n])
      /\ \A k \in 1..Len(s[j]) : g[n][b[j] + k] = s[j][k]
  BY <1>1, <1>2, Zenon DEF Prefix
<1> DEFINE p == g[n]
           q == s[j]
           l == b[j]
           e == b[j + 1]
           r == SubSeq(p, l + 1, e)
<1>6. p \in Seq(Nat) /\ q \in Seq(Nat) /\ l \in Nat /\ Len(q) \in Nat /\ e = l + Len(q)
      /\ l + Len(q) <= Len(p) /\ Len(p) \in Nat
  BY <1>3, <1>4, <1>5, LenProperties
<1>7. \A k \in 1..Len(q) : p[l + k] = q[k] BY <1>5
<1> HIDE DEF p, q, l, e
<1>8. \A i \in (l + 1)..e : p[i] \in Nat
  <2>1. \A i \in (l + 1)..e : i \in 1..Len(p) BY <1>6
  <2> QED BY <1>6, <2>1, ElementOfSeq
<1>9. l + 1 \in Int /\ e \in Int /\ e - (l + 1) + 1 = Len(q) BY <1>6
<1>10. /\ r \in Seq(Nat)
       /\ Len(r) = IF l + 1 <= e THEN e - (l + 1) + 1 ELSE 0
       /\ \A i \in 1..(e - (l + 1) + 1) : r[i] = p[l + 1 + i - 1]
  BY <1>8, <1>9, SubSeqProperties
<1> HIDE DEF r
<1>11. Len(r) = Len(q) BY <1>6, <1>10
<1>12. \A i \in 1..Len(r) : r[i] = q[i]
  <2> SUFFICES ASSUME NEW i \in 1..Len(q) PROVE r[i] = q[i] BY <1>11
  <2>1. r[i] = p[l + 1 + i - 1] BY <1>9, <1>10
  <2>2. l + 1 + i - 1 = l + i BY <1>6
  <2> QED BY <1>7, <2>1, <2>2
<1>13. r = q BY <1>6, <1>10, <1>11, <1>12, SeqEqual
<1> QED BY <1>13 DEF r, p, q, l, e

(* A clause list with one flat list of parameters selects the rows that    *)
(* the conditions mean, whatever the placeholder.                          *)
LEMMA RenderedSelects ==
  ASSUME NEW conditions, WellFormed(conditions), NEW placeholder, NEW row
  PROVE  SqlSelects(RenderSql(conditions, placeholder), row) <=>
           \A i \in DOMAIN conditions :
             SqlHolds(conditions[i].op, Field(row, conditions[i].column), conditions[i].value)
<1> DEFINE n == Len(conditions)
           s == [i \in DOMAIN conditions |-> conditions[i].value]
           query == RenderSql(conditions, placeholder)
           clauses == query.clauses
           b == Before(clauses)
           g == Flat(s)
<1>1. n \in Nat /\ DOMAIN conditions = 1..n
  BY DEF WellFormed
<1>2. /\ clauses = [i \in DOMAIN conditions |-> [column |-> conditions[i].column, op |-> conditions[i].op,
                                                 holes |-> Holes(conditions[i])]]
      /\ query.params = FlattenSeq(s)
  BY DEF RenderSql
<1>3. \A i \in 1..n : s[i] = conditions[i].value /\ s[i] \in Seq(Nat)
  BY <1>1 DEF WellFormed
<1>4. \A i \in 1..n : /\ clauses[i].column = conditions[i].column /\ clauses[i].op = conditions[i].op
                      /\ clauses[i].holes = Holes(conditions[i])
  BY <1>1, <1>2
<1>5. \A i \in 1..n : clauses[i].holes = Len(s[i])
  BY <1>1, <1>3, <1>4 DEF WellFormed, Holes
<1>6. DOMAIN clauses = 1..n /\ Len(clauses) = n
  BY <1>1, <1>2
<1>7. Len(s) = n
  BY <1>1
<1>8. n # 0 => query.params = g[n]
  BY <1>2, <1>7, FlattenIsFlat
<1>9. IsFlat(g, s, n)
  BY <1>1, <1>7, FlatExists DEF Flat
<1>10. IsBefore(b, clauses, n + 1)
  <2>1. n + 1 \in Nat BY <1>1
  <2> QED BY <1>6, <2>1, BeforeExists DEF Before
<1> DEFINE holds(i) == SqlHolds(clauses[i].op, Field(row, clauses[i].column), SubSeq(query.params, b[i] + 1, b[i + 1]))
<1>11. SqlSelects(query, row) <=> \A i \in 1..n : holds(i)
  BY <1>6, SelectsIsBefore
<1> HIDE DEF n, s, query, clauses, b, g
<1>12. ASSUME NEW i \in 1..n
       PROVE  holds(i) <=> SqlHolds(conditions[i].op, Field(row, conditions[i].column), conditions[i].value)
  <2>1. n # 0 BY <1>1
  <2>2. SubSeq(g[n], b[i] + 1, b[i + 1]) = s[i]
    <3>1. n \in Nat /\ HasValues(s, n) BY <1>1, <1>3 DEF HasValues
    <3>2. HasHoles(clauses, s, n) BY <1>5 DEF HasHoles
    <3> QED BY <3>2, <1>9, <1>10, <3>1, ArgumentsFit
  <2>3. SubSeq(query.params, b[i] + 1, b[i + 1]) = conditions[i].value
    BY <1>3, <1>8, <2>1, <2>2
  <2> QED BY <1>4, <2>3
<1> QED BY <1>1, <1>11, <1>12 DEF query

(***************************************************************************)
(* The invariant of a copy.                                                *)
(***************************************************************************)

(* The pairs of fields have been resolved, and nothing has gone wrong.     *)
Resolved == pc \in {"preflight", "discover", "create", "count", "engine"} \/ result = "ok"

(* The source is a table as it was, except that columns may be gone.       *)
SourceInv ==
  /\ DOMAIN source = {"engine", "schema", "table", "columns", "rows", "nulls"}
  /\ source.columns \in Seq(ToSet(source.columns))
  /\ \A c, d \in ToSet(source.columns) : c.name = d.name => c = d
  /\ Len(source.rows) \in Nat /\ DOMAIN source.rows = 1..Len(source.rows)
  /\ \A i \in DOMAIN source.rows : Names(source.columns) \subseteq DOMAIN source.rows[i]
  /\ \A i, j \in DOMAIN source.rows : i # j /\ KeyNames(source.columns) # {} =>
       \E n \in KeyNames(source.columns) :
         source.rows[i][n] # source.rows[j][n] \/ source.rows[i][n] = NullValue
  /\ source.engine = "mongodb" =>
       \A i \in DOMAIN source.rows, n \in KeyNames(source.columns) : source.rows[i][n] # NullValue

(* A sequence of pairs, one for each column if all of them were asked for. *)
PairsInv ==
  /\ Len(pairs) \in Nat /\ DOMAIN pairs = 1..Len(pairs)
  /\ Resolved /\ spec.selected = <<>> /\ TargetIsSql /\ source.engine # "mongodb" =>
       \A n \in Names(source.columns) : \E i \in DOMAIN pairs : pairs[i] = Pair(n)

EditedInv == pc # "submitted" /\ result # "refused" /\ ~edited => CreateAccepts(spec)

(* Columns that were discovered, and what they say of the key.             *)
IsFound(columns) ==
  /\ \A c, d \in ToSet(columns) : c.name = d.name => c = d
  /\ (source.columns # <<>> \/ source.engine = "mongodb") /\ source.rows # <<>> =>
       KeyNames(columns) = KeyNames(source.columns)
FoundInv == pc = "create" => IsFound(found)

(* A target that this task created is empty and has the planned columns.   *)
TargetInv ==
  made =>
    /\ target.exists /\ target.held = {}
    /\ pc \in {"count", "engine", "ended"}
    /\ target.columns = CreateTableSql(spec.engine, PlanTargetColumns(pairs, found, source.engine))
    /\ IsFound(found)

CountedInv == counted # {} /\ ~Estimated => counted = {Cardinality(SelectedRows)}

(* What the engine stored, and that nothing stood in its way.              *)
IsCopy(rows) ==
  \E stored \in SUBSET SelectedRows : Inserted(stored) /\ rows = {<<i, Adjusted(Sent(i))>> : i \in stored}
WrittenInv ==
  /\ result # "ok" => written = {}
  /\ result = "ok" => ~RenderRaises /\ ~InputRefused /\ ~InsertRefused /\ IsCopy(written)

CInv ==
  /\ TypeOK /\ SourceInv /\ IsAsked(spec) /\ PairsInv /\ EditedInv
  /\ FoundInv /\ TargetInv /\ CountedInv /\ WrittenInv

(***************************************************************************)
(* What the operators of TableCopy compute.                                *)
(***************************************************************************)

(* Counting and copying select the same rows: those the conditions mean.   *)
LEMMA SelectsAsMeant ==
  ASSUME NEW conditions, WellFormed(conditions), NEW row, source.engine # "mongodb"
  PROVE  /\ Selects(conditions, row) <=>
              \A i \in DOMAIN conditions :
                SqlHolds(conditions[i].op, Field(row, conditions[i].column), conditions[i].value)
         /\ Counts(conditions, row) <=> Selects(conditions, row)
  BY RenderedSelects DEF Selects, Counts, RenderEngineSql, RenderNativeSql

(* What is counted is how many rows are selected.                          *)
LEMMA CountsTheSelected ==
  ASSUME WellFormed(spec.filters)
  PROVE  CountRows = Cardinality(SelectedRows)
<1>1. CASE source.engine = "mongodb"
  BY <1>1 DEF CountRows, SelectedRows, Counts, Selects
<1>2. CASE source.engine # "mongodb"
  <2>1. \A i \in DOMAIN source.rows :
          Counts(spec.filters, source.rows[i]) <=> Selects(spec.filters, source.rows[i])
    BY <1>2, SelectsAsMeant
  <2>2. {i \in DOMAIN source.rows : Counts(spec.filters, source.rows[i])} = SelectedRows
    BY <2>1 DEF SelectedRows
  <2>3. QED
    BY <2>2 DEF CountRows
<1>3. QED
  BY <1>1, <1>2

(* Without two conditions in one place, a query document has them all.     *)
LEMMA SelectedIsWanted ==
  ASSUME WellFormed(spec.filters), ~Overwritten, NEW row
  PROVE  Selects(spec.filters, row) <=> Wanted(row)
<1> DEFINE f == spec.filters
<1>1. CASE source.engine = "mongodb"
  <2>1. DOMAIN f = 1..Len(f) /\ Len(f) \in Nat
    BY DEF WellFormed
  <2>2. \A j, k \in DOMAIN f : k > j => <<f[k].column, f[k].op>> # <<f[j].column, f[j].op>>
    BY <1>1, <2>1 DEF Overwritten
  <2>3. RenderMongo(f) = {f[i] : i \in DOMAIN f}
    BY <2>2 DEF RenderMongo
  <2>4. QED
    BY <1>1, <2>3 DEF Selects, MongoSelects, Wanted
<1>2. CASE source.engine # "mongodb"
  BY <1>2, SelectsAsMeant DEF Wanted
<1>3. QED
  BY <1>1, <1>2

(* A finite set as a sequence has the members of the set.                  *)
LEMMA SequenceOfSet ==
  ASSUME NEW S, IsFiniteSet(S)
  PROVE  /\ SetToSeq(S) \in Seq(S)
         /\ ToSet(SetToSeq(S)) = S
<1> DEFINE n == Cardinality(S)
           f == SetToSeq(S)
<1>1. n \in Nat /\ ExistsBijection(1..n, S)
  BY FS_CardinalityType
<1>2. PICK g : g \in Bijection(1..n, S)
  BY <1>1 DEF ExistsBijection
<1>3. g \in [1..n -> S] /\ IsInjective(g)
  BY <1>2 DEF Bijection, Injection
<1>4. f \in [1..n -> S] /\ IsInjective(f)
  BY <1>3 DEF SetToSeq
<1>5. IsFiniteSet(1..n) /\ Cardinality(1..n) = n
  BY <1>1, FS_Interval
<1>6. f \in Injection(1..n, S)
  BY <1>4 DEF Injection
<1>7. f \in Surjection(1..n, S)
  BY <1>5, <1>6, FS_Injection
<1>8. ToSet(f) = S
  BY <1>4, <1>7 DEF Surjection, ToSet
<1>9. f \in Seq(S)
  BY <1>1, <1>4
<1>10. QED
  BY <1>8, <1>9

(* A sequence has finitely many members.                                   *)
LEMMA MembersAreFinite ==
  ASSUME NEW S, NEW s \in Seq(S)
  PROVE  IsFiniteSet(ToSet(s)) /\ DOMAIN s = 1..Len(s) /\ Len(s) \in Nat
<1>1. DOMAIN s = 1..Len(s) /\ Len(s) \in Nat
  OBVIOUS
<1>2. s \in Surjection(1..Len(s), ToSet(s))
  BY <1>1 DEF Surjection, ToSet
<1>3. IsFiniteSet(1..Len(s))
  BY <1>1, FS_Interval
<1>4. QED
  BY <1>1, <1>2, <1>3, FS_Surjection

(* A column as discovery sees it: a field with a null is of no known type. *)
AsSeen(d, c) ==
  /\ d.name = c.name /\ (d.pk <=> c.pk)
  /\ d = c \/ (source.engine = "mongodb" /\ d.type = "NoneType" /\ d.nullable = TRUE)

(* A field is seen as it is, or as one of no known type.                   *)
LEMMA FieldAsSeen ==
  ASSUME source.engine = "mongodb", NEW c, NEW rows, NEW nulls
  PROVE  AsSeen(SeenAs(c, rows, nulls), c)
<1> DEFINE null == [name |-> c.name, type |-> "NoneType", nullable |-> TRUE, pk |-> c.pk]
<1>1. null.name = c.name /\ null.type = "NoneType" /\ null.nullable = TRUE /\ null.pk = c.pk
  BY Zenon
<1>2. SeenAs(c, rows, nulls) = c \/ SeenAs(c, rows, nulls) = null
  BY Zenon DEF SeenAs
<1> HIDE DEF null
<1>3. CASE SeenAs(c, rows, nulls) = c
  BY <1>3, Zenon DEF AsSeen
<1>4. CASE SeenAs(c, rows, nulls) = null
  BY <1>1, <1>4, Zenon DEF AsSeen
<1>5. QED
  BY <1>2, <1>3, <1>4

(* Discovery finds columns of the source, and of a key all.                *)
LEMMA ListedColumns ==
  ASSUME SourceInv, SampleSize \in Nat \ {0}
  PROVE  /\ Len(ListColumns) \in Nat /\ DOMAIN ListColumns = 1..Len(ListColumns)
         /\ \A d \in ToSet(ListColumns) : \E c \in ToSet(source.columns) : AsSeen(d, c)
         /\ source.engine # "mongodb" => ListColumns = source.columns
         /\ IsFound(ListColumns)
<1>1. IsFiniteSet(ToSet(source.columns)) /\ DOMAIN source.columns = 1..Len(source.columns) /\ Len(source.columns) \in Nat
  BY MembersAreFinite DEF SourceInv
<1>2. CASE source.engine # "mongodb"
  BY <1>1, <1>2 DEF ListColumns, IsFound, SourceInv, AsSeen
<1>3. CASE source.engine = "mongodb"
  <2> DEFINE seen == {d \in ToSet(source.columns) : Holders(d, source.rows, source.nulls) # {}}
             fields == {SeenAs(c, source.rows, source.nulls) : c \in seen}
             ids == {c \in ToSet(source.columns) : c.name = "_id"}
             sampled == IF Sample(source.rows) = {} THEN ids ELSE fields
  <2>1. ListColumns = SetToSeq(sampled)
    BY <1>3 DEF ListColumns, SampledFields
  <2>2. IsFiniteSet(ids) /\ IsFiniteSet(fields)
    <3>1. ids \in SUBSET ToSet(source.columns) /\ seen \in SUBSET ToSet(source.columns)
      OBVIOUS
    <3>2. IsFiniteSet(ids) /\ IsFiniteSet(seen)
      BY <1>1, <3>1, FS_Subset
    <3> DEFINE as[c \in seen] == SeenAs(c, source.rows, source.nulls)
    <3>3. \A c \in seen : as[c] = SeenAs(c, source.rows, source.nulls)
      OBVIOUS
    <3>4. fields = {as[c] : c \in seen} /\ as \in [seen -> fields]
      BY <3>3
    <3>5. as \in Surjection(seen, fields)
      BY <3>3, <3>4 DEF Surjection
    <3> HIDE DEF as, seen, fields
    <3>6. QED
      BY <3>2, <3>5, FS_Surjection
  <2>3. IsFiniteSet(sampled)
    BY <2>2
  <2>4. SetToSeq(sampled) \in Seq(sampled) /\ ToSet(ListColumns) = sampled
    BY <2>1, <2>3, SequenceOfSet
  <2>5. Len(ListColumns) \in Nat /\ DOMAIN ListColumns = 1..Len(ListColumns)
    BY <2>1, <2>4, MembersAreFinite
  <2>6. ASSUME NEW d \in ToSet(ListColumns) PROVE \E c \in ToSet(source.columns) : AsSeen(d, c)
    <3>1. CASE d \in ids
      BY <3>1, Zenon DEF AsSeen
    <3>2. CASE d \in fields
      <4>1. PICK c \in ToSet(source.columns) : d = SeenAs(c, source.rows, source.nulls)
        BY <3>2
      <4>2. QED
        BY <1>3, <4>1, FieldAsSeen
    <3>3. d \in ids \/ d \in fields
      BY <2>4
    <3>4. QED
      BY <3>1, <3>2, <3>3
  <2>7. ASSUME NEW d \in ToSet(ListColumns), NEW e \in ToSet(ListColumns), d.name = e.name PROVE d = e
    <3>1. CASE Sample(source.rows) = {}
      BY <2>4, <2>7, <3>1 DEF SourceInv
    <3>2. CASE Sample(source.rows) # {}
      <4>1. d \in fields /\ e \in fields
        BY <2>4, <3>2
      <4>2. PICK c \in ToSet(source.columns) : d = SeenAs(c, source.rows, source.nulls)
        BY <4>1
      <4>3. PICK b \in ToSet(source.columns) : e = SeenAs(b, source.rows, source.nulls)
        BY <4>1
      <4>4. AsSeen(d, c) /\ AsSeen(e, b)
        BY <1>3, <4>2, <4>3, FieldAsSeen
      <4>5. c = b
        BY <2>7, <4>4 DEF SourceInv, AsSeen
      <4>6. QED
        BY <4>2, <4>3, <4>5
    <3>3. QED
      BY <3>1, <3>2
  <2>8. ASSUME source.rows # <<>>
        PROVE  KeyNames(ListColumns) = KeyNames(source.columns)
    <3>1. 1 \in DOMAIN source.rows /\ 1 \in Sample(source.rows)
      BY <2>8 DEF SourceInv, Sample
    <3>2. \A c \in ToSet(source.columns) : c.pk => source.rows[1][c.name] # NullValue
      BY <1>3, <3>1 DEF SourceInv, KeyNames
    <3>3. \A c \in ToSet(source.columns) : c.pk => c \in seen
      BY <3>1, <3>2 DEF Holders
    <3>4. \A c \in ToSet(source.columns) : c.pk => SeenAs(c, source.rows, source.nulls) \in ToSet(ListColumns)
      BY <2>4, <3>1, <3>3
    <3>5. \A c \in ToSet(source.columns) : AsSeen(SeenAs(c, source.rows, source.nulls), c)
      BY <1>3, FieldAsSeen
    <3> HIDE DEF sampled, seen, fields, ids
    <3>6. ASSUME NEW n \in KeyNames(source.columns) PROVE n \in KeyNames(ListColumns)
      <4>1. PICK c \in ToSet(source.columns) : c.pk /\ c.name = n
        BY DEF KeyNames
      <4>2. QED
        BY <3>4, <3>5, <4>1 DEF KeyNames, AsSeen
    <3>7. ASSUME NEW n \in KeyNames(ListColumns) PROVE n \in KeyNames(source.columns)
      <4>1. PICK d \in ToSet(ListColumns) : d.pk /\ d.name = n
        BY DEF KeyNames
      <4>2. QED
        BY <2>6, <4>1 DEF KeyNames, AsSeen
    <3>8. QED
      BY <3>6, <3>7
  <2>9. IsFound(ListColumns)
    BY <2>7, <2>8 DEF IsFound
  <2>10. QED
    BY <1>3, <2>5, <2>6, <2>9
<1>4. QED
  BY <1>2, <1>3

(***************************************************************************)
(* Every step keeps it.                                                    *)
(***************************************************************************)

(* Somebody else's table is a table.                                       *)
LEMMA ForeignExists ==
  ASSUME NEW columns, NEW s, NEW t \in ForeignTables(columns, s)
  PROVE  t.exists = TRUE
<1> DEFINE table(c, h) == [exists |-> TRUE, columns |-> c, held |-> h]
           names == ForeignNames(columns, s)
<1>1. \E c, h : t = table(c, h)
  <2>1. CASE s.engine = "mongodb"
    <3>1. PICK rows \in {{}, {[n \in {"_id"} |-> 1]}} : t = table({}, rows)
      BY <2>1 DEF ForeignTables
    <3>2. QED
      BY <3>1, Zenon
  <2>2. CASE s.engine # "mongodb"
    <3>1. \/ t = table(Roomy(names, {}), {}) \/ t = table(Narrow(Names(columns)), {})
          \/ \E n \in names, rows \in {{}, {[m \in names |-> 1]}} : t = table(Roomy(names, {n}), rows)
      BY <2>2 DEF ForeignTables
    <3>2. QED
      BY <3>1, Zenon
  <2>3. QED
    BY <2>1, <2>2
<1>2. \A c, h : table(c, h).exists = TRUE
  BY Zenon
<1> HIDE DEF table
<1>3. QED
  BY <1>1, <1>2

(* Jobs are tables and what may be asked of them.                          *)
LEMMA InitInv == Init => CInv
<1> SUFFICES ASSUME Init PROVE CInv
  OBVIOUS
<1>1. PICK job \in Jobs :
        /\ source = job.source /\ spec = job.spec
        /\ target \in {NoTable} \cup ForeignTables(job.source.columns, job.spec)
  BY DEF Init
<1>2. /\ pc = "submitted" /\ result = "none"
      /\ pairs = <<>> /\ found = <<>> /\ counted = {} /\ written = {}
      /\ made = FALSE /\ alters = 0 /\ edited = FALSE
  BY DEF Init
<1>3. IsTable(source) /\ IsAsked(spec)
  BY <1>1, JobsAssumption
<1>4. TypeOK
  <2>1. target.exists \in BOOLEAN
    <3>1. NoTable.exists = FALSE
      BY DEF NoTable
    <3>2. QED
      BY <1>1, <3>1, ForeignExists
  <2>2. 0 \in 0..MaxAlters
    BY CopyAssumption
  <2>3. QED
    BY <1>2, <2>1, <2>2 DEF TypeOK, Steps, Results
<1>5. SourceInv
  <2>1. source.rows \in Seq([Names(source.columns) -> Nat])
    BY <1>3 DEF IsTable
  <2>2. Len(source.rows) \in Nat /\ DOMAIN source.rows = 1..Len(source.rows)
    BY <2>1, MembersAreFinite
  <2>3. \A i \in DOMAIN source.rows : source.rows[i] \in [Names(source.columns) -> Nat]
    BY <2>1
  <2>4. QED
    BY <1>3, <2>2, <2>3 DEF SourceInv, IsTable
<1>6. PairsInv
  BY <1>2 DEF PairsInv, Resolved
<1>7. EditedInv /\ FoundInv /\ CountedInv /\ WrittenInv
  BY <1>2 DEF EditedInv, FoundInv, CountedInv, WrittenInv
<1>9. TargetInv
  BY <1>2 DEF TargetInv
<1>10. QED
  BY <1>3, <1>4, <1>5, <1>6, <1>7, <1>9 DEF CInv

(* The selection depends on the rows, the engine and the conditions only.  *)
LEMMA SelectionStays ==
  ASSUME source'.rows = source.rows, source'.engine = source.engine, spec' = spec
  PROVE  SelectedRows' = SelectedRows
  BY DEF SelectedRows, Selects

(* A step that changes no more than the position keeps what is about the   *)
(* databases and the plan.                                                 *)
LEMMA OnlyThePosition ==
  ASSUME CInv, UNCHANGED <<source, spec, target, pairs, found, counted, written, made>>,
         result # "ok", result' # "ok", Resolved' => Resolved,
         pc \in {"count", "engine", "ended"} => pc' \in {"count", "engine", "ended"}
  PROVE  SourceInv' /\ IsAsked(spec)' /\ PairsInv' /\ TargetInv' /\ CountedInv' /\ WrittenInv'
<1>1. SourceInv' /\ IsAsked(spec)'
  BY DEF CInv, SourceInv
<1>2. PairsInv'
  BY DEF CInv, PairsInv, TargetIsSql, Pair, Mapped
<1>3. IsFound(found) => IsFound(found)'
  BY DEF IsFound
<1>4. TargetInv'
  BY <1>3 DEF CInv, TargetInv
<1>5. CountedInv'
  BY SelectionStays DEF CInv, CountedInv, Estimated
<1>6. WrittenInv'
  BY DEF CInv, WrittenInv
<1>7. QED
  BY <1>1, <1>2, <1>4, <1>5, <1>6

(* What was accepted stays accepted.                                       *)
LEMMA AcceptanceStays ==
  ASSUME CInv, spec' = spec, source'.engine = source.engine, edited' = edited,
         pc # "submitted", result = "none"
  PROVE  EditedInv'
  BY DEF CInv, EditedInv, CreateAccepts

(* The API accepts a table.                                                *)
LEMMA AcceptInv == CInv /\ Accept => CInv'
<1> SUFFICES ASSUME CInv, Accept PROVE CInv'
  OBVIOUS
<1>1. /\ pc = "submitted" /\ pc' = "resolve" /\ result' = result /\ result = "none"
      /\ UNCHANGED <<source, spec, target, pairs, found, counted, written, made, alters>>
  BY DEF Accept, CInv, TypeOK
<1>2. TypeOK'
  BY <1>1 DEF Accept, CInv, TypeOK, Steps
<1>3. SourceInv' /\ IsAsked(spec)' /\ PairsInv' /\ TargetInv' /\ CountedInv' /\ WrittenInv'
  BY <1>1, OnlyThePosition DEF Resolved
<1>4. EditedInv'
  BY <1>1 DEF Accept, EditedInv, CreateAccepts
<1>5. FoundInv'
  BY <1>1 DEF FoundInv
<1>6. QED
  BY <1>2, <1>3, <1>4, <1>5 DEF CInv

(* The API refuses a table.                                                *)
LEMMA RefuseInv == CInv /\ Refuse => CInv'
<1> SUFFICES ASSUME CInv, Refuse PROVE CInv'
  OBVIOUS
<1>1. /\ pc = "submitted" /\ pc' = "ended" /\ result' = "refused" /\ result = "none"
      /\ UNCHANGED <<source, spec, target, pairs, found, counted, written, made, alters, edited>>
  BY DEF Refuse, End, CInv, TypeOK
<1>2. TypeOK'
  BY <1>1 DEF CInv, TypeOK, Steps, Results
<1>3. SourceInv' /\ IsAsked(spec)' /\ PairsInv' /\ TargetInv' /\ CountedInv' /\ WrittenInv'
  BY <1>1, OnlyThePosition DEF Resolved
<1>4. EditedInv' /\ FoundInv'
  BY <1>1 DEF EditedInv, FoundInv
<1>5. QED
  BY <1>2, <1>3, <1>4 DEF CInv

(* The target is looked for.                                               *)
LEMMA PreflightInv == CInv /\ Preflight => CInv'
<1> SUFFICES ASSUME CInv, Preflight PROVE CInv'
  OBVIOUS
<1>1. /\ pc = "preflight" /\ result = "none"
      /\ \/ pc' \in {"count", "discover"} /\ result' = result
         \/ pc' = "ended" /\ result' \in {"raised", "target_missing"}
      /\ UNCHANGED <<source, spec, target, pairs, found, counted, written, made, alters, edited>>
  BY DEF Preflight, End, CInv, TypeOK
<1>2. TypeOK'
  BY <1>1 DEF CInv, TypeOK, Steps, Results
<1>3. SourceInv' /\ IsAsked(spec)' /\ PairsInv' /\ TargetInv' /\ CountedInv' /\ WrittenInv'
  BY <1>1, OnlyThePosition DEF Resolved
<1>4. EditedInv' /\ FoundInv'
  BY <1>1, AcceptanceStays DEF FoundInv
<1>5. QED
  BY <1>2, <1>3, <1>4 DEF CInv

(* The pairs of fields are made: one for each column that is discovered,   *)
(* if none are selected.                                                   *)
LEMMA ResolveInv == CInv /\ ResolveFieldPairs => CInv'
<1> SUFFICES ASSUME CInv, ResolveFieldPairs PROVE CInv'
  OBVIOUS
<1>1. /\ pc = "resolve" /\ result = "none" /\ edited' = edited
      /\ UNCHANGED <<source, spec, target, found, counted, written, made, alters, edited>>
  BY DEF ResolveFieldPairs, CInv, TypeOK
<1>2. CASE pc' = "ended" /\ result' = "raised" /\ UNCHANGED pairs
  <2>1. TypeOK'
    BY <1>1, <1>2 DEF CInv, TypeOK, Steps, Results
  <2>2. SourceInv' /\ IsAsked(spec)' /\ PairsInv' /\ TargetInv' /\ CountedInv' /\ WrittenInv'
    BY <1>1, <1>2, OnlyThePosition DEF Resolved
  <2>3. EditedInv' /\ FoundInv'
    BY <1>1, <1>2, AcceptanceStays DEF FoundInv
  <2>4. QED
    BY <2>1, <2>2, <2>3 DEF CInv
<1>3. CASE /\ pairs' = CASE spec.selected # <<>> -> [i \in DOMAIN spec.selected |-> Pair(spec.selected[i])]
                         [] spec.selected = <<>> /\ TargetIsSql -> [i \in DOMAIN ListColumns |-> Pair(ListColumns[i].name)]
                         [] OTHER -> <<>>
           /\ pc' = "preflight" /\ UNCHANGED result
  <2>1. TypeOK'
    BY <1>1, <1>3 DEF CInv, TypeOK, Steps, Results
  <2>2. SourceInv' /\ IsAsked(spec)'
    BY <1>1 DEF CInv, SourceInv
  <2>3. PairsInv'
    <3>1. CASE spec.selected # <<>>
      <4>1. DOMAIN spec.selected = 1..Len(spec.selected) /\ Len(spec.selected) \in Nat
        BY MembersAreFinite DEF CInv, IsAsked
      <4>2. Len(pairs') \in Nat /\ DOMAIN pairs' = 1..Len(pairs')
        BY <1>3, <3>1, <4>1
      <4>3. QED
        BY <1>1, <3>1, <4>2 DEF PairsInv
    <3>2. CASE spec.selected = <<>> /\ TargetIsSql
      <4>1. pairs' = [i \in DOMAIN ListColumns |-> Pair(ListColumns[i].name)]
        BY <1>3, <3>2
      <4>2. /\ Len(ListColumns) \in Nat /\ DOMAIN ListColumns = 1..Len(ListColumns)
            /\ source.engine # "mongodb" => ListColumns = source.columns
        BY CopyAssumption, ListedColumns DEF CInv
      <4>3. Len(pairs') \in Nat /\ DOMAIN pairs' = 1..Len(pairs')
        BY <4>1, <4>2
      <4>4. ASSUME source.engine # "mongodb", NEW n \in Names(source.columns)
            PROVE  \E i \in DOMAIN pairs' : pairs'[i] = Pair(n)
        BY <4>1, <4>2, <4>4 DEF Names, ToSet
      <4>5. \A n : Pair(n)' = Pair(n)
        BY <1>1 DEF Pair, Mapped
      <4>6. QED
        BY <1>1, <4>3, <4>4, <4>5 DEF PairsInv
    <3>3. CASE spec.selected = <<>> /\ ~TargetIsSql
      <4>1. pairs' = <<>>
        BY <1>3, <3>3
      <4>2. QED
        BY <1>1, <3>3, <4>1 DEF PairsInv, TargetIsSql
    <3>4. QED
      BY <3>1, <3>2, <3>3
  <2>4. TargetInv'
    BY <1>1 DEF CInv, TargetInv
  <2>5. CountedInv' /\ WrittenInv'
    BY <1>1, <1>3, SelectionStays DEF CInv, CountedInv, Estimated, WrittenInv
  <2>6. EditedInv' /\ FoundInv'
    BY <1>1, <1>3, AcceptanceStays DEF FoundInv
  <2>7. QED
    BY <2>1, <2>2, <2>3, <2>4, <2>5, <2>6 DEF CInv
<1>4. QED
  BY <1>2, <1>3 DEF ResolveFieldPairs, End

(* The columns are read for the DDL.                                       *)
LEMMA DiscoverInv == CInv /\ Discover => CInv'
<1> SUFFICES ASSUME CInv, Discover PROVE CInv'
  OBVIOUS
<1>1. /\ pc = "discover" /\ result = "none"
      /\ UNCHANGED <<source, spec, target, pairs, counted, written, made, alters, edited>>
  BY DEF Discover, CInv, TypeOK
<1>2. CASE pc' = "ended" /\ result' = "raised" /\ UNCHANGED found
  <2>1. TypeOK'
    BY <1>1, <1>2 DEF CInv, TypeOK, Steps, Results
  <2>2. SourceInv' /\ IsAsked(spec)' /\ PairsInv' /\ TargetInv' /\ CountedInv' /\ WrittenInv'
    BY <1>1, <1>2, OnlyThePosition DEF Resolved
  <2>3. EditedInv' /\ FoundInv'
    BY <1>1, <1>2, AcceptanceStays DEF FoundInv
  <2>4. QED
    BY <2>1, <2>2, <2>3 DEF CInv
<1>3. CASE found' = ListColumns /\ pc' = "create" /\ UNCHANGED result
  <2>1. TypeOK'
    BY <1>1, <1>3 DEF CInv, TypeOK, Steps, Results
  <2>2. SourceInv' /\ IsAsked(spec)'
    BY <1>1 DEF CInv, SourceInv
  <2>3. PairsInv'
    BY <1>1, <1>3 DEF CInv, PairsInv, Resolved, TargetIsSql, Pair, Mapped
  <2>4. TargetInv'
    BY <1>1 DEF CInv, TargetInv
  <2>5. CountedInv' /\ WrittenInv'
    BY <1>1, <1>3, SelectionStays DEF CInv, CountedInv, Estimated, WrittenInv
  <2>6. EditedInv'
    BY <1>1, <1>3, AcceptanceStays
  <2>7. IsFound(ListColumns)
    BY CopyAssumption, ListedColumns DEF CInv
  <2>8. FoundInv'
    BY <1>1, <1>3, <2>7 DEF FoundInv, IsFound
  <2>9. QED
    BY <2>1, <2>2, <2>3, <2>4, <2>5, <2>6, <2>8 DEF CInv
<1>4. QED
  BY <1>2, <1>3 DEF Discover, End

(* The target is created, if nobody has done so; then it has the planned   *)
(* columns.                                                                *)
LEMMA CreateTableInv == CInv /\ CreateTable => CInv'
<1> SUFFICES ASSUME CInv, CreateTable PROVE CInv'
  OBVIOUS
<1> DEFINE columns == CreateTableSql(spec.engine, PlanTargetColumns(pairs, found, source.engine))
<1>1. /\ pc = "create" /\ result = "none"
      /\ UNCHANGED <<source, spec, pairs, found, counted, written, alters, edited>>
  BY DEF CreateTable, CInv, TypeOK
<1>2. CASE pc' = "ended" /\ result' = "raised" /\ UNCHANGED <<target, made>>
  <2>1. TypeOK'
    BY <1>1, <1>2 DEF CInv, TypeOK, Steps, Results
  <2>2. SourceInv' /\ IsAsked(spec)' /\ PairsInv' /\ TargetInv' /\ CountedInv' /\ WrittenInv'
    BY <1>1, <1>2, OnlyThePosition DEF Resolved
  <2>3. EditedInv' /\ FoundInv'
    BY <1>1, <1>2, AcceptanceStays DEF FoundInv
  <2>4. QED
    BY <2>1, <2>2, <2>3 DEF CInv
<1>3. CASE ExecuteDdl(columns) /\ pc' = "count" /\ UNCHANGED result
  <2>0. target'.exists \in BOOLEAN /\ made' \in BOOLEAN
    <3>1. CASE target.exists
      BY <1>3, <3>1 DEF CInv, TypeOK, ExecuteDdl
    <3>2. CASE ~target.exists
      <4>1. target' = [exists |-> TRUE, columns |-> columns, held |-> {}] /\ made' = TRUE
        BY <1>3, <3>2 DEF ExecuteDdl
      <4>2. QED
        BY <4>1
    <3>3. QED
      BY <3>1, <3>2
  <2>1. TypeOK'
    BY <1>1, <1>3, <2>0 DEF CInv, TypeOK, Steps, Results
  <2>2. SourceInv' /\ IsAsked(spec)'
    BY <1>1 DEF CInv, SourceInv
  <2>3. PairsInv'
    BY <1>1, <1>3 DEF CInv, PairsInv, Resolved, TargetIsSql, Pair, Mapped
  <2>4. TargetInv'
    <3>1. CASE target.exists
      BY <1>1, <1>3, <3>1 DEF CInv, TargetInv, ExecuteDdl
    <3>2. CASE ~target.exists
      <4>1. target' = [exists |-> TRUE, columns |-> columns, held |-> {}]
        BY <1>3, <3>2 DEF ExecuteDdl
      <4>2. target'.exists = TRUE /\ target'.columns = columns /\ target'.held = {}
        BY <4>1
      <4>3. IsFound(found)'
        BY <1>1 DEF CInv, FoundInv, IsFound
      <4>4. QED
        BY <1>1, <1>3, <4>2, <4>3 DEF TargetInv
    <3>3. QED
      BY <3>1, <3>2
  <2>5. CountedInv' /\ WrittenInv'
    BY <1>1, <1>3, SelectionStays DEF CInv, CountedInv, Estimated, WrittenInv
  <2>6. EditedInv' /\ FoundInv'
    BY <1>1, <1>3, AcceptanceStays DEF FoundInv
  <2>7. QED
    BY <2>1, <2>2, <2>3, <2>4, <2>5, <2>6 DEF CInv
<1>4. QED
  BY <1>2, <1>3 DEF CreateTable, End

(* The rows are counted through the other driver.                          *)
LEMMA CountInv == CInv /\ Count => CInv'
<1> SUFFICES ASSUME CInv, Count PROVE CInv'
  OBVIOUS
<1>1. /\ pc = "count" /\ pc' = "engine" /\ result = "none" /\ result' = result
      /\ counted' = {} \/ \E n \in Answers : counted' = {n}
      /\ UNCHANGED <<source, spec, target, pairs, found, written, made, alters, edited>>
  BY DEF Count, CInv, TypeOK
<1>2. CountRows = Cardinality(SelectedRows)
  BY CountsTheSelected DEF CInv, IsAsked
<1>3. Cardinality(SelectedRows) \in Nat
  <2>1. IsFiniteSet(DOMAIN source.rows)
    BY FS_Interval DEF CInv, SourceInv
  <2>2. SelectedRows \in SUBSET DOMAIN source.rows
    BY DEF SelectedRows
  <2>3. QED
    BY <2>1, <2>2, FS_Subset, FS_CardinalityType
<1>4. TypeOK'
  <2>1. Answers \subseteq Nat
    BY <1>2, <1>3 DEF Answers, CInv, SourceInv
  <2>2. counted' \subseteq Nat
    BY <1>1, <2>1
  <2>3. QED
    BY <1>1, <2>2 DEF CInv, TypeOK, Steps, Results
<1>5. SourceInv' /\ IsAsked(spec)'
  BY <1>1 DEF CInv, SourceInv
<1>6. PairsInv'
  BY <1>1 DEF CInv, PairsInv, Resolved, TargetIsSql, Pair, Mapped
<1>7. TargetInv'
  BY <1>1 DEF CInv, TargetInv, IsFound
<1>8. CountedInv'
  <2>1. ~Estimated => counted' = {} \/ counted' = {Cardinality(SelectedRows)}
    BY <1>1, <1>2 DEF Answers
  <2>2. QED
    BY <1>1, <2>1, SelectionStays DEF CountedInv, Estimated
<1>9. WrittenInv'
  BY <1>1 DEF CInv, WrittenInv
<1>10. EditedInv' /\ FoundInv'
  BY <1>1, AcceptanceStays DEF FoundInv
<1>11. QED
  BY <1>4, <1>5, <1>6, <1>7, <1>8, <1>9, <1>10 DEF CInv

(* What the engine would do depends on source, target, plan and pairs.     *)
LEMMA WrittenStays ==
  ASSUME UNCHANGED <<source, spec, target, pairs>>
  PROVE  /\ RenderRaises' = RenderRaises /\ InputRefused' = InputRefused
         /\ InsertRefused' = InsertRefused /\ SelectedRows' = SelectedRows
         /\ \A rows : IsCopy(rows)' <=> IsCopy(rows)
<1>1. RenderRaises' = RenderRaises
  BY DEF RenderRaises, FilterRaises, TargetIsSql
<1>2. InputRefused' = InputRefused
  BY DEF InputRefused, FilterRefused, SourceUnread
<1>3. SelectedRows' = SelectedRows
  BY SelectionStays
<1>4. \A i : Sent(i)' = Sent(i)
  BY DEF Sent, Stored, WholeDocument, TargetIsSql, SelectLastInSeq
<1>5. \A r, t : SameKey(r, t)' <=> SameKey(r, t)
  BY DEF SameKey, Keys, TargetIsSql
<1>6. \A c, r : Suits(c, r)' <=> Suits(c, r)
  BY DEF Suits, Carried
<1>7. \A r : Unfit(r)' <=> Unfit(r)
  BY <1>6 DEF Unfit, TargetIsSql
<1>8. \A r : Adjusted(r)' = Adjusted(r)
  BY <1>6, <1>7 DEF Adjusted
<1>9. \A i, j : AtOdds(i, j)' <=> AtOdds(i, j)
  BY <1>4, <1>5 DEF AtOdds
<1>10. \A i : HeldAlready(i)' <=> HeldAlready(i)
  BY <1>4, <1>5 DEF HeldAlready
<1>11. (Skips' <=> Skips) /\ (Ignores' <=> Ignores)
  BY DEF Skips, Ignores, TargetIsSql
<1>12. InsertRefused' = InsertRefused
  <2>1. (\E i \in SelectedRows : Unfit(Sent(i)))' <=> \E i \in SelectedRows : Unfit(Sent(i))
    BY <1>3, <1>4, <1>7
  <2>2. (\E i \in SelectedRows : HeldAlready(i) \/ \E j \in SelectedRows : AtOdds(i, j))'
          <=> \E i \in SelectedRows : HeldAlready(i) \/ \E j \in SelectedRows : AtOdds(i, j)
    BY <1>3, <1>9, <1>10
  <2>3. (TargetIsSql' <=> TargetIsSql) /\ (Colliding' <=> Colliding)
    BY DEF TargetIsSql, Colliding
  <2>4. QED
    BY <1>11, <2>1, <2>2, <2>3 DEF InsertRefused
<1>13. \A i, stored : LeftOut(i, stored)' <=> LeftOut(i, stored)
  BY <1>4, <1>7, <1>9, <1>10, <1>11 DEF LeftOut
<1>14. \A stored : Inserted(stored)' <=> Inserted(stored)
  BY <1>3, <1>4, <1>7, <1>9, <1>10, <1>13 DEF Inserted
<1>15. \A stored : {<<i, Adjusted(Sent(i))>> : i \in stored}' = {<<i, Adjusted(Sent(i))>> : i \in stored}
  BY <1>4, <1>8
<1>16. \A rows : IsCopy(rows)' <=> IsCopy(rows)
  BY <1>3, <1>14, <1>15 DEF IsCopy
<1>17. QED
  BY <1>1, <1>2, <1>3, <1>12, <1>16

(* The engine copies, or fails before it has stored anything.              *)
LEMMA RunEngineInv == CInv /\ RunEngine => CInv'
<1> SUFFICES ASSUME CInv, RunEngine PROVE CInv'
  OBVIOUS
<1>1. /\ pc = "engine" /\ pc' = "ended" /\ result = "none"
      /\ UNCHANGED <<source, spec, target, pairs, found, counted, made, alters, edited>>
  BY DEF RunEngine, End, CInv, TypeOK
<1>2. CASE result' \in {"raised", "engine_failed"} /\ UNCHANGED written
  <2>1. TypeOK'
    BY <1>1, <1>2 DEF CInv, TypeOK, Steps, Results
  <2>2. SourceInv' /\ IsAsked(spec)' /\ PairsInv' /\ TargetInv' /\ CountedInv' /\ WrittenInv'
    BY <1>1, <1>2, OnlyThePosition DEF Resolved
  <2>3. EditedInv' /\ FoundInv'
    BY <1>1, <1>2, AcceptanceStays DEF FoundInv
  <2>4. QED
    BY <2>1, <2>2, <2>3 DEF CInv
<1>3. CASE /\ ~RenderRaises /\ ~InputRefused /\ ~InsertRefused
           /\ IsCopy(written') /\ result' = "ok"
  <2>1. TypeOK'
    <3>1. PICK stored \in SUBSET SelectedRows : written' = {<<i, Adjusted(Sent(i))>> : i \in stored}
      BY <1>3 DEF IsCopy
    <3>2. ASSUME NEW w \in written' PROVE w[1] \in DOMAIN source.rows
      <4>1. PICK i \in stored : w = <<i, Adjusted(Sent(i))>>
        BY <3>1, <3>2
      <4>2. QED
        BY <4>1 DEF SelectedRows
    <3>3. QED
      BY <1>1, <1>3, <3>2 DEF CInv, TypeOK, Steps, Results
  <2>2. SourceInv' /\ IsAsked(spec)'
    BY <1>1 DEF CInv, SourceInv
  <2>3. PairsInv'
    BY <1>1 DEF CInv, PairsInv, Resolved, TargetIsSql, Pair, Mapped
  <2>4. TargetInv'
    BY <1>1 DEF CInv, TargetInv, IsFound
  <2>5. CountedInv'
    BY <1>1, SelectionStays DEF CInv, CountedInv, Estimated
  <2>6. WrittenInv'
    <3>1. /\ RenderRaises' = RenderRaises /\ InputRefused' = InputRefused
          /\ InsertRefused' = InsertRefused
          /\ \A rows : IsCopy(rows)' <=> IsCopy(rows)
      BY <1>1, WrittenStays
    <3>2. \A rows : rows = written' => (IsCopy(rows)' => IsCopy(written)')
      BY DEF IsCopy
    <3>3. IsCopy(written)'
      BY <1>3, <3>1, <3>2
    <3>4. QED
      BY <1>3, <3>1, <3>3 DEF WrittenInv
  <2>7. EditedInv' /\ FoundInv'
    BY <1>1, AcceptanceStays DEF FoundInv
  <2>8. QED
    BY <2>1, <2>2, <2>3, <2>4, <2>5, <2>6, <2>7 DEF CInv
<1>4. QED
  BY <1>2, <1>3 DEF RunEngine, End, IsCopy

(* All members but the last.                                               *)
LEMMA FrontOf ==
  ASSUME NEW S, NEW s \in Seq(S), s # <<>>
  PROVE  /\ Front(s) \in Seq(S)
         /\ ToSet(s) = ToSet(Front(s)) \cup {Last(s)}
<1> DEFINE n == Len(s) - 1
<1>1. Len(s) \in Nat \ {0} /\ DOMAIN s = 1..Len(s) /\ \A i \in 1..Len(s) : s[i] \in S
  OBVIOUS
<1>2. 1 \in Int /\ n \in Int /\ \A i \in 1..n : s[i] \in S
  BY <1>1
<1>3. Front(s) = SubSeq(s, 1, n) /\ Last(s) = s[Len(s)]
  BY DEF Front, Last
<1>4. /\ Front(s) \in Seq(S) /\ Len(Front(s)) = n
      /\ \A i \in 1..n : Front(s)[i] = s[i]
  <2>1. /\ SubSeq(s, 1, n) \in Seq(S)
        /\ Len(SubSeq(s, 1, n)) = IF 1 <= n THEN n - 1 + 1 ELSE 0
        /\ \A i \in 1..(n - 1 + 1) : SubSeq(s, 1, n)[i] = s[1 + i - 1]
    BY <1>2, SubSeqProperties
  <2>2. QED
    BY <1>1, <1>3, <2>1
<1>5. DOMAIN Front(s) = 1..n
  BY <1>4
<1>6. 1..Len(s) = 1..n \cup {Len(s)}
  BY <1>1
<1>7. ToSet(Front(s)) = {s[i] : i \in 1..n}
  BY <1>4, <1>5 DEF ToSet
<1>8. ToSet(s) = {s[i] : i \in 1..n} \cup {s[Len(s)]}
  BY <1>1, <1>6 DEF ToSet
<1>9. QED
  BY <1>3, <1>4, <1>7, <1>8

(* What is left of the columns still has the key, unless nothing is left.  *)
LEMMA WhatIsLeft ==
  ASSUME SourceInv, source.columns # <<>>,
         NEW rest \in {<<>>, Front(source.columns)}, rest = <<>> \/ ~Last(source.columns).pk
  PROVE  /\ rest \in Seq(ToSet(rest))
         /\ ToSet(rest) \subseteq ToSet(source.columns)
         /\ KeyNames(rest) = KeyNames(source.columns) \/ rest = <<>>
<1>1. CASE rest = <<>>
  BY <1>1 DEF ToSet
<1>2. CASE rest # <<>>
  <2>1. rest = Front(source.columns) /\ ~Last(source.columns).pk
    BY <1>2
  <2>2. rest \in Seq(ToSet(source.columns)) /\ ToSet(source.columns) = ToSet(rest) \cup {Last(source.columns)}
    BY <2>1, FrontOf DEF SourceInv
  <2>3. rest \in Seq(ToSet(rest))
    BY <2>2 DEF ToSet
  <2>4. KeyNames(rest) = KeyNames(source.columns)
    BY <2>1, <2>2 DEF KeyNames
  <2>5. QED
    BY <2>2, <2>3, <2>4
<1>3. QED
  BY <1>1, <1>2

(* The owner drops a column, or the table.                                 *)
LEMMA DropSourceInv == CInv /\ DropSource => CInv'
<1> SUFFICES ASSUME CInv, DropSource PROVE CInv'
  OBVIOUS
<1>1. PICK rest \in {<<>>, Front(source.columns)} :
        /\ rest = <<>> \/ ~Last(source.columns).pk
        /\ source' = [source EXCEPT !.columns = rest]
  BY DEF DropSource
<1>2. /\ pc # "ended" /\ result = "none" /\ source.columns # <<>> /\ source.engine # "mongodb"
      /\ alters' \in 0..MaxAlters
      /\ UNCHANGED <<spec, target, pc, pairs, found, counted, written, result, made, edited>>
  BY CopyAssumption DEF DropSource, Altering, CInv, TypeOK
<1>3. /\ DOMAIN source' = DOMAIN source /\ source'.columns = rest
      /\ source'.rows = source.rows /\ source'.engine = source.engine /\ source'.table = source.table
  BY <1>1 DEF CInv, SourceInv
<1>4. /\ rest \in Seq(ToSet(rest))
      /\ ToSet(rest) \subseteq ToSet(source.columns)
      /\ KeyNames(rest) = KeyNames(source.columns) \/ rest = <<>>
  BY <1>1, <1>2, WhatIsLeft DEF CInv
<1>5. Names(rest) \subseteq Names(source.columns)
  BY <1>4 DEF Names
<1>6. KeyNames(<<>>) = {}
  BY DEF KeyNames, ToSet
<1>7. TypeOK'
  BY <1>2, <1>3 DEF CInv, TypeOK
<1>8. SourceInv'
  <2>1. /\ DOMAIN source' = {"engine", "schema", "table", "columns", "rows", "nulls"}
        /\ source'.columns \in Seq(ToSet(source'.columns))
        /\ \A c, d \in ToSet(source'.columns) : c.name = d.name => c = d
        /\ Len(source'.rows) \in Nat /\ DOMAIN source'.rows = 1..Len(source'.rows)
    BY <1>3, <1>4 DEF CInv, SourceInv
  <2>2. \A i \in DOMAIN source'.rows : Names(source'.columns) \subseteq DOMAIN source'.rows[i]
    BY <1>3, <1>5 DEF CInv, SourceInv
  <2>3. \A i, j \in DOMAIN source'.rows : i # j /\ KeyNames(source'.columns) # {} =>
          \E n \in KeyNames(source'.columns) :
            source'.rows[i][n] # source'.rows[j][n] \/ source'.rows[i][n] = NullValue
    BY <1>3, <1>4, <1>6 DEF CInv, SourceInv
  <2>4. QED
    BY <1>2, <1>3, <2>1, <2>2, <2>3 DEF SourceInv
<1>9. IsAsked(spec)'
  BY <1>2 DEF CInv
<1>10. PairsInv'
  <2>1. \A n : Pair(n)' = Pair(n)
    BY <1>2 DEF Pair, Mapped
  <2>2. QED
    BY <1>2, <1>3, <1>5, <2>1 DEF CInv, PairsInv, Resolved, TargetIsSql
<1>11. IsFound(found) => IsFound(found)'
  BY <1>2, <1>3, <1>4 DEF IsFound
<1>12. FoundInv' /\ TargetInv'
  BY <1>2, <1>3, <1>11 DEF CInv, FoundInv, TargetInv
<1>13. CountedInv' /\ WrittenInv'
  BY <1>2, <1>3, SelectionStays DEF CInv, CountedInv, Estimated, WrittenInv
<1>14. EditedInv'
  BY <1>2, <1>3, AcceptanceStays DEF EditedInv
<1>15. QED
  BY <1>7, <1>8, <1>9, <1>10, <1>12, <1>13, <1>14 DEF CInv

(* Somebody else creates the target.                                       *)
LEMMA CreateElsewhereInv == CInv /\ CreateElsewhere => CInv'
<1> SUFFICES ASSUME CInv, CreateElsewhere PROVE CInv'
  OBVIOUS
<1>1. /\ pc # "ended" /\ result = "none" /\ alters' \in 0..MaxAlters
      /\ ~target.exists /\ target' \in ForeignTables(source.columns, spec)
      /\ UNCHANGED <<source, spec, pc, pairs, found, counted, written, result, made, edited>>
  BY CopyAssumption DEF CreateElsewhere, Altering, CInv, TypeOK
<1>2. target'.exists = TRUE
  BY <1>1, ForeignExists
<1>3. TypeOK'
  BY <1>1, <1>2 DEF CInv, TypeOK
<1>4. SourceInv' /\ IsAsked(spec)'
  BY <1>1 DEF CInv, SourceInv
<1>5. PairsInv'
  BY <1>1 DEF CInv, PairsInv, Resolved, TargetIsSql, Pair, Mapped
<1>6. TargetInv'
  BY <1>1 DEF CInv, TargetInv
<1>7. CountedInv' /\ WrittenInv'
  BY <1>1, SelectionStays DEF CInv, CountedInv, Estimated, WrittenInv
<1>8. EditedInv' /\ FoundInv'
  BY <1>1, AcceptanceStays DEF CInv, EditedInv, FoundInv, IsFound
<1>9. QED
  BY <1>3, <1>4, <1>5, <1>6, <1>7, <1>8 DEF CInv

(* Nothing changes: nothing is lost.                                       *)
LEMMA StutterInv == CInv /\ UNCHANGED vars => CInv'
<1> SUFFICES ASSUME CInv, UNCHANGED vars PROVE CInv'
  OBVIOUS
<1>1. UNCHANGED <<source, spec, target, pc, pairs, found, counted, written, result, made, alters, edited>>
  BY DEF vars
<1>2. CASE result = "ok"
  <2>1. TypeOK' /\ SourceInv' /\ IsAsked(spec)'
    BY <1>1 DEF CInv, TypeOK, SourceInv
  <2>2. PairsInv'
    BY <1>1 DEF CInv, PairsInv, Resolved, TargetIsSql, Pair, Mapped
  <2>3. EditedInv' /\ FoundInv' /\ TargetInv'
    BY <1>1 DEF CInv, EditedInv, CreateAccepts, FoundInv, TargetInv, IsFound
  <2>4. CountedInv'
    BY <1>1, SelectionStays DEF CInv, CountedInv, Estimated
  <2>5. WrittenInv'
    <3>1. \A rows : rows = written' => (IsCopy(rows)' => IsCopy(written)')
      BY DEF IsCopy
    <3>2. IsCopy(written)'
      BY <1>1, <1>2, <3>1, WrittenStays DEF CInv, WrittenInv
    <3>3. QED
      BY <1>1, <1>2, <3>2, WrittenStays DEF CInv, WrittenInv
  <2>6. QED
    BY <2>1, <2>2, <2>3, <2>4, <2>5 DEF CInv
<1>3. CASE result # "ok"
  <2>1. SourceInv' /\ IsAsked(spec)' /\ PairsInv' /\ TargetInv' /\ CountedInv' /\ WrittenInv'
    BY <1>1, <1>3, OnlyThePosition DEF Resolved
  <2>2. TypeOK' /\ EditedInv' /\ FoundInv'
    BY <1>1 DEF CInv, TypeOK, EditedInv, CreateAccepts, FoundInv, IsFound
  <2>3. QED
    BY <2>1, <2>2 DEF CInv
<1>4. QED
  BY <1>2, <1>3

(* What TableCopy keeps, whatever the jobs and the owners do.              *)
THEOREM CopyInvariance == Spec => []CInv
<1>1. Init => CInv
  BY InitInv
<1>2. CInv /\ [Next]_vars => CInv'
  BY AcceptInv, RefuseInv, ResolveInv, PreflightInv, DiscoverInv, CreateTableInv, CountInv,
     RunEngineInv, DropSourceInv, CreateElsewhereInv, StutterInv DEF Next
<1>3. QED
  BY <1>1, <1>2, PTL DEF Spec

(***************************************************************************)
(* What follows from the invariant.                                        *)
(***************************************************************************)

(* No two pairs with one target: each has a field of its own in what is    *)
(* stored.                                                                 *)
LEMMA StoredField ==
  ASSUME Len(pairs) \in Nat, DOMAIN pairs = 1..Len(pairs), ~WholeDocument, ~Colliding,
         NEW i \in DOMAIN pairs, NEW row
  PROVE  /\ pairs[i].target \in DOMAIN Stored(row)
         /\ Stored(row)[pairs[i].target] = Field(row, pairs[i].source)
<1> DEFINE name == pairs[i].target
           last == SelectLastInSeq(pairs, LAMBDA p : p.target = name)
<1>1. {j \in 1..Len(pairs) : pairs[j].target = name} = {i}
  BY DEF Colliding
<1>2. Max({i}) = i
  BY DEF Max
<1>3. last = i
  BY <1>1, <1>2 DEF SelectLastInSeq
<1>4. name \in {p.target : p \in ToSet(pairs)}
  BY DEF ToSet
<1> HIDE DEF name
<1>5. Stored(row) = [m \in {p.target : p \in ToSet(pairs)} |->
                      Field(row, pairs[SelectLastInSeq(pairs, LAMBDA p : p.target = m)].source)]
  BY DEF Stored
<1>6. name \in DOMAIN Stored(row) /\ Stored(row)[name] = Field(row, pairs[last].source)
  BY <1>4, <1>5
<1>7. QED
  BY <1>3, <1>6 DEF name

(* Every column has its pair, and in what is stored its own place.         *)
LEMMA ColumnsArrive == CInv => AllColumnsArrive
<1> SUFFICES ASSUME CInv, result = "ok", spec.selected = <<>>, ~edited,
                    NEW w \in written, NEW n \in Names(source.columns), source.rows[w[1]][n] # NullValue,
                    ~(Ignores /\ Unfit(Sent(w[1])))
             PROVE  LET name == IF WholeDocument THEN n ELSE Mapped(n)
                    IN  name \in DOMAIN w[2] /\ w[2][name] = source.rows[w[1]][n]
  BY DEF AllColumnsArrive
<1>0. PICK k \in SelectedRows : w = <<k, Adjusted(Sent(k))>>
  BY DEF CInv, WrittenInv, IsCopy
<1>1. w = <<k, Stored(source.rows[k])>>
  <2>1. ~Unfit(Sent(k))
    BY <1>0 DEF CInv, WrittenInv, InsertRefused
  <2>2. QED
    BY <1>0, <2>1 DEF Adjusted, Sent
<1> DEFINE row == source.rows[k]
<1>2. n \in DOMAIN row /\ w[1] = k /\ w[2] = Stored(row)
  BY <1>1 DEF SelectedRows, CInv, SourceInv
<1>3. CASE WholeDocument
  BY <1>2, <1>3 DEF Stored
<1>4. CASE ~WholeDocument
  <2>1. TargetIsSql
    BY <1>4 DEF WholeDocument
  <2>2. pc = "ended"
    BY DEF CInv, TypeOK
  <2>3. source.engine # "mongodb"
    BY <2>1, <2>2 DEF CInv, EditedInv, CreateAccepts, TargetIsSql
  <2>4. PICK i \in DOMAIN pairs : pairs[i] = Pair(n)
    BY <2>1, <2>3 DEF CInv, PairsInv, Resolved
  <2>5. ~Colliding
    BY <2>1 DEF CInv, WrittenInv, InsertRefused
  <2>6. pairs[i].target \in DOMAIN Stored(row) /\ Stored(row)[pairs[i].target] = Field(row, pairs[i].source)
    BY <1>4, <2>5, StoredField DEF CInv, PairsInv
  <2>7. pairs[i].target = Mapped(n) /\ pairs[i].source = n
    BY <2>4 DEF Pair
  <2>8. QED
    BY <1>2, <1>4, <2>6, <2>7 DEF Field
<1>5. QED
  BY <1>3, <1>4

(* The target table that is planned has the keys of the source that are    *)
(* copied.                                                                 *)
LEMMA PlannedKey ==
  ASSUME Len(pairs) \in Nat, DOMAIN pairs = 1..Len(pairs), ~Colliding,
         NEW columns, \A c, d \in ToSet(columns) : c.name = d.name => c = d,
         NEW p \in DOMAIN pairs, pairs[p].source \in KeyNames(columns), NEW engine, NEW from
  PROVE  \E c \in CreateTableSql(engine, PlanTargetColumns(pairs, columns, from)) :
           c.name = pairs[p].target /\ c.pk
<1> DEFINE d == PlanColumn(pairs[p], columns, from)
           known == {c \in ToSet(columns) : c.name = pairs[p].source}
<1>1. PICK key \in ToSet(columns) : key.pk /\ key.name = pairs[p].source
  BY DEF KeyNames
<1>2. known = {key}
  BY <1>1
<1>3. d.name = pairs[p].target /\ d.pk
  BY <1>1, <1>2 DEF PlanColumn
<1>4. \A j \in 1..(p - 1) : pairs[j].target # pairs[p].target
  BY DEF Colliding
<1>5. d \in PlanTargetColumns(pairs, columns, from)
  BY <1>4 DEF PlanTargetColumns
<1> HIDE DEF d
<1> DEFINE column == [name |-> d.name, type |-> TargetType(engine, d.canonical, d.pk),
                      nullable |-> d.nullable /\ ~d.pk, pk |-> d.pk]
<1>6. column \in CreateTableSql(engine, PlanTargetColumns(pairs, columns, from))
  BY <1>5, Zenon DEF CreateTableSql
<1>7. column.name = d.name /\ column.pk = d.pk
  BY Zenon
<1> HIDE DEF column
<1>8. QED
  BY <1>3, <1>6, <1>7

(* And it has a key only if the source has.                                *)
LEMMA KeyIsFound ==
  ASSUME NEW columns, NEW engine, NEW from,
         NEW c \in CreateTableSql(engine, PlanTargetColumns(pairs, columns, from)), c.pk
  PROVE  KeyNames(columns) # {}
<1> DEFINE column(d) == [name |-> d.name, type |-> TargetType(engine, d.canonical, d.pk),
                         nullable |-> d.nullable /\ ~d.pk, pk |-> d.pk]
<1>0. PICK d \in PlanTargetColumns(pairs, columns, from) : c = column(d)
  BY Zenon DEF CreateTableSql
<1>1. d \in PlanTargetColumns(pairs, columns, from) /\ c.pk = d.pk
  <2>1. column(d).pk = d.pk
    BY Zenon
  <2> HIDE DEF column
  <2>2. QED
    BY <1>0, <2>1
<1>2. PICK i \in DOMAIN pairs : d = PlanColumn(pairs[i], columns, from)
  BY DEF PlanTargetColumns
<1> DEFINE known == {k \in ToSet(columns) : k.name = pairs[i].source}
<1>3. known # {} /\ (CHOOSE k \in known : TRUE).pk
  BY <1>1, <1>2 DEF PlanColumn
<1>4. (CHOOSE k \in known : TRUE) \in ToSet(columns)
  BY <1>3
<1>5. QED
  BY <1>3, <1>4 DEF KeyNames

(* If every part of the key is copied, no two rows get one key.            *)
LEMMA KeysStayApart ==
  ASSUME CInv, made, TargetIsSql, ~Colliding, ~KeyCut, source.columns # <<>> \/ source.engine = "mongodb",
         NEW i \in SelectedRows, NEW j \in SelectedRows
  PROVE  ~AtOdds(i, j)
<1> SUFFICES ASSUME i # j, SameKey(Sent(i), Sent(j)) PROVE FALSE
  BY DEF AtOdds
<1>1. ~WholeDocument
  BY DEF WholeDocument
<1>2. PICK c0 \in target.columns : c0.pk
  BY DEF SameKey, Keys
<1>3. /\ target.columns = CreateTableSql(spec.engine, PlanTargetColumns(pairs, found, source.engine))
      /\ IsFound(found)
  BY DEF CInv, TargetInv
<1>4. i \in DOMAIN source.rows /\ j \in DOMAIN source.rows /\ source.rows # <<>>
  BY DEF SelectedRows
<1>5. KeyNames(found) = KeyNames(source.columns) /\ KeyNames(found) # {}
  BY <1>2, <1>3, <1>4, KeyIsFound DEF IsFound
<1>6. PICK n \in KeyNames(source.columns) :
        source.rows[i][n] # source.rows[j][n] \/ source.rows[i][n] = NullValue
  BY <1>4, <1>5 DEF CInv, SourceInv
<1>7. PICK p \in DOMAIN pairs : pairs[p].source = n
  BY <1>6 DEF KeyCut, ToSet
<1>8. PICK c \in target.columns : c.name = pairs[p].target /\ c.pk
  BY <1>1, <1>3, <1>5, <1>6, <1>7, PlannedKey DEF IsFound, CInv, PairsInv
<1>9. \A k \in {i, j} : Sent(k)[pairs[p].target] = source.rows[k][n]
  <2>1. n \in Names(source.columns)
    BY <1>6 DEF KeyNames, Names
  <2>2. \A k \in {i, j} : Field(source.rows[k], n) = source.rows[k][n]
    BY <1>4, <2>1 DEF Field, CInv, SourceInv
  <2>3. QED
    BY <1>1, <1>7, <2>2, StoredField DEF CInv, PairsInv, Sent
<1>10. c.name \in Keys
  BY <1>8 DEF Keys
<1>11. Sent(i)[c.name] = Sent(j)[c.name] /\ Sent(i)[c.name] # NullValue
  BY <1>10 DEF SameKey
<1>12. QED
  BY <1>6, <1>8, <1>9, <1>11

(* What is selected is what is wanted, and only the known losses make a    *)
(* row be left out.                                                        *)
LEMMA SelectionCopied == CInv => CopiesTheSelection
<1> SUFFICES ASSUME CInv, result = "ok", ~Overwritten, NEW i \in DOMAIN source.rows
             PROVE  LET copies == {w \in written : w[1] = i}
                    IN  /\ ~Wanted(source.rows[i]) => copies = {}
                        /\ Wanted(source.rows[i]) /\ ~SkipLoses => copies # {}
  BY DEF CopiesTheSelection
<1>1. Wanted(source.rows[i]) <=> i \in SelectedRows
  BY SelectedIsWanted DEF CInv, IsAsked, SelectedRows
<1>2. ~InsertRefused /\ ~InputRefused
  BY DEF CInv, WrittenInv
<1>3. PICK stored \in SUBSET SelectedRows :
        Inserted(stored) /\ written = {<<k, Adjusted(Sent(k))>> : k \in stored}
  BY DEF CInv, WrittenInv, IsCopy
<1>4. ASSUME i \in SelectedRows, ~SkipLoses PROVE i \in stored
  <2> SUFFICES ASSUME i \notin stored PROVE FALSE
    OBVIOUS
  <2>1. LeftOut(i, stored)
    BY <1>3, <1>4 DEF Inserted
  <2>2. ~Ignores \/ \A k \in SelectedRows : ~Unfit(Sent(k))
    BY <1>4 DEF SkipLoses, Ignores
  <2>3. Skips /\ (HeldAlready(i) \/ \E j \in stored : AtOdds(i, j))
    BY <1>4, <2>1, <2>2 DEF LeftOut
  <2>4. TargetIsSql /\ made /\ ~KeyCut
    BY <1>4, <2>3 DEF SkipLoses, Skips
  <2>5. ~HeldAlready(i)
    BY <2>4 DEF HeldAlready, CInv, TargetInv
  <2>6. ~Colliding /\ (source.columns # <<>> \/ source.engine = "mongodb")
    BY <1>2, <2>4 DEF InsertRefused, InputRefused, SourceUnread
  <2>7. \A j \in stored : ~AtOdds(i, j)
    BY <1>4, <2>4, <2>6, KeysStayApart
  <2>8. QED
    BY <2>3, <2>5, <2>7
<1>5. ASSUME i \notin SelectedRows PROVE \A w \in written : w[1] # i
  BY <1>3, <1>5
<1>6. ASSUME i \in stored PROVE \E w \in written : w[1] = i
  <2>1. <<i, Adjusted(Sent(i))>> \in written /\ <<i, Adjusted(Sent(i))>>[1] = i
    BY <1>3, <1>6
  <2>2. QED
    BY <2>1
<1>7. QED
  BY <1>1, <1>4, <1>5, <1>6

(* Every variable of a copy has its type, and a result is given exactly at *)
(* the end.                                                                *)
THEOREM CopyTypes == Spec => []TypeOK
<1>1. CInv => TypeOK
  BY DEF CInv
<1>2. QED
  BY <1>1, CopyInvariance, PTL

(* rows_total of tasks.py, counted with the driver's placeholders, is the  *)
(* number of rows the engine's query yields, unless it is the database's   *)
(* estimate of a collection without a filter.                              *)
THEOREM CountsWhatIsCopied == Spec => []CountIsTheCopy
<1>1. CInv => CountIsTheCopy
  BY DEF CInv, CountedInv, CountIsTheCopy
<1>2. QED
  BY <1>1, CopyInvariance, PTL

(* A finished copy has the rows that the filters of schemas/migration.py   *)
(* mean: no other, and none missing, apart from a condition in the place   *)
(* of another and what "skip" leaves out: by a key of which a part was not *)
(* copied, in a table this task did not create, and, by IGNORE, in a copy  *)
(* of which some row does not fit.                                         *)
THEOREM TheSelectionIsCopied == Spec => []CopiesTheSelection
  BY SelectionCopied, CopyInvariance, PTL

(* Without a selection, every field of a copied row arrives under the name *)
(* that the mapping gives it, unless IGNORE altered the row to make it fit.*)
THEOREM EveryColumnArrives == Spec => []AllColumnsArrive
  BY ColumnsArrive, CopyInvariance, PTL

(***************************************************************************)
(* ColumnTypes and ColumnValues: what the type maps make of the native     *)
(* types, one by one, and which planned column takes what.                 *)
(***************************************************************************)

(* The canonical type of a native one has it among its names, unless no    *)
(* type has.                                                               *)
LEMMA LookupFinds ==
  ASSUME NEW names, NEW native
  PROVE  \/ Lookup(names, native) \in DOMAIN names /\ native \in names[Lookup(names, native)]
         \/ Lookup(names, native) = "text" /\ \A c \in DOMAIN names : native \notin names[c]
  BY DEF Lookup

(* What the map of PostgreSQL makes of a type, and what values it has.     *)
LEMMA PostgresMeans ==
  ASSUME NEW native, native \in NativeTypes("postgres"), NEW k, k = Lookup(PostgresNames, native),
         NEW v, v = PostgresValues(native)
  PROVE  \/ k = "integer" /\ v = {"i32"}
         \/ k = "bigint" /\ v = {"i64"}
         \/ k = "smallint" /\ v = {"i16"}
         \/ k = "numeric" /\ v \subseteq {"numeric", "wide_numeric"}
         \/ k = "real" /\ v = {"float"}
         \/ k = "boolean" /\ v = {"bool"}
         \/ k = "varchar" /\ v \subseteq {"short", "long"}
         \/ k = "text" /\ v \subseteq {"short", "long"}
         \/ k = "uuid" /\ v = {"uuid"}
         \/ k = "json" /\ v = {"json"}
         \/ k = "timestamp" /\ v = {"timestamp"}
         \/ k = "timestamptz" /\ v = {"timestamptz"}
         \/ k = "date" /\ v = {"date"}
         \/ k = "time" /\ v \subseteq {"time", "timetz"}
         \/ k = "binary" /\ v \subseteq {"bytes", "long_bytes"}
<1>1. DOMAIN PostgresNames =
        {"integer", "bigint", "smallint", "numeric", "real", "boolean", "varchar", "text", "uuid", "json",
            "timestamp", "timestamptz", "date", "time", "binary"}
  BY DEF PostgresNames
<1>2. native = "inet" \/ \E c \in DOMAIN PostgresNames : native \in PostgresNames[c]
  <2>1. native \in (UNION {PostgresNames[c] : c \in DOMAIN PostgresNames}) \cup {"inet"} BY DEF NativeTypes
  <2> QED BY <2>1
<1>3. (k \in DOMAIN PostgresNames /\ native \in PostgresNames[k]) \/ (k = "text" /\ native = "inet")
  <2>1. \/ k \in DOMAIN PostgresNames /\ native \in PostgresNames[k]
        \/ k = "text" /\ \A c \in DOMAIN PostgresNames : native \notin PostgresNames[c]
    BY LookupFinds
  <2> QED BY <1>2, <2>1
<1>4. PostgresValues("inet") = {"short"} BY DEF PostgresValues, PostgresNames
<1>5. CASE k = "integer" /\ native \in PostgresNames["integer"]
  <2>1. native \in {"integer", "int", "int4", "serial"} BY <1>5 DEF PostgresNames
  <2>2. PostgresValues("integer") = {"i32"} BY DEF PostgresValues, PostgresNames
  <2>3. PostgresValues("int") = {"i32"} BY DEF PostgresValues, PostgresNames
  <2>4. PostgresValues("int4") = {"i32"} BY DEF PostgresValues, PostgresNames
  <2>5. PostgresValues("serial") = {"i32"} BY DEF PostgresValues, PostgresNames
  <2> QED BY <1>5, <2>1, <2>2, <2>3, <2>4, <2>5
<1>6. CASE k = "bigint" /\ native \in PostgresNames["bigint"]
  <2>1. native \in {"bigint", "int8", "bigserial"} BY <1>6 DEF PostgresNames
  <2>2. PostgresValues("bigint") = {"i64"} BY DEF PostgresValues, PostgresNames
  <2>3. PostgresValues("int8") = {"i64"} BY DEF PostgresValues, PostgresNames
  <2>4. PostgresValues("bigserial") = {"i64"} BY DEF PostgresValues, PostgresNames
  <2> QED BY <1>6, <2>1, <2>2, <2>3, <2>4
<1>7. CASE k = "smallint" /\ native \in PostgresNames["smallint"]
  <2>1. native \in {"smallint", "int2", "smallserial"} BY <1>7 DEF PostgresNames
  <2>2. PostgresValues("smallint") = {"i16"} BY DEF PostgresValues, PostgresNames
  <2>3. PostgresValues("int2") = {"i16"} BY DEF PostgresValues, PostgresNames
  <2>4. PostgresValues("smallserial") = {"i16"} BY DEF PostgresValues, PostgresNames
  <2> QED BY <1>7, <2>1, <2>2, <2>3, <2>4
<1>8. CASE k = "numeric" /\ native \in PostgresNames["numeric"]
  <2>1. native \in {"numeric", "decimal", "money"} BY <1>8 DEF PostgresNames
  <2>2. PostgresValues("numeric") = {"numeric", "wide_numeric"} BY DEF PostgresValues, PostgresNames
  <2>3. PostgresValues("decimal") = {"numeric", "wide_numeric"} BY DEF PostgresValues, PostgresNames
  <2>4. PostgresValues("money") = {"numeric"} BY DEF PostgresValues, PostgresNames
  <2> QED BY <1>8, <2>1, <2>2, <2>3, <2>4
<1>9. CASE k = "real" /\ native \in PostgresNames["real"]
  <2>1. native \in {"real", "double precision", "float4", "float8"} BY <1>9 DEF PostgresNames
  <2>2. PostgresValues("real") = {"float"} BY DEF PostgresValues, PostgresNames
  <2>3. PostgresValues("double precision") = {"float"} BY DEF PostgresValues, PostgresNames
  <2>4. PostgresValues("float4") = {"float"} BY DEF PostgresValues, PostgresNames
  <2>5. PostgresValues("float8") = {"float"} BY DEF PostgresValues, PostgresNames
  <2> QED BY <1>9, <2>1, <2>2, <2>3, <2>4, <2>5
<1>10. CASE k = "boolean" /\ native \in PostgresNames["boolean"]
  <2>1. native \in {"boolean", "bool"} BY <1>10 DEF PostgresNames
  <2>2. PostgresValues("boolean") = {"bool"} BY DEF PostgresValues, PostgresNames
  <2>3. PostgresValues("bool") = {"bool"} BY DEF PostgresValues, PostgresNames
  <2> QED BY <1>10, <2>1, <2>2, <2>3
<1>11. CASE k = "varchar" /\ native \in PostgresNames["varchar"]
  <2>1. native \in {"character varying", "varchar", "character", "char", "bpchar",
      "name"} BY <1>11 DEF PostgresNames
  <2>2. PostgresValues("character varying") = {"short", "long"} BY DEF PostgresValues, PostgresNames
  <2>3. PostgresValues("varchar") = {"short", "long"} BY DEF PostgresValues, PostgresNames
  <2>4. PostgresValues("character") = {"short", "long"} BY DEF PostgresValues, PostgresNames
  <2>5. PostgresValues("char") = {"short", "long"} BY DEF PostgresValues, PostgresNames
  <2>6. PostgresValues("bpchar") = {"short", "long"} BY DEF PostgresValues, PostgresNames
  <2>7. PostgresValues("name") = {"short"} BY DEF PostgresValues, PostgresNames
  <2> QED BY <1>11, <2>1, <2>2, <2>3, <2>4, <2>5, <2>6, <2>7
<1>12. CASE k = "text" /\ native \in PostgresNames["text"]
  <2>1. native \in {"text", "citext"} BY <1>12 DEF PostgresNames
  <2>2. PostgresValues("text") = {"short", "long"} BY DEF PostgresValues, PostgresNames
  <2>3. PostgresValues("citext") = {"short", "long"} BY DEF PostgresValues, PostgresNames
  <2> QED BY <1>12, <2>1, <2>2, <2>3
<1>13. CASE k = "uuid" /\ native \in PostgresNames["uuid"]
  <2>1. native \in {"uuid"} BY <1>13 DEF PostgresNames
  <2>2. PostgresValues("uuid") = {Lookup(PostgresNames, "uuid")} BY DEF PostgresValues, PostgresNames
  <2> QED BY <1>13, <2>1, <2>2
<1>14. CASE k = "json" /\ native \in PostgresNames["json"]
  <2>1. native \in {"json", "jsonb"} BY <1>14 DEF PostgresNames
  <2>2. PostgresValues("json") = {Lookup(PostgresNames, "json")} BY DEF PostgresValues, PostgresNames
  <2>3. PostgresValues("jsonb") = {Lookup(PostgresNames, "jsonb")} BY DEF PostgresValues, PostgresNames
  <2> QED BY <1>14, <2>1, <2>2, <2>3
<1>15. CASE k = "timestamp" /\ native \in PostgresNames["timestamp"]
  <2>1. native \in {"timestamp without time zone", "timestamp"} BY <1>15 DEF PostgresNames
  <2>2. PostgresValues("timestamp without time zone") = {Lookup(PostgresNames,
      "timestamp without time zone")} BY DEF PostgresValues, PostgresNames
  <2>3. PostgresValues("timestamp") = {Lookup(PostgresNames, "timestamp")} BY DEF PostgresValues, PostgresNames
  <2> QED BY <1>15, <2>1, <2>2, <2>3
<1>16. CASE k = "timestamptz" /\ native \in PostgresNames["timestamptz"]
  <2>1. native \in {"timestamp with time zone", "timestamptz"} BY <1>16 DEF PostgresNames
  <2>2. PostgresValues("timestamp with time zone") = {"timestamptz"} BY DEF PostgresValues, PostgresNames
  <2>3. PostgresValues("timestamptz") = {"timestamptz"} BY DEF PostgresValues, PostgresNames
  <2> QED BY <1>16, <2>1, <2>2, <2>3
<1>17. CASE k = "date" /\ native \in PostgresNames["date"]
  <2>1. native \in {"date"} BY <1>17 DEF PostgresNames
  <2>2. PostgresValues("date") = {Lookup(PostgresNames, "date")} BY DEF PostgresValues, PostgresNames
  <2> QED BY <1>17, <2>1, <2>2
<1>18. CASE k = "time" /\ native \in PostgresNames["time"]
  <2>1. native \in {"time without time zone", "time with time zone", "time"} BY <1>18 DEF PostgresNames
  <2>2. PostgresValues("time without time zone") = {Lookup(PostgresNames,
      "time without time zone")} BY DEF PostgresValues, PostgresNames
  <2>3. PostgresValues("time with time zone") = {"timetz"} BY DEF PostgresValues, PostgresNames
  <2>4. PostgresValues("time") = {Lookup(PostgresNames, "time")} BY DEF PostgresValues, PostgresNames
  <2> QED BY <1>18, <2>1, <2>2, <2>3, <2>4
<1>19. CASE k = "binary" /\ native \in PostgresNames["binary"]
  <2>1. native \in {"bytea"} BY <1>19 DEF PostgresNames
  <2>2. PostgresValues("bytea") = {"bytes", "long_bytes"} BY DEF PostgresValues, PostgresNames
  <2> QED BY <1>19, <2>1, <2>2
<1> QED BY <1>1, <1>3, <1>4, <1>5, <1>6, <1>7, <1>8, <1>9, <1>10, <1>11, <1>12, <1>13, <1>14, <1>15, <1>16,
    <1>17, <1>18, <1>19

(* What the map of MySQL makes of a type, and the values of that type.  *)
LEMMA MysqlMeans ==
  ASSUME NEW native, native \in NativeTypes("mysql"), NEW k, k = Lookup(MysqlNames, native),
         NEW v, v = MysqlValues(native)
  PROVE  \/ k = "integer" /\ v \subseteq {"i16", "i32", "u32"}
         \/ k = "bigint" /\ v \subseteq {"i64", "u64"}
         \/ k = "smallint" /\ (v = {"i16"} \/ native = "smallint")
         \/ k = "numeric" /\ v \subseteq {"numeric", "wide_numeric"}
         \/ k = "real" /\ v = {"float"}
         \/ k = "boolean" /\ v \subseteq {"bool", "bits"}
         \/ k = "varchar" /\ v \subseteq {"short", "long"}
         \/ k = "text" /\ (v \subseteq {"short", "long"} \/ native = "geometry")
         \/ k = "json" /\ v = {"json"}
         \/ k = "timestamp" /\ v = {"timestamp"}
         \/ k = "date" /\ v = {"date"}
         \/ k = "time" /\ v \subseteq {"time", "long_time"}
         \/ k = "binary" /\ v \subseteq {"bytes", "long_bytes"}
<1>1. DOMAIN MysqlNames =
        {"integer", "bigint", "smallint", "numeric", "real", "boolean", "varchar", "text", "json", "timestamp",
            "date", "time", "binary"}
  BY DEF MysqlNames
<1>2. native = "geometry" \/ \E c \in DOMAIN MysqlNames : native \in MysqlNames[c]
  <2>1. native \in (UNION {MysqlNames[c] : c \in DOMAIN MysqlNames}) \cup {"geometry"} BY DEF NativeTypes
  <2> QED BY <2>1
<1>3. (k \in DOMAIN MysqlNames /\ native \in MysqlNames[k]) \/ (k = "text" /\ native = "geometry")
  <2>1. \/ k \in DOMAIN MysqlNames /\ native \in MysqlNames[k]
        \/ k = "text" /\ \A c \in DOMAIN MysqlNames : native \notin MysqlNames[c]
    BY LookupFinds
  <2> QED BY <1>2, <2>1
<1>4. MysqlValues("geometry") = {"bytes"} BY DEF MysqlValues, MysqlNames
<1>5. CASE k = "integer" /\ native \in MysqlNames["integer"]
  <2>1. native \in {"int", "integer", "mediumint", "year"} BY <1>5 DEF MysqlNames
  <2>2. MysqlValues("int") = {"i32", "u32"} BY DEF MysqlValues, MysqlNames
  <2>3. MysqlValues("integer") = {"i32", "u32"} BY DEF MysqlValues, MysqlNames
  <2>4. MysqlValues("mediumint") = {"i32"} BY DEF MysqlValues, MysqlNames
  <2>5. MysqlValues("year") = {"i16"} BY DEF MysqlValues, MysqlNames
  <2> QED BY <1>5, <2>1, <2>2, <2>3, <2>4, <2>5
<1>6. CASE k = "bigint" /\ native \in MysqlNames["bigint"]
  <2>1. native \in {"bigint"} BY <1>6 DEF MysqlNames
  <2>2. MysqlValues("bigint") = {"i64", "u64"} BY DEF MysqlValues, MysqlNames
  <2> QED BY <1>6, <2>1, <2>2
<1>7. CASE k = "smallint" /\ native \in MysqlNames["smallint"]
  <2>1. native \in {"smallint", "tinyint"} BY <1>7 DEF MysqlNames
  <2>2. MysqlValues("smallint") = {"i16", "i32"} BY DEF MysqlValues, MysqlNames
  <2>3. MysqlValues("tinyint") = {"i16"} BY DEF MysqlValues, MysqlNames
  <2> QED BY <1>7, <2>1, <2>2, <2>3
<1>8. CASE k = "numeric" /\ native \in MysqlNames["numeric"]
  <2>1. native \in {"decimal", "numeric"} BY <1>8 DEF MysqlNames
  <2>2. MysqlValues("decimal") = {"numeric", "wide_numeric"} BY DEF MysqlValues, MysqlNames
  <2>3. MysqlValues("numeric") = {"numeric", "wide_numeric"} BY DEF MysqlValues, MysqlNames
  <2> QED BY <1>8, <2>1, <2>2, <2>3
<1>9. CASE k = "real" /\ native \in MysqlNames["real"]
  <2>1. native \in {"float", "double", "double precision", "real"} BY <1>9 DEF MysqlNames
  <2>2. MysqlValues("float") = {"float"} BY DEF MysqlValues, MysqlNames
  <2>3. MysqlValues("double") = {"float"} BY DEF MysqlValues, MysqlNames
  <2>4. MysqlValues("double precision") = {"float"} BY DEF MysqlValues, MysqlNames
  <2>5. MysqlValues("real") = {"float"} BY DEF MysqlValues, MysqlNames
  <2> QED BY <1>9, <2>1, <2>2, <2>3, <2>4, <2>5
<1>10. CASE k = "boolean" /\ native \in MysqlNames["boolean"]
  <2>1. native \in {"bit", "bool", "boolean"} BY <1>10 DEF MysqlNames
  <2>2. MysqlValues("bit") = {"bool", "bits"} BY DEF MysqlValues, MysqlNames
  <2>3. MysqlValues("bool") = {"bool"} BY DEF MysqlValues, MysqlNames
  <2>4. MysqlValues("boolean") = {"bool"} BY DEF MysqlValues, MysqlNames
  <2> QED BY <1>10, <2>1, <2>2, <2>3, <2>4
<1>11. CASE k = "varchar" /\ native \in MysqlNames["varchar"]
  <2>1. native \in {"varchar", "char", "enum", "set"} BY <1>11 DEF MysqlNames
  <2>2. MysqlValues("varchar") = {"short", "long"} BY DEF MysqlValues, MysqlNames
  <2>3. MysqlValues("char") = {"short"} BY DEF MysqlValues, MysqlNames
  <2>4. MysqlValues("enum") = {"short"} BY DEF MysqlValues, MysqlNames
  <2>5. MysqlValues("set") = {"short", "long"} BY DEF MysqlValues, MysqlNames
  <2> QED BY <1>11, <2>1, <2>2, <2>3, <2>4, <2>5
<1>12. CASE k = "text" /\ native \in MysqlNames["text"]
  <2>1. native \in {"text", "tinytext", "mediumtext", "longtext"} BY <1>12 DEF MysqlNames
  <2>2. MysqlValues("text") = {"short", "long"} BY DEF MysqlValues, MysqlNames
  <2>3. MysqlValues("tinytext") = {"short"} BY DEF MysqlValues, MysqlNames
  <2>4. MysqlValues("mediumtext") = {"short", "long"} BY DEF MysqlValues, MysqlNames
  <2>5. MysqlValues("longtext") = {"short", "long"} BY DEF MysqlValues, MysqlNames
  <2> QED BY <1>12, <2>1, <2>2, <2>3, <2>4, <2>5
<1>13. CASE k = "json" /\ native \in MysqlNames["json"]
  <2>1. native \in {"json"} BY <1>13 DEF MysqlNames
  <2>2. MysqlValues("json") = {Lookup(MysqlNames, "json")} BY DEF MysqlValues, MysqlNames
  <2> QED BY <1>13, <2>1, <2>2
<1>14. CASE k = "timestamp" /\ native \in MysqlNames["timestamp"]
  <2>1. native \in {"datetime", "timestamp"} BY <1>14 DEF MysqlNames
  <2>2. MysqlValues("datetime") = {Lookup(MysqlNames, "datetime")} BY DEF MysqlValues, MysqlNames
  <2>3. MysqlValues("timestamp") = {Lookup(MysqlNames, "timestamp")} BY DEF MysqlValues, MysqlNames
  <2> QED BY <1>14, <2>1, <2>2, <2>3
<1>15. CASE k = "date" /\ native \in MysqlNames["date"]
  <2>1. native \in {"date"} BY <1>15 DEF MysqlNames
  <2>2. MysqlValues("date") = {Lookup(MysqlNames, "date")} BY DEF MysqlValues, MysqlNames
  <2> QED BY <1>15, <2>1, <2>2
<1>16. CASE k = "time" /\ native \in MysqlNames["time"]
  <2>1. native \in {"time"} BY <1>16 DEF MysqlNames
  <2>2. MysqlValues("time") = {"time", "long_time"} BY DEF MysqlValues, MysqlNames
  <2> QED BY <1>16, <2>1, <2>2
<1>17. CASE k = "binary" /\ native \in MysqlNames["binary"]
  <2>1. native \in {"blob", "tinyblob", "mediumblob", "longblob", "binary", "varbinary"} BY <1>17 DEF MysqlNames
  <2>2. MysqlValues("blob") = {"bytes", "long_bytes"} BY DEF MysqlValues, MysqlNames
  <2>3. MysqlValues("tinyblob") = {"bytes"} BY DEF MysqlValues, MysqlNames
  <2>4. MysqlValues("mediumblob") = {"bytes", "long_bytes"} BY DEF MysqlValues, MysqlNames
  <2>5. MysqlValues("longblob") = {"bytes", "long_bytes"} BY DEF MysqlValues, MysqlNames
  <2>6. MysqlValues("binary") = {"bytes"} BY DEF MysqlValues, MysqlNames
  <2>7. MysqlValues("varbinary") = {"bytes", "long_bytes"} BY DEF MysqlValues, MysqlNames
  <2> QED BY <1>17, <2>1, <2>2, <2>3, <2>4, <2>5, <2>6, <2>7
<1> QED BY <1>1, <1>3, <1>4, <1>5, <1>6, <1>7, <1>8, <1>9, <1>10, <1>11, <1>12, <1>13, <1>14, <1>15, <1>16, <1>17

(* What the map of MongoDB makes of a type, and the values of that type.  *)
LEMMA MongoMeans ==
  ASSUME NEW native, native \in NativeTypes("mongodb"), NEW k, k = Lookup(MongoNames, native),
         NEW v, v = MongoValues(native)
  PROVE  \/ k = "text" /\ v \subseteq {"short", "long", "wrapped"}
         \/ k = "varchar" /\ v = {"wrapped"}
         \/ k = "bigint" /\ v = {"i64"}
         \/ k = "integer" /\ v = {"i32"}
         \/ k = "real" /\ v = {"float"}
         \/ k = "numeric" /\ v = {"wrapped"}
         \/ k = "boolean" /\ v = {"bool"}
         \/ k = "timestamp" /\ v = {"wrapped"}
         \/ k = "json" /\ v = {"json"}
         \/ k = "binary" /\ v = {"wrapped"}
         \/ k = "uuid" /\ v = {"wrapped"}
<1>1. DOMAIN MongoNames =
        {"text", "varchar", "bigint", "integer", "real", "numeric", "boolean", "timestamp", "json", "binary",
            "uuid"}
  BY DEF MongoNames
<1>2. native = "regex" \/ \E c \in DOMAIN MongoNames : native \in MongoNames[c]
  <2>1. native \in (UNION {MongoNames[c] : c \in DOMAIN MongoNames}) \cup {"regex"} BY DEF NativeTypes
  <2> QED BY <2>1
<1>3. (k \in DOMAIN MongoNames /\ native \in MongoNames[k]) \/ (k = "text" /\ native = "regex")
  <2>1. \/ k \in DOMAIN MongoNames /\ native \in MongoNames[k]
        \/ k = "text" /\ \A c \in DOMAIN MongoNames : native \notin MongoNames[c]
    BY LookupFinds
  <2> QED BY <1>2, <2>1
<1>4. MongoValues("regex") = {"wrapped"} BY DEF MongoValues, MongoNames
<1>5. CASE k = "text" /\ native \in MongoNames["text"]
  <2>1. native \in {"str"} BY <1>5 DEF MongoNames
  <2>2. MongoValues("str") = {"short", "long"} BY DEF MongoValues, MongoNames
  <2> QED BY <1>5, <2>1, <2>2
<1>6. CASE k = "varchar" /\ native \in MongoNames["varchar"]
  <2>1. native \in {"ObjectId"} BY <1>6 DEF MongoNames
  <2>2. MongoValues("ObjectId") = {"wrapped"} BY DEF MongoValues, MongoNames
  <2> QED BY <1>6, <2>1, <2>2
<1>7. CASE k = "bigint" /\ native \in MongoNames["bigint"]
  <2>1. native \in {"int", "Int64", "long"} BY <1>7 DEF MongoNames
  <2>2. MongoValues("int") = {"i64"} BY DEF MongoValues, MongoNames
  <2>3. MongoValues("Int64") = {"i64"} BY DEF MongoValues, MongoNames
  <2>4. MongoValues("long") = {"i64"} BY DEF MongoValues, MongoNames
  <2> QED BY <1>7, <2>1, <2>2, <2>3, <2>4
<1>8. CASE k = "integer" /\ native \in MongoNames["integer"]
  <2>1. native \in {"int32"} BY <1>8 DEF MongoNames
  <2>2. MongoValues("int32") = {"i32"} BY DEF MongoValues, MongoNames
  <2> QED BY <1>8, <2>1, <2>2
<1>9. CASE k = "real" /\ native \in MongoNames["real"]
  <2>1. native \in {"float", "double"} BY <1>9 DEF MongoNames
  <2>2. MongoValues("float") = {"float"} BY DEF MongoValues, MongoNames
  <2>3. MongoValues("double") = {"float"} BY DEF MongoValues, MongoNames
  <2> QED BY <1>9, <2>1, <2>2, <2>3
<1>10. CASE k = "numeric" /\ native \in MongoNames["numeric"]
  <2>1. native \in {"Decimal128"} BY <1>10 DEF MongoNames
  <2>2. MongoValues("Decimal128") = {"wrapped"} BY DEF MongoValues, MongoNames
  <2> QED BY <1>10, <2>1, <2>2
<1>11. CASE k = "boolean" /\ native \in MongoNames["boolean"]
  <2>1. native \in {"bool"} BY <1>11 DEF MongoNames
  <2>2. MongoValues("bool") = {"bool"} BY DEF MongoValues, MongoNames
  <2> QED BY <1>11, <2>1, <2>2
<1>12. CASE k = "timestamp" /\ native \in MongoNames["timestamp"]
  <2>1. native \in {"datetime"} BY <1>12 DEF MongoNames
  <2>2. MongoValues("datetime") = {"wrapped"} BY DEF MongoValues, MongoNames
  <2> QED BY <1>12, <2>1, <2>2
<1>13. CASE k = "json" /\ native \in MongoNames["json"]
  <2>1. native \in {"dict", "list"} BY <1>13 DEF MongoNames
  <2>2. MongoValues("dict") = {"json"} BY DEF MongoValues, MongoNames
  <2>3. MongoValues("list") = {"json"} BY DEF MongoValues, MongoNames
  <2> QED BY <1>13, <2>1, <2>2, <2>3
<1>14. CASE k = "binary" /\ native \in MongoNames["binary"]
  <2>1. native \in {"bytes", "binary"} BY <1>14 DEF MongoNames
  <2>2. MongoValues("bytes") = {"wrapped"} BY DEF MongoValues, MongoNames
  <2>3. MongoValues("binary") = {"wrapped"} BY DEF MongoValues, MongoNames
  <2> QED BY <1>14, <2>1, <2>2, <2>3
<1>15. CASE k = "uuid" /\ native \in MongoNames["uuid"]
  <2>1. native \in {"uuid"} BY <1>15 DEF MongoNames
  <2>2. MongoValues("uuid") = {"wrapped"} BY DEF MongoValues, MongoNames
  <2> QED BY <1>15, <2>1, <2>2
<1> QED BY <1>1, <1>3, <1>4, <1>5, <1>6, <1>7, <1>8, <1>9, <1>10, <1>11, <1>12, <1>13, <1>14, <1>15

(* A declared SQLite type means what the first rule that matches says.     *)
LEMMA FirstRule ==
  ASSUME NEW native, NEW i \in 1..12, SqliteRules[i][1] \cap SqliteKeywords[native] # {},
         \A j \in 1..(i - 1) : SqliteRules[j][1] \cap SqliteKeywords[native] = {}
  PROVE  SqliteCanonical(native) = SqliteRules[i][2]
<1> DEFINE matching == {j \in 1..Len(SqliteRules) : SqliteRules[j][1] \cap SqliteKeywords[native] # {}}
<1>1. Len(SqliteRules) = 12 BY DEF SqliteRules
<1>2. i \in matching /\ \A j \in matching : i <= j BY <1>1
<1>3. Min(matching) = i BY <1>1, <1>2 DEF Min
<1>4. SelectInSeq(SqliteRules, LAMBDA rule : rule[1] \cap SqliteKeywords[native] # {}) = i
  BY <1>2, <1>3 DEF SelectInSeq
<1> QED BY <1>4 DEF SqliteCanonical

(* None matches: it is a text.                                             *)
LEMMA NoRule ==
  ASSUME NEW native, \A j \in 1..12 : SqliteRules[j][1] \cap SqliteKeywords[native] = {}
  PROVE  SqliteCanonical(native) = "text"
<1>1. Len(SqliteRules) = 12 BY DEF SqliteRules
<1>2. {j \in 1..Len(SqliteRules) : SqliteRules[j][1] \cap SqliteKeywords[native] # {}} = {} BY <1>1
<1>3. SelectInSeq(SqliteRules, LAMBDA rule : rule[1] \cap SqliteKeywords[native] # {}) = 0
  BY <1>2 DEF SelectInSeq
<1> QED BY <1>3 DEF SqliteCanonical

(* What the rules for SQLite make of a type, and the values of that type.  *)
LEMMA SqliteMeans ==
  ASSUME NEW native, native \in NativeTypes("sqlite"), NEW k, k = SqliteCanonical(native),
         NEW v, v = SqliteValues(native)
  PROVE  \/ k = "integer" /\ native = "INTEGER" /\ v = {"i64"}
         \/ k = "bigint" /\ v = {"i64"}
         \/ k = "text" /\ v \subseteq {"short", "long"}
         \/ k = "binary" /\ v = {"bytes", "long_bytes"}
         \/ k = "boolean" /\ v = {"bool"}
         \/ k = "real" /\ v = {"float"}
         \/ k \in {"uuid", "json", "timestamp", "date", "time", "numeric"} /\ v = {k}
<1>1. native \in {"INTEGER", "BIGINT", "VARCHAR", "CLOB", "TEXT", "BLOB", "BOOLEAN", "UUID", "JSON", "REAL",
    "DOUBLE", "TIMESTAMP", "DATETIME", "DATE", "TIME", "DECIMAL", "NUMERIC", "GEOMETRY"}
  BY DEF NativeTypes, SqliteKeywords
<1>2. /\ SqliteRules[1] = <<{"BIGINT"}, "bigint">>
      /\ SqliteRules[2] = <<{"INT"}, "integer">>
      /\ SqliteRules[3] = <<{"CHAR", "CLOB", "TEXT"}, "text">>
      /\ SqliteRules[4] = <<{"BLOB"}, "binary">>
      /\ SqliteRules[5] = <<{"BOOL"}, "boolean">>
      /\ SqliteRules[6] = <<{"UUID"}, "uuid">>
      /\ SqliteRules[7] = <<{"JSON"}, "json">>
      /\ SqliteRules[8] = <<{"REAL", "FLOA", "DOUB"}, "real">>
      /\ SqliteRules[9] = <<{"TIMESTAMP", "DATETIME"}, "timestamp">>
      /\ SqliteRules[10] = <<{"DATE"}, "date">>
      /\ SqliteRules[11] = <<{"TIME"}, "time">>
      /\ SqliteRules[12] = <<{"DEC", "NUM", "MONEY"}, "numeric">>
  BY DEF SqliteRules
<1>3. CASE native = "INTEGER"
  <2>1. SqliteKeywords["INTEGER"] = {"INT"} BY DEF SqliteKeywords
  <2>2. \A j \in 1..1 : SqliteRules[j][1] \cap {"INT"} = {} BY <1>2
  <2>3. SqliteRules[2][1] \cap {"INT"} # {} /\ SqliteRules[2][2] = "integer" BY <1>2
  <2>4. SqliteCanonical("INTEGER") = "integer" BY <2>1, <2>2, <2>3, FirstRule
  <2>5. SqliteValues("INTEGER") = {"i64"} BY DEF SqliteValues
  <2> QED BY <1>3, <2>4, <2>5
<1>4. CASE native = "BIGINT"
  <2>1. SqliteKeywords["BIGINT"] = {"INT", "BIGINT"} BY DEF SqliteKeywords
  <2>3. SqliteRules[1][1] \cap {"INT", "BIGINT"} # {} /\ SqliteRules[1][2] = "bigint" BY <1>2
  <2>4. SqliteCanonical("BIGINT") = "bigint" BY <2>1, <2>3, FirstRule
  <2>5. SqliteValues("BIGINT") = {"i64"} BY DEF SqliteValues
  <2> QED BY <1>4, <2>4, <2>5
<1>5. CASE native = "VARCHAR"
  <2>1. SqliteKeywords["VARCHAR"] = {"CHAR"} BY DEF SqliteKeywords
  <2>2. \A j \in 1..2 : SqliteRules[j][1] \cap {"CHAR"} = {} BY <1>2
  <2>3. SqliteRules[3][1] \cap {"CHAR"} # {} /\ SqliteRules[3][2] = "text" BY <1>2
  <2>4. SqliteCanonical("VARCHAR") = "text" BY <2>1, <2>2, <2>3, FirstRule
  <2>5. SqliteValues("VARCHAR") = {"short", "long"} BY DEF SqliteValues
  <2> QED BY <1>5, <2>4, <2>5
<1>6. CASE native = "CLOB"
  <2>1. SqliteKeywords["CLOB"] = {"CLOB"} BY DEF SqliteKeywords
  <2>2. \A j \in 1..2 : SqliteRules[j][1] \cap {"CLOB"} = {} BY <1>2
  <2>3. SqliteRules[3][1] \cap {"CLOB"} # {} /\ SqliteRules[3][2] = "text" BY <1>2
  <2>4. SqliteCanonical("CLOB") = "text" BY <2>1, <2>2, <2>3, FirstRule
  <2>5. SqliteValues("CLOB") = {"short", "long"} BY DEF SqliteValues
  <2> QED BY <1>6, <2>4, <2>5
<1>7. CASE native = "TEXT"
  <2>1. SqliteKeywords["TEXT"] = {"TEXT"} BY DEF SqliteKeywords
  <2>2. \A j \in 1..2 : SqliteRules[j][1] \cap {"TEXT"} = {} BY <1>2
  <2>3. SqliteRules[3][1] \cap {"TEXT"} # {} /\ SqliteRules[3][2] = "text" BY <1>2
  <2>4. SqliteCanonical("TEXT") = "text" BY <2>1, <2>2, <2>3, FirstRule
  <2>5. SqliteValues("TEXT") = {"short", "long"} BY DEF SqliteValues
  <2> QED BY <1>7, <2>4, <2>5
<1>8. CASE native = "BLOB"
  <2>1. SqliteKeywords["BLOB"] = {"BLOB"} BY DEF SqliteKeywords
  <2>2. \A j \in 1..3 : SqliteRules[j][1] \cap {"BLOB"} = {} BY <1>2
  <2>3. SqliteRules[4][1] \cap {"BLOB"} # {} /\ SqliteRules[4][2] = "binary" BY <1>2
  <2>4. SqliteCanonical("BLOB") = "binary" BY <2>1, <2>2, <2>3, FirstRule
  <2>5. SqliteValues("BLOB") = {"bytes", "long_bytes"} BY DEF SqliteValues
  <2> QED BY <1>8, <2>4, <2>5
<1>9. CASE native = "BOOLEAN"
  <2>1. SqliteKeywords["BOOLEAN"] = {"BOOL"} BY DEF SqliteKeywords
  <2>2. \A j \in 1..4 : SqliteRules[j][1] \cap {"BOOL"} = {} BY <1>2
  <2>3. SqliteRules[5][1] \cap {"BOOL"} # {} /\ SqliteRules[5][2] = "boolean" BY <1>2
  <2>4. SqliteCanonical("BOOLEAN") = "boolean" BY <2>1, <2>2, <2>3, FirstRule
  <2>5. SqliteValues("BOOLEAN") = {"bool"} BY DEF SqliteValues
  <2> QED BY <1>9, <2>4, <2>5
<1>10. CASE native = "UUID"
  <2>1. SqliteKeywords["UUID"] = {"UUID"} BY DEF SqliteKeywords
  <2>2. \A j \in 1..5 : SqliteRules[j][1] \cap {"UUID"} = {} BY <1>2
  <2>3. SqliteRules[6][1] \cap {"UUID"} # {} /\ SqliteRules[6][2] = "uuid" BY <1>2
  <2>4. SqliteCanonical("UUID") = "uuid" BY <2>1, <2>2, <2>3, FirstRule
  <2>5. SqliteValues("UUID") = {SqliteCanonical("UUID")} BY DEF SqliteValues
  <2> QED BY <1>10, <2>4, <2>5
<1>11. CASE native = "JSON"
  <2>1. SqliteKeywords["JSON"] = {"JSON"} BY DEF SqliteKeywords
  <2>2. \A j \in 1..6 : SqliteRules[j][1] \cap {"JSON"} = {} BY <1>2
  <2>3. SqliteRules[7][1] \cap {"JSON"} # {} /\ SqliteRules[7][2] = "json" BY <1>2
  <2>4. SqliteCanonical("JSON") = "json" BY <2>1, <2>2, <2>3, FirstRule
  <2>5. SqliteValues("JSON") = {SqliteCanonical("JSON")} BY DEF SqliteValues
  <2> QED BY <1>11, <2>4, <2>5
<1>12. CASE native = "REAL"
  <2>1. SqliteKeywords["REAL"] = {"REAL"} BY DEF SqliteKeywords
  <2>2. \A j \in 1..7 : SqliteRules[j][1] \cap {"REAL"} = {} BY <1>2
  <2>3. SqliteRules[8][1] \cap {"REAL"} # {} /\ SqliteRules[8][2] = "real" BY <1>2
  <2>4. SqliteCanonical("REAL") = "real" BY <2>1, <2>2, <2>3, FirstRule
  <2>5. SqliteValues("REAL") = {"float"} BY DEF SqliteValues
  <2> QED BY <1>12, <2>4, <2>5
<1>13. CASE native = "DOUBLE"
  <2>1. SqliteKeywords["DOUBLE"] = {"DOUB"} BY DEF SqliteKeywords
  <2>2. \A j \in 1..7 : SqliteRules[j][1] \cap {"DOUB"} = {} BY <1>2
  <2>3. SqliteRules[8][1] \cap {"DOUB"} # {} /\ SqliteRules[8][2] = "real" BY <1>2
  <2>4. SqliteCanonical("DOUBLE") = "real" BY <2>1, <2>2, <2>3, FirstRule
  <2>5. SqliteValues("DOUBLE") = {"float"} BY DEF SqliteValues
  <2> QED BY <1>13, <2>4, <2>5
<1>14. CASE native = "TIMESTAMP"
  <2>1. SqliteKeywords["TIMESTAMP"] = {"TIMESTAMP", "TIME"} BY DEF SqliteKeywords
  <2>2. \A j \in 1..8 : SqliteRules[j][1] \cap {"TIMESTAMP", "TIME"} = {} BY <1>2
  <2>3. SqliteRules[9][1] \cap {"TIMESTAMP", "TIME"} # {} /\ SqliteRules[9][2] = "timestamp" BY <1>2
  <2>4. SqliteCanonical("TIMESTAMP") = "timestamp" BY <2>1, <2>2, <2>3, FirstRule
  <2>5. SqliteValues("TIMESTAMP") = {SqliteCanonical("TIMESTAMP")} BY DEF SqliteValues
  <2> QED BY <1>14, <2>4, <2>5
<1>15. CASE native = "DATETIME"
  <2>1. SqliteKeywords["DATETIME"] = {"DATETIME", "DATE", "TIME"} BY DEF SqliteKeywords
  <2>2. \A j \in 1..8 : SqliteRules[j][1] \cap {"DATETIME", "DATE", "TIME"} = {} BY <1>2
  <2>3. SqliteRules[9][1] \cap {"DATETIME", "DATE", "TIME"} # {} /\ SqliteRules[9][2] = "timestamp" BY <1>2
  <2>4. SqliteCanonical("DATETIME") = "timestamp" BY <2>1, <2>2, <2>3, FirstRule
  <2>5. SqliteValues("DATETIME") = {SqliteCanonical("DATETIME")} BY DEF SqliteValues
  <2> QED BY <1>15, <2>4, <2>5
<1>16. CASE native = "DATE"
  <2>1. SqliteKeywords["DATE"] = {"DATE"} BY DEF SqliteKeywords
  <2>2. \A j \in 1..9 : SqliteRules[j][1] \cap {"DATE"} = {} BY <1>2
  <2>3. SqliteRules[10][1] \cap {"DATE"} # {} /\ SqliteRules[10][2] = "date" BY <1>2
  <2>4. SqliteCanonical("DATE") = "date" BY <2>1, <2>2, <2>3, FirstRule
  <2>5. SqliteValues("DATE") = {SqliteCanonical("DATE")} BY DEF SqliteValues
  <2> QED BY <1>16, <2>4, <2>5
<1>17. CASE native = "TIME"
  <2>1. SqliteKeywords["TIME"] = {"TIME"} BY DEF SqliteKeywords
  <2>2. \A j \in 1..10 : SqliteRules[j][1] \cap {"TIME"} = {} BY <1>2
  <2>3. SqliteRules[11][1] \cap {"TIME"} # {} /\ SqliteRules[11][2] = "time" BY <1>2
  <2>4. SqliteCanonical("TIME") = "time" BY <2>1, <2>2, <2>3, FirstRule
  <2>5. SqliteValues("TIME") = {SqliteCanonical("TIME")} BY DEF SqliteValues
  <2> QED BY <1>17, <2>4, <2>5
<1>18. CASE native = "DECIMAL"
  <2>1. SqliteKeywords["DECIMAL"] = {"DEC"} BY DEF SqliteKeywords
  <2>2. \A j \in 1..11 : SqliteRules[j][1] \cap {"DEC"} = {} BY <1>2
  <2>3. SqliteRules[12][1] \cap {"DEC"} # {} /\ SqliteRules[12][2] = "numeric" BY <1>2
  <2>4. SqliteCanonical("DECIMAL") = "numeric" BY <2>1, <2>2, <2>3, FirstRule
  <2>5. SqliteValues("DECIMAL") = {SqliteCanonical("DECIMAL")} BY DEF SqliteValues
  <2> QED BY <1>18, <2>4, <2>5
<1>19. CASE native = "NUMERIC"
  <2>1. SqliteKeywords["NUMERIC"] = {"NUM"} BY DEF SqliteKeywords
  <2>2. \A j \in 1..11 : SqliteRules[j][1] \cap {"NUM"} = {} BY <1>2
  <2>3. SqliteRules[12][1] \cap {"NUM"} # {} /\ SqliteRules[12][2] = "numeric" BY <1>2
  <2>4. SqliteCanonical("NUMERIC") = "numeric" BY <2>1, <2>2, <2>3, FirstRule
  <2>5. SqliteValues("NUMERIC") = {SqliteCanonical("NUMERIC")} BY DEF SqliteValues
  <2> QED BY <1>19, <2>4, <2>5
<1>20. CASE native = "GEOMETRY"
  <2>1. SqliteKeywords["GEOMETRY"] = {} BY DEF SqliteKeywords
  <2>2. SqliteCanonical("GEOMETRY") = "text" BY <2>1, NoRule
  <2>3. SqliteValues("GEOMETRY") = {"short"} BY DEF SqliteValues
  <2> QED BY <1>20, <2>2, <2>3
<1> QED BY <1>1, <1>3, <1>4, <1>5, <1>6, <1>7, <1>8, <1>9, <1>10, <1>11, <1>12, <1>13, <1>14, <1>15, <1>16,
    <1>17, <1>18, <1>19, <1>20

(***************************************************************************)
(* What the planned types take.                                            *)
(***************************************************************************)
Canonicals == {"text", "varchar", "integer", "bigint", "smallint", "boolean", "real", "numeric", "uuid", "json",
    "timestamp", "timestamptz", "date", "time", "binary"}

(* What a value of a canonical type is, in whatever engine.                *)
Ordinary(k, v) ==
  \/ k = "integer" /\ v \subseteq {"i16", "i32"}
  \/ k = "bigint" /\ v \subseteq {"i64"}
  \/ k = "smallint" /\ v \subseteq {"i16"}
  \/ k = "numeric" /\ v \subseteq {"numeric", "wide_numeric"}
  \/ k = "real" /\ v \subseteq {"float"}
  \/ k = "boolean" /\ v \subseteq {"bool"}
  \/ k \in {"varchar", "text"} /\ v \subseteq {"short", "long", "wrapped"}
  \/ k \in {"uuid", "json", "timestamp", "timestamptz", "date"} /\ v \subseteq {k}
  \/ k = "time" /\ v \subseteq {"time", "long_time"}
  \/ k = "binary" /\ v \subseteq {"bytes", "long_bytes"}

(* PostgreSQL takes all of that, but for times of more than a day.         *)
LEMMA PostgresTakes ==
  ASSUME NEW k, NEW v, NEW pk, Ordinary(k, v), "long_time" \notin v
  PROVE  v \subseteq Takes("postgres", TargetType("postgres", k, pk))
<1>1. TargetType("postgres", k, pk) = PostgresType[k] BY DEF TargetType
<1>2. /\ PostgresType["text"] = "text"
      /\ PostgresType["varchar"] = "text"
      /\ PostgresType["integer"] = "integer"
      /\ PostgresType["bigint"] = "bigint"
      /\ PostgresType["smallint"] = "smallint"
      /\ PostgresType["boolean"] = "boolean"
      /\ PostgresType["real"] = "double precision"
      /\ PostgresType["numeric"] = "numeric"
      /\ PostgresType["uuid"] = "uuid"
      /\ PostgresType["json"] = "jsonb"
      /\ PostgresType["timestamp"] = "timestamp"
      /\ PostgresType["timestamptz"] = "timestamptz"
      /\ PostgresType["date"] = "date"
      /\ PostgresType["time"] = "time"
      /\ PostgresType["binary"] = "bytea"
  BY DEF PostgresType
<1>3. Takes("postgres", "text") = Textual BY DEF Takes
<1>4. Takes("postgres", "integer") = {"i16", "i32"} BY DEF Takes
<1>5. Takes("postgres", "bigint") = {"i16", "i32", "u32", "i64"} BY DEF Takes
<1>6. Takes("postgres", "smallint") = {"i16"} BY DEF Takes
<1>7. Takes("postgres", "boolean") = {"bool"} BY DEF Takes
<1>8. Takes("postgres", "double precision") = {"float"} BY DEF Takes
<1>9. Takes("postgres", "numeric") = {"numeric", "wide_numeric"} BY DEF Takes
<1>10. Takes("postgres", "uuid") = {"uuid"} BY DEF Takes
<1>11. Takes("postgres", "jsonb") = {"json", "wrapped"} BY DEF Takes
<1>12. Takes("postgres", "timestamp") = {"timestamp"} BY DEF Takes
<1>13. Takes("postgres", "timestamptz") = {"timestamp", "timestamptz"} BY DEF Takes
<1>14. Takes("postgres", "date") = {"date"} BY DEF Takes
<1>15. Takes("postgres", "time") = {"time"} BY DEF Takes
<1>16. Takes("postgres", "bytea") = {"bytes", "long_bytes"} BY DEF Takes
<1>17. CASE k = "text" BY <1>1, <1>2, <1>17, <1>3 DEF Ordinary, Textual
<1>18. CASE k = "varchar" BY <1>1, <1>2, <1>18, <1>3 DEF Ordinary, Textual
<1>19. CASE k = "integer" BY <1>1, <1>2, <1>19, <1>4 DEF Ordinary
<1>20. CASE k = "bigint" BY <1>1, <1>2, <1>20, <1>5 DEF Ordinary
<1>21. CASE k = "smallint" BY <1>1, <1>2, <1>21, <1>6 DEF Ordinary
<1>22. CASE k = "boolean" BY <1>1, <1>2, <1>22, <1>7 DEF Ordinary
<1>23. CASE k = "real" BY <1>1, <1>2, <1>23, <1>8 DEF Ordinary
<1>24. CASE k = "numeric" BY <1>1, <1>2, <1>24, <1>9 DEF Ordinary
<1>25. CASE k = "uuid" BY <1>1, <1>2, <1>25, <1>10 DEF Ordinary
<1>26. CASE k = "json" BY <1>1, <1>2, <1>26, <1>11 DEF Ordinary
<1>27. CASE k = "timestamp" BY <1>1, <1>2, <1>27, <1>12 DEF Ordinary
<1>28. CASE k = "timestamptz" BY <1>1, <1>2, <1>28, <1>13 DEF Ordinary
<1>29. CASE k = "date" BY <1>1, <1>2, <1>29, <1>14 DEF Ordinary
<1>30. CASE k = "time" BY <1>1, <1>2, <1>30, <1>15 DEF Ordinary
<1>31. CASE k = "binary" BY <1>1, <1>2, <1>31, <1>16 DEF Ordinary
<1>32. k \in Canonicals BY DEF Ordinary, Canonicals
<1> QED BY <1>32, <1>17, <1>18, <1>19, <1>20, <1>21, <1>22, <1>23, <1>24, <1>25, <1>26, <1>27, <1>28, <1>29,
    <1>30, <1>31 DEF Canonicals

(* MySQL takes less: its keys and what comes from varchar are bounded.     *)
LEMMA MysqlTakes ==
  ASSUME NEW k, NEW v, NEW pk, pk \in BOOLEAN, Ordinary(k, v), "wide_numeric" \notin v, "timestamptz" \notin v,
         pk \/ k = "varchar" => v \cap {"long", "long_bytes"} = {}
  PROVE  /\ v \subseteq Takes("mysql", TargetType("mysql", k, pk))
         /\ pk /\ k # "json" => ~NoKeyOn("mysql", TargetType("mysql", k, pk))
<1>1. TargetType("mysql", k, pk) = MysqlType(pk)[k] BY DEF TargetType
<1>2. /\ MysqlType(pk)["varchar"] = "varchar(255)"
      /\ MysqlType(pk)["integer"] = "int"
      /\ MysqlType(pk)["bigint"] = "bigint"
      /\ MysqlType(pk)["smallint"] = "smallint"
      /\ MysqlType(pk)["boolean"] = "tinyint(1)"
      /\ MysqlType(pk)["real"] = "double"
      /\ MysqlType(pk)["numeric"] = "decimal(38,10)"
      /\ MysqlType(pk)["uuid"] = "char(36)"
      /\ MysqlType(pk)["json"] = "json"
      /\ MysqlType(pk)["timestamp"] = "datetime"
      /\ MysqlType(pk)["timestamptz"] = "datetime"
      /\ MysqlType(pk)["date"] = "date"
      /\ MysqlType(pk)["time"] = "time"
      /\ MysqlType(pk)["text"] = IF pk THEN "varchar(255)" ELSE "longtext"
      /\ MysqlType(pk)["binary"] = IF pk THEN "varbinary(255)" ELSE "longblob"
  BY DEF MysqlType
<1>3. Takes("mysql", "varchar(255)") = Textual \ {"long", "json"} BY DEF Takes
<1>4. Takes("mysql", "int") = {"i16", "i32"} BY DEF Takes
<1>5. Takes("mysql", "bigint") = {"i16", "i32", "u32", "i64"} BY DEF Takes
<1>6. Takes("mysql", "smallint") = {"i16"} BY DEF Takes
<1>7. Takes("mysql", "tinyint(1)") = {"bool"} BY DEF Takes
<1>8. Takes("mysql", "double") = {"float"} BY DEF Takes
<1>9. Takes("mysql", "decimal(38,10)") = {"numeric"} BY DEF Takes
<1>10. Takes("mysql", "char(36)") = {"uuid"} BY DEF Takes
<1>11. Takes("mysql", "json") = {"json", "wrapped"} BY DEF Takes
<1>12. Takes("mysql", "datetime") = {"timestamp"} BY DEF Takes
<1>13. Takes("mysql", "date") = {"date"} BY DEF Takes
<1>14. Takes("mysql", "time") = {"time", "long_time"} BY DEF Takes
<1>15. Takes("mysql", "longtext") = Textual BY DEF Takes
<1>16. Takes("mysql", "longblob") = {"bytes", "long_bytes"} BY DEF Takes
<1>17. Takes("mysql", "varbinary(255)") = {"bytes"} BY DEF Takes
<1>18. CASE k = "text" BY <1>1, <1>2, <1>18, <1>15, <1>3 DEF Ordinary, NoKeyOn, Textual
<1>19. CASE k = "varchar" BY <1>1, <1>2, <1>19, <1>3 DEF Ordinary, NoKeyOn, Textual
<1>20. CASE k = "integer" BY <1>1, <1>2, <1>20, <1>4 DEF Ordinary, NoKeyOn
<1>21. CASE k = "bigint" BY <1>1, <1>2, <1>21, <1>5 DEF Ordinary, NoKeyOn
<1>22. CASE k = "smallint" BY <1>1, <1>2, <1>22, <1>6 DEF Ordinary, NoKeyOn
<1>23. CASE k = "boolean" BY <1>1, <1>2, <1>23, <1>7 DEF Ordinary, NoKeyOn
<1>24. CASE k = "real" BY <1>1, <1>2, <1>24, <1>8 DEF Ordinary, NoKeyOn
<1>25. CASE k = "numeric" BY <1>1, <1>2, <1>25, <1>9 DEF Ordinary, NoKeyOn
<1>26. CASE k = "uuid" BY <1>1, <1>2, <1>26, <1>10 DEF Ordinary, NoKeyOn
<1>27. CASE k = "json" BY <1>1, <1>2, <1>27, <1>11 DEF Ordinary, NoKeyOn
<1>28. CASE k = "timestamp" BY <1>1, <1>2, <1>28, <1>12 DEF Ordinary, NoKeyOn
<1>29. CASE k = "timestamptz" BY <1>1, <1>2, <1>29, <1>12 DEF Ordinary, NoKeyOn
<1>30. CASE k = "date" BY <1>1, <1>2, <1>30, <1>13 DEF Ordinary, NoKeyOn
<1>31. CASE k = "time" BY <1>1, <1>2, <1>31, <1>14 DEF Ordinary, NoKeyOn
<1>32. CASE k = "binary" BY <1>1, <1>2, <1>32, <1>16, <1>17 DEF Ordinary, NoKeyOn
<1>33. k \in Canonicals BY DEF Ordinary, Canonicals
<1> QED BY <1>33, <1>18, <1>19, <1>20, <1>21, <1>22, <1>23, <1>24, <1>25, <1>26, <1>27, <1>28, <1>29, <1>30,
    <1>31, <1>32 DEF Canonicals

(* SQLite takes everything, but for numbers that are no floats.            *)
LEMMA SqliteTakes ==
  ASSUME NEW k, k \in Canonicals, NEW v, NEW pk, v \subseteq Everything, "wide_numeric" \notin v
  PROVE  v \subseteq Takes("sqlite", TargetType("sqlite", k, pk))
<1>1. TargetType("sqlite", k, pk) = SqliteType[k] BY DEF TargetType
<1>2. SqliteType[k] \in {"INTEGER", "REAL", "NUMERIC", "BLOB", "TEXT"} BY DEF SqliteType, Canonicals
<1>3. Takes("sqlite", "INTEGER") = Everything BY DEF Takes
<1>4. Takes("sqlite", "REAL") = Everything BY DEF Takes
<1>5. Takes("sqlite", "NUMERIC") = Everything \ {"wide_numeric"} BY DEF Takes
<1>6. Takes("sqlite", "BLOB") = Everything BY DEF Takes
<1>7. Takes("sqlite", "TEXT") = Everything BY DEF Takes
<1> QED BY <1>1, <1>2, <1>3, <1>4, <1>5, <1>6, <1>7

(* Every native type has a canonical one, and values that are told apart.  *)
LEMMA TypesKnown ==
  ASSUME NEW engine \in Engines, NEW native, native \in NativeTypes(engine)
  PROVE  ToCanonical(engine, native) \in Canonicals /\ ValuesOf(engine, native) \subseteq Everything
<1>1. CASE engine = "postgres"
  <2>1. ToCanonical("postgres", native) = Lookup(PostgresNames, native) BY DEF ToCanonical
  <2>2. ValuesOf("postgres", native) = PostgresValues(native) BY DEF ValuesOf
  <2> QED BY <1>1, <2>1, <2>2, PostgresMeans DEF Canonicals, Everything, Textual
<1>2. CASE engine = "mysql"
  <2>1. ToCanonical("mysql", native) = Lookup(MysqlNames, native) BY DEF ToCanonical
  <2>2. ValuesOf("mysql", native) = MysqlValues(native) BY DEF ValuesOf
  <2>3. MysqlValues("smallint") = {"i16", "i32"} /\ MysqlValues("geometry") = {"bytes"} BY DEF MysqlValues,
      MysqlNames
  <2> QED BY <1>2, <2>1, <2>2, <2>3, MysqlMeans DEF Canonicals, Everything, Textual
<1>3. CASE engine = "sqlite"
  <2>1. ToCanonical("sqlite", native) = SqliteCanonical(native) BY DEF ToCanonical
  <2>2. ValuesOf("sqlite", native) = SqliteValues(native) BY DEF ValuesOf
  <2> QED BY <1>3, <2>1, <2>2, SqliteMeans DEF Canonicals, Everything, Textual
<1>4. CASE engine = "mongodb"
  <2>1. ToCanonical("mongodb", native) = Lookup(MongoNames, native) BY DEF ToCanonical
  <2>2. ValuesOf("mongodb", native) = MongoValues(native) BY DEF ValuesOf
  <2> QED BY <1>4, <2>1, <2>2, MongoMeans DEF Canonicals, Everything, Textual
<1> QED BY <1>1, <1>2, <1>3, <1>4 DEF Engines, SqlEngines

(* What is not lost is an ordinary value of the canonical type.            *)
LEMMA OrdinaryValues ==
  ASSUME NEW c, source.engine \in Engines, c.type \in NativeTypes(source.engine),
         spec.engine \in {"postgres", "mysql"}, ~Lost(c)
  PROVE  Ordinary(ToCanonical(source.engine, c.type), ValuesOf(source.engine, c.type))
<1> DEFINE k == ToCanonical(source.engine, c.type)
           v == ValuesOf(source.engine, c.type)
<1>0. /\ "u32" \notin v /\ "u64" \notin v /\ "bits" \notin v /\ "timetz" \notin v
      /\ "wrapped" \in v => k \in {"varchar", "text"}
      /\ source.engine = "mysql" => c.type # "smallint" /\ c.type # "geometry"
      /\ source.engine = "sqlite" => c.type # "INTEGER"
  BY DEF Lost
<1> HIDE DEF k, v
<1>1. CASE source.engine = "postgres"
  <2>1. k = Lookup(PostgresNames, c.type) BY <1>1 DEF ToCanonical, k
  <2>2. v = PostgresValues(c.type) BY <1>1 DEF ValuesOf, v
  <2>3. Ordinary(k, v) BY <1>0, <1>1, <2>1, <2>2, PostgresMeans DEF Ordinary
  <2> QED BY <2>3 DEF k, v
<1>2. CASE source.engine = "mysql"
  <2>1. k = Lookup(MysqlNames, c.type) BY <1>2 DEF ToCanonical, k
  <2>2. v = MysqlValues(c.type) BY <1>2 DEF ValuesOf, v
  <2>3. Ordinary(k, v) BY <1>0, <1>2, <2>1, <2>2, MysqlMeans DEF Ordinary
  <2> QED BY <2>3 DEF k, v
<1>3. CASE source.engine = "sqlite"
  <2>1. k = SqliteCanonical(c.type) BY <1>3 DEF ToCanonical, k
  <2>2. v = SqliteValues(c.type) BY <1>3 DEF ValuesOf, v
  <2>3. Ordinary(k, v) BY <1>0, <1>3, <2>1, <2>2, SqliteMeans DEF Ordinary
  <2> QED BY <2>3 DEF k, v
<1>4. CASE source.engine = "mongodb"
  <2>1. k = Lookup(MongoNames, c.type) BY <1>4 DEF ToCanonical, k
  <2>2. v = MongoValues(c.type) BY <1>4 DEF ValuesOf, v
  <2>3. Ordinary(k, v) BY <1>0, <1>4, <2>1, <2>2, MongoMeans DEF Ordinary
  <2> QED BY <2>3 DEF k, v
<1> QED BY <1>1, <1>2, <1>3, <1>4 DEF Engines, SqlEngines

(* So the planned column takes every value of the source column, and the   *)
(* target has a key on it if the source has.                               *)
Fits(c) ==
  LET type == TargetType(spec.engine, ToCanonical(source.engine, c.type), c.pk)
  IN  /\ ValuesOf(source.engine, c.type) \subseteq Takes(spec.engine, type)
      /\ c.pk => ~NoKeyOn(spec.engine, type)

(* A type of which nothing is lost fits.                                   *)
LEMMA TypesFit ==
  ASSUME NEW c, source.engine \in Engines, c.type \in NativeTypes(source.engine), c.pk \in BOOLEAN,
         spec.engine \in SqlEngines, ~Lost(c)
  PROVE  Fits(c)
<1> DEFINE k == ToCanonical(source.engine, c.type)
           v == ValuesOf(source.engine, c.type)
<1>1. /\ spec.engine # "postgres" => "wide_numeric" \notin v
      /\ spec.engine = "postgres" => "long_time" \notin v
      /\ spec.engine = "mysql" => /\ "timestamptz" \notin v
                                  /\ c.pk \/ k = "varchar" => v \cap {"long", "long_bytes"} = {}
                                  /\ c.pk => k # "json"
  BY DEF Lost
<1>2. k \in Canonicals /\ v \subseteq Everything BY TypesKnown
<1>3. spec.engine \in {"postgres", "mysql"} => Ordinary(k, v) BY OrdinaryValues
<1> HIDE DEF k, v
<1>4. CASE spec.engine = "postgres"
  <2>1. v \subseteq Takes("postgres", TargetType("postgres", k, c.pk)) BY <1>1, <1>3, <1>4, PostgresTakes
  <2> QED BY <1>4, <2>1 DEF Fits, NoKeyOn, k, v
<1>5. CASE spec.engine = "mysql"
  <2>1. /\ v \subseteq Takes("mysql", TargetType("mysql", k, c.pk))
        /\ c.pk => ~NoKeyOn("mysql", TargetType("mysql", k, c.pk))
    BY <1>1, <1>3, <1>5, MysqlTakes
  <2> QED BY <1>5, <2>1 DEF Fits, k, v
<1>6. CASE spec.engine = "sqlite"
  <2>1. v \subseteq Takes("sqlite", TargetType("sqlite", k, c.pk)) BY <1>1, <1>2, <1>6, SqliteTakes
  <2> QED BY <1>6, <2>1 DEF Fits, NoKeyOn, k, v
<1> QED BY <1>4, <1>5, <1>6 DEF SqlEngines

(***************************************************************************)
(* While nobody changes the databases, a table that the API accepts is     *)
(* copied, or there is a known reason why not.                             *)
(***************************************************************************)
(* The engines, the types and the values of the tables are what the        *)
(* databases make sure of.                                                 *)
TypedInv == IsTable(source) /\ IsTyped(source) /\ spec.engine \in Engines

(* For an SQL target there are pairs, and a table of somebody else has a   *)
(* column for each.                                                        *)
Sendable == ForeignNames(source.columns, spec)
PlannedInv ==
  pc \in {"preflight", "discover", "create", "count", "engine"} /\ TargetIsSql =>
    pairs # <<>> /\ \A p \in ToSet(pairs) : p.target \in Sendable

(* A target that this task created has the columns that were planned, any  *)
(* other is somebody else's; the rows go to one that exists.               *)
Planned == CreateTableSql(spec.engine, PlanTargetColumns(pairs, ListColumns, source.engine))
TableInv ==
  /\ pc \in {"discover", "create"} => TargetIsSql
  /\ pc = "create" => found = ListColumns
  /\ pc \in {"count", "engine"} /\ TargetIsSql => target.exists
  /\ ~made => target \in {NoTable} \cup ForeignTables(source.columns, spec)
  /\ made => target.columns = Planned

(* While nobody has changed the databases, and every statement means the   *)
(* tables that discovery saw.                                              *)
UInv == alters = 0 /\ ~OtherSchema => TypedInv /\ PlannedInv /\ TableInv /\ AcceptedIsCopied

(* The known reasons depend on the databases, the job and the pairs.       *)
LEMMA ReasonStays ==
  ASSUME UNCHANGED <<source, spec, pairs, target, made>>
  PROVE  KnownReason' = KnownReason
<1>1. ListColumns' = ListColumns
  BY DEF ListColumns
<1>2. Copied' = Copied
  BY DEF Copied
<1>3. \A c : Lost(c)' <=> Lost(c)
  BY DEF Lost
<1>4. (\E c \in Copied : Lost(c))' <=> \E c \in Copied : Lost(c)
  BY <1>2, <1>3
<1>5. (UnusualName' <=> UnusualName) /\ (UnquotedName' <=> UnquotedName)
  BY DEF UnusualName, UnquotedName, TargetIsSql
<1>6. OddFilter' = OddFilter /\ NoSuchField' = NoSuchField
  BY DEF OddFilter, NoSuchField
<1>7. Colliding' = Colliding /\ KeyCut' = KeyCut
  BY DEF Colliding, KeyCut
<1>8. NullInKey' = NullInKey
  BY <1>2 DEF NullInKey
<1>9. Unsampled' = Unsampled
  BY <1>1, <1>2 DEF Unsampled
<1>10. (OthersTable' <=> OthersTable) /\ (ForeignId' <=> ForeignId)
  BY DEF OthersTable, ForeignId, TargetIsSql, WholeDocument
<1>11. OtherSchema' <=> OtherSchema
  BY DEF OtherSchema
<1>12. QED
  BY <1>4, <1>5, <1>6, <1>7, <1>8, <1>9, <1>10, <1>11 DEF KnownReason

(* A discovery that fails.                                                 *)
LEMMA DiscoveryFails ==
  ASSUME TypedInv, ListColumnsRaises
  PROVE  KnownReason
<1>1. ~StrictIdent(source.table)
  BY DEF TypedInv, IsTyped, ListColumnsRaises
<1>2. UnusualName
  BY <1>1 DEF UnusualName
<1>3. QED
  BY <1>2 DEF KnownReason

(* There is a field to be discovered: of a collection the _id.             *)
LEMMA SomethingIsListed ==
  ASSUME SourceInv, TypedInv
  PROVE  ListColumns # <<>>
<1>1. CASE source.engine # "mongodb"
  BY <1>1 DEF ListColumns, TypedInv, IsTyped
<1>2. CASE source.engine = "mongodb"
  <2>1. PICK id \in ToSet(source.columns) : id.name = "_id" /\ id.pk
    BY <1>2 DEF TypedInv, IsTyped, Names
  <2>2. source.rows # <<>> => KeyNames(ListColumns) = KeyNames(source.columns)
    BY <1>2, CopyAssumption, ListedColumns DEF IsFound
  <2>3. CASE source.rows # <<>>
    <3>1. "_id" \in KeyNames(ListColumns)
      BY <2>1, <2>2, <2>3 DEF KeyNames
    <3>2. QED
      BY <3>1 DEF KeyNames, ToSet
  <2>4. CASE source.rows = <<>>
    <3> DEFINE ids == {c \in ToSet(source.columns) : c.name = "_id"}
    <3>1. Sample(source.rows) = {}
      BY <2>4, CopyAssumption DEF Sample
    <3>2. id \in ids
      BY <2>1
    <3>3. IsFiniteSet(ids)
      <4>1. IsFiniteSet(ToSet(source.columns))
        BY MembersAreFinite DEF SourceInv
      <4>2. ids \in SUBSET ToSet(source.columns)
        OBVIOUS
      <4>3. QED
        BY <4>1, <4>2, FS_Subset
    <3>4. ToSet(SetToSeq(ids)) = ids
      BY <3>3, SequenceOfSet
    <3>5. ListColumns = SetToSeq(ids)
      BY <1>2, <3>1 DEF ListColumns, SampledFields
    <3> HIDE DEF ids
    <3>6. QED
      BY <3>2, <3>4, <3>5 DEF ToSet
  <2>5. QED
    BY <2>3, <2>4
<1>3. QED
  BY <1>1, <1>2

(* The pairs that are resolved for an SQL target: at least one, and every  *)
(* target is a name that the job may send.                                 *)
LEMMA PairsResolved ==
  ASSUME CInv, TypedInv, TargetIsSql,
         NEW p, p = CASE spec.selected # <<>> -> [i \in DOMAIN spec.selected |-> Pair(spec.selected[i])]
                      [] spec.selected = <<>> /\ TargetIsSql -> [i \in DOMAIN ListColumns |-> Pair(ListColumns[i].name)]
                      [] OTHER -> <<>>
  PROVE  p # <<>> /\ \A q \in ToSet(p) : q.target \in Sendable
<1>1. \A n \in Names(source.columns) \cup ToSet(spec.selected) : Pair(n).target \in Sendable
  BY DEF Pair, Mapped, Sendable, ForeignNames
<1>2. CASE spec.selected # <<>>
  <2>1. p = [i \in DOMAIN spec.selected |-> Pair(spec.selected[i])]
    BY <1>2
  <2>2. DOMAIN spec.selected = 1..Len(spec.selected) /\ Len(spec.selected) \in Nat
    BY MembersAreFinite DEF CInv, IsAsked
  <2>3. 1 \in DOMAIN spec.selected
    BY <1>2, <2>2 DEF CInv, IsAsked
  <2>4. p # <<>>
    BY <2>1, <2>3
  <2>5. ASSUME NEW q \in ToSet(p) PROVE q.target \in Sendable
    <3>1. PICK i \in DOMAIN spec.selected : q = Pair(spec.selected[i])
      BY <2>1 DEF ToSet
    <3>2. spec.selected[i] \in ToSet(spec.selected)
      BY DEF ToSet
    <3>3. QED
      BY <1>1, <3>1, <3>2
  <2>6. QED
    BY <2>4, <2>5
<1>3. CASE spec.selected = <<>>
  <2>1. p = [i \in DOMAIN ListColumns |-> Pair(ListColumns[i].name)]
    BY <1>3
  <2>2. /\ Len(ListColumns) \in Nat /\ DOMAIN ListColumns = 1..Len(ListColumns)
        /\ \A d \in ToSet(ListColumns) : \E c \in ToSet(source.columns) : AsSeen(d, c)
    BY CopyAssumption, ListedColumns DEF CInv
  <2>3. DOMAIN ListColumns # {}
    BY SomethingIsListed, <2>2 DEF CInv
  <2>4. ASSUME NEW i \in DOMAIN ListColumns PROVE ListColumns[i].name \in Names(source.columns)
    <3>1. ListColumns[i] \in ToSet(ListColumns)
      BY DEF ToSet
    <3>2. QED
      BY <2>2, <3>1 DEF Names, AsSeen
  <2>5. p # <<>>
    BY <2>1, <2>3
  <2>6. ASSUME NEW q \in ToSet(p) PROVE q.target \in Sendable
    <3>1. PICK i \in DOMAIN ListColumns : q = Pair(ListColumns[i].name)
      BY <2>1 DEF ToSet
    <3>2. QED
      BY <1>1, <2>4, <3>1
  <2>7. QED
    BY <2>5, <2>6
<1>4. QED
  BY <1>2, <1>3

(* What is planned for a field that discovery knows.                       *)
LEMMA KnownField ==
  ASSUME SourceInv, NEW pair, NEW c \in ToSet(ListColumns), c.name = pair.source,
         NEW d, d = PlanColumn(pair, ListColumns, source.engine)
  PROVE  /\ d.name = pair.target
         /\ (d.pk <=> c.pk) /\ (d.nullable <=> c.nullable)
         /\ source.engine = "mongodb" /\ c.name = "_id" => d.canonical = "varchar"
         /\ ~(source.engine = "mongodb" /\ c.name = "_id") => d.canonical = ToCanonical(source.engine, c.type)
<1>1. IsFound(ListColumns)
  BY CopyAssumption, ListedColumns
<1>2. \A k \in ToSet(ListColumns) : k.name = pair.source => k = c
  BY <1>1 DEF IsFound
<1>3. {k \in ToSet(ListColumns) : k.name = pair.source} = {c}
  BY <1>2
<1>4. (CHOOSE k \in {c} : TRUE) = c
  OBVIOUS
<1>5. /\ d.name = pair.target /\ d.pk = ({c} # {} /\ c.pk) /\ d.nullable = ({c} = {} \/ c.nullable)
      /\ d.canonical = IF source.engine = "mongodb" /\ pair.source = "_id" THEN "varchar"
                       ELSE IF {c} = {} THEN "text" ELSE ToCanonical(source.engine, c.type)
  BY <1>3, <1>4 DEF PlanColumn
<1>6. {c} # {}
  OBVIOUS
<1>7. QED
  BY <1>5, <1>6

(* What discovery knows of a field: the column as it is, or that it is a   *)
(* field of a document other than the _id, of a type that no map names.    *)
LEMMA FieldKnown ==
  ASSUME SourceInv, TypedInv, NEW d \in ToSet(ListColumns)
  PROVE  \/ d \in ToSet(source.columns)
         \/ /\ source.engine = "mongodb" /\ d.type = "NoneType" /\ d.nullable = TRUE
            /\ \E c \in ToSet(source.columns) : d.name = c.name /\ (d.pk <=> c.pk) /\ (d.pk <=> d.name = "_id")
<1>1. PICK c \in ToSet(source.columns) : AsSeen(d, c)
  BY CopyAssumption, ListedColumns
<1>2. CASE d = c
  BY <1>2
<1>3. CASE source.engine = "mongodb" /\ d.type = "NoneType" /\ d.nullable = TRUE
  <2>1. c.pk <=> c.name = "_id"
    BY <1>3 DEF TypedInv, IsTyped
  <2>2. QED
    BY <1>1, <1>3, <2>1 DEF AsSeen
<1>4. QED
  BY <1>1, <1>2, <1>3 DEF AsSeen

(* That type stands for text.                                              *)
LEMMA NoneTypeMeans == ToCanonical("mongodb", "NoneType") = "text"
<1>1. \A c \in DOMAIN MongoNames : "NoneType" \notin MongoNames[c]
  BY DEF MongoNames
<1>2. Lookup(MongoNames, "NoneType") = "text"
  BY <1>1, Zenon DEF Lookup
<1>3. QED
  BY <1>2 DEF ToCanonical

(* Nothing is known of a field that no sampled document has.               *)
LEMMA UnknownField ==
  ASSUME NEW pair, \A c \in ToSet(ListColumns) : c.name # pair.source,
         ~(source.engine = "mongodb" /\ pair.source = "_id"),
         NEW d, d = PlanColumn(pair, ListColumns, source.engine)
  PROVE  d.name = pair.target /\ d.pk = FALSE /\ d.nullable = TRUE /\ d.canonical = "text"
<1>1. {k \in ToSet(ListColumns) : k.name = pair.source} = {}
  OBVIOUS
<1>2. QED
  BY <1>1 DEF PlanColumn

(* A column of the new table is planned for one of the pairs.              *)
PlannedFor(c, d) ==
  /\ c.name = d.name /\ (c.pk <=> d.pk) /\ (c.nullable <=> (d.nullable /\ ~d.pk))
  /\ c.type = TargetType(spec.engine, d.canonical, d.pk)

(* No column comes from elsewhere.                                         *)
LEMMA EachIsPlanned ==
  ASSUME NEW c \in Planned
  PROVE  \E p \in DOMAIN pairs : PlannedFor(c, PlanColumn(pairs[p], ListColumns, source.engine))
<1> DEFINE column(d) == [name |-> d.name, type |-> TargetType(spec.engine, d.canonical, d.pk),
                         nullable |-> d.nullable /\ ~d.pk, pk |-> d.pk]
<1>1. PICK d \in PlanTargetColumns(pairs, ListColumns, source.engine) : c = column(d)
  BY Zenon DEF Planned, CreateTableSql
<1>2. PICK p \in DOMAIN pairs : d = PlanColumn(pairs[p], ListColumns, source.engine)
  BY DEF PlanTargetColumns
<1>3. /\ column(d).name = d.name /\ column(d).pk = d.pk /\ column(d).nullable = (d.nullable /\ ~d.pk)
      /\ column(d).type = TargetType(spec.engine, d.canonical, d.pk)
  BY Zenon
<1> HIDE DEF column
<1>4. PlannedFor(c, d)
  BY <1>1, <1>3, Zenon DEF PlannedFor
<1>5. QED
  BY <1>2, <1>4

(* And without two of one target, each pair has its column.                *)
LEMMA EachHasItsColumn ==
  ASSUME DOMAIN pairs = 1..Len(pairs), Len(pairs) \in Nat, ~Colliding, NEW p \in DOMAIN pairs
  PROVE  \E c \in Planned : PlannedFor(c, PlanColumn(pairs[p], ListColumns, source.engine))
<1> DEFINE d == PlanColumn(pairs[p], ListColumns, source.engine)
<1>1. \A j \in 1..(p - 1) : pairs[j].target # pairs[p].target
  BY DEF Colliding
<1>2. d \in PlanTargetColumns(pairs, ListColumns, source.engine)
  BY <1>1 DEF PlanTargetColumns
<1> HIDE DEF d
<1> DEFINE column == [name |-> d.name, type |-> TargetType(spec.engine, d.canonical, d.pk),
                      nullable |-> d.nullable /\ ~d.pk, pk |-> d.pk]
<1>3. column \in Planned
  BY <1>2, Zenon DEF Planned, CreateTableSql
<1>4. /\ column.name = d.name /\ column.pk = d.pk /\ column.nullable = (d.nullable /\ ~d.pk)
      /\ column.type = TargetType(spec.engine, d.canonical, d.pk)
  BY Zenon
<1> HIDE DEF column
<1>5. PlannedFor(column, d)
  BY <1>4, Zenon DEF PlannedFor
<1>6. QED
  BY <1>3, <1>5 DEF d

(* A column that is copied and loses nothing has a type that fits.         *)
LEMMA CopiedFits ==
  ASSUME TypedInv, TargetIsSql, ~KnownReason, NEW c \in Copied
  PROVE  Fits(c)
<1>1. c \in ToSet(source.columns)
  BY DEF Copied
<1>2. source.engine \in Engines /\ c.type \in NativeTypes(source.engine) /\ c.pk \in BOOLEAN
  BY <1>1 DEF TypedInv, IsTyped
<1>3. spec.engine \in SqlEngines
  BY DEF TypedInv, TargetIsSql, Engines
<1>4. ~Lost(c)
  BY DEF KnownReason
<1>5. QED
  BY <1>2, <1>3, <1>4, TypesFit

(* A statement that is not built, or a table the database does not create. *)
LEMMA CreationFails ==
  ASSUME TypedInv, SourceInv, TargetIsSql, pairs # <<>>, Len(pairs) \in Nat, DOMAIN pairs = 1..Len(pairs),
         \/ DdlRaises(spec.table, PlanTargetColumns(pairs, ListColumns, source.engine))
         \/ \E c \in Planned : c.pk /\ NoKeyOn(spec.engine, c.type)
  PROVE  KnownReason
<1> SUFFICES ASSUME ~KnownReason PROVE FALSE
  OBVIOUS
<1> DEFINE plan(i) == PlanColumn(pairs[i], ListColumns, source.engine)
<1>1. ~UnusualName
  BY DEF KnownReason
<1>2. \A i \in DOMAIN pairs : plan(i).name = pairs[i].target
  BY DEF PlanColumn
<1>3. plan(1) \in PlanTargetColumns(pairs, ListColumns, source.engine)
  <2>1. 1 \in DOMAIN pairs /\ \A j \in 1..(1 - 1) : pairs[j].target # pairs[1].target
    OBVIOUS
  <2>2. QED
    BY <2>1 DEF PlanTargetColumns
<1>4. ASSUME NEW d \in PlanTargetColumns(pairs, ListColumns, source.engine) PROVE StrictIdent(d.name)
  <2>1. PICK i \in DOMAIN pairs : d = plan(i)
    BY DEF PlanTargetColumns
  <2>2. pairs[i] \in ToSet(pairs)
    BY DEF ToSet
  <2>3. StrictIdent(pairs[i].target)
    BY <1>1, <2>2 DEF UnusualName
  <2>4. QED
    BY <1>2, <2>1, <2>3
<1>5. StrictIdent(spec.table)
  BY <1>1 DEF UnusualName
<1>6. ~DdlRaises(spec.table, PlanTargetColumns(pairs, ListColumns, source.engine))
  BY <1>3, <1>4, <1>5 DEF DdlRaises
<1>7. ASSUME NEW c \in Planned, c.pk PROVE ~NoKeyOn(spec.engine, c.type)
  <2>1. PICK p \in DOMAIN pairs : PlannedFor(c, plan(p))
    BY EachIsPlanned
  <2>2. plan(p).pk /\ c.type = TargetType(spec.engine, plan(p).canonical, TRUE)
    <3>1. plan(p).pk \in BOOLEAN
      BY DEF PlanColumn
    <3>2. plan(p).pk
      BY <1>7, <2>1 DEF PlannedFor
    <3>3. QED
      BY <2>1, <3>1, <3>2, Zenon DEF PlannedFor
  <2>3. CASE source.engine = "mongodb" /\ pairs[p].source = "_id"
    <3>1. plan(p).canonical = "varchar"
      BY <2>3 DEF PlanColumn
    <3>2. c.type = MysqlType(TRUE)["varchar"] \/ spec.engine # "mysql"
      BY <2>2, <3>1 DEF TargetType
    <3>3. MysqlType(TRUE)["varchar"] = "varchar(255)"
      BY DEF MysqlType
    <3>4. QED
      BY <3>2, <3>3 DEF NoKeyOn
  <2>4. CASE ~(source.engine = "mongodb" /\ pairs[p].source = "_id")
    <3>1. PICK k \in ToSet(ListColumns) : k.name = pairs[p].source
      BY <2>2, <2>4, UnknownField
    <3>2. /\ k \in ToSet(source.columns) /\ k.pk
          /\ plan(p).canonical = ToCanonical(source.engine, k.type)
      <4>1. k.pk /\ plan(p).canonical = ToCanonical(source.engine, k.type)
        BY <2>2, <2>4, <3>1, KnownField
      <4>2. QED
        BY <2>4, <3>1, <4>1, FieldKnown
    <3>3. k \in Copied
      BY <2>4, <3>1, <3>2 DEF Copied, ToSet
    <3>4. Fits(k)
      BY <3>3, CopiedFits
    <3>5. k.pk = TRUE
      BY <3>2 DEF TypedInv, IsTyped
    <3>6. QED
      BY <2>2, <3>2, <3>4, <3>5 DEF Fits
  <2>5. QED
    BY <2>3, <2>4
<1>8. QED
  BY <1>6, <1>7

(* A column that somebody else made takes whatever a pair carries.         *)
LEMMA ForeignTakes ==
  ASSUME TypedInv, TargetIsSql, NEW p
  PROVE  Carried(p) \subseteq Takes(spec.engine, "any")
<1>1. Takes(spec.engine, "any") = Everything
  <2>1. CASE spec.engine = "sqlite"
    BY <2>1 DEF Takes
  <2>2. CASE spec.engine \in {"postgres", "mysql"}
    BY <2>2 DEF Takes
  <2>3. QED
    BY <2>1, <2>2 DEF TypedInv, TargetIsSql, Engines, SqlEngines
<1>2. {"short"} \subseteq Everything
  BY DEF Everything, Textual
<1>3. \A c \in ToSet(source.columns) : ValuesOf(source.engine, c.type) \subseteq Everything
  BY TypesKnown DEF TypedInv, IsTyped
<1>4. UNION {ValuesOf(source.engine,
    c.type) : c \in {k \in ToSet(source.columns) : k.name = p.source}} \subseteq Everything
  BY <1>3
<1>5. QED
  BY <1>1, <1>2, <1>4 DEF Carried

(* The texts that a column of unbounded text takes.                        *)
LEMMA TextTakes ==
  ASSUME spec.engine \in SqlEngines
  PROVE  /\ Textual \subseteq Takes(spec.engine, TargetType(spec.engine, "text", FALSE))
         /\ \A pk \in BOOLEAN : {"short"} \subseteq Takes(spec.engine, TargetType(spec.engine, "varchar", pk))
<1>1. CASE spec.engine = "postgres"
  <2>1. TargetType("postgres", "text", FALSE) = "text"
    BY DEF TargetType, PostgresType
  <2>2. \A pk \in BOOLEAN : TargetType("postgres", "varchar", pk) = "text"
    BY DEF TargetType, PostgresType
  <2>3. Takes("postgres", "text") = Textual
    BY DEF Takes
  <2>4. QED
    BY <1>1, <2>1, <2>2, <2>3 DEF Textual
<1>2. CASE spec.engine = "mysql"
  <2>1. TargetType("mysql", "text", FALSE) = "longtext"
    BY DEF TargetType, MysqlType
  <2>2. \A pk \in BOOLEAN : TargetType("mysql", "varchar", pk) = "varchar(255)"
    BY DEF TargetType, MysqlType
  <2>3. Takes("mysql", "longtext") = Textual /\ Takes("mysql", "varchar(255)") = Textual \ {"long", "json"}
    BY DEF Takes
  <2>4. QED
    BY <1>2, <2>1, <2>2, <2>3 DEF Textual
<1>3. CASE spec.engine = "sqlite"
  <2>1. TargetType("sqlite", "text", FALSE) = "TEXT"
    BY DEF TargetType, SqliteType
  <2>2. \A pk \in BOOLEAN : TargetType("sqlite", "varchar", pk) = "TEXT"
    BY DEF TargetType, SqliteType
  <2>3. Takes("sqlite", "TEXT") = Everything
    BY DEF Takes
  <2>4. QED
    BY <1>3, <2>1, <2>2, <2>3 DEF Textual, Everything
<1>4. QED
  BY <1>1, <1>2, <1>3 DEF SqlEngines

(* The column planned for a pair takes what the pair carries.              *)
LEMMA PlannedTakes ==
  ASSUME TypedInv, SourceInv, TargetIsSql, ~KnownReason, NEW p \in ToSet(pairs),
         NEW c, PlannedFor(c, PlanColumn(p, ListColumns, source.engine))
  PROVE  Carried(p) \subseteq Takes(spec.engine, c.type)
<1> DEFINE d == PlanColumn(p, ListColumns, source.engine)
<1>1. spec.engine \in SqlEngines
  BY DEF TypedInv, TargetIsSql, Engines
<1>2. d.pk \in BOOLEAN
  BY DEF PlanColumn
<1>3. c.type = TargetType(spec.engine, d.canonical, d.pk)
  BY DEF PlannedFor
<1>4. CASE source.engine = "mongodb" /\ p.source = "_id"
  <2>1. Carried(p) = {"short"}
    BY <1>4 DEF Carried
  <2>2. d.canonical = "varchar"
    BY <1>4 DEF PlanColumn
  <2> HIDE DEF d
  <2>3. QED
    BY <1>1, <1>2, <1>3, <2>1, <2>2, TextTakes
<1>5. CASE ~(source.engine = "mongodb" /\ p.source = "_id")
  <2>1. Carried(p) = UNION {ValuesOf(source.engine,
      k.type) : k \in {m \in ToSet(source.columns) : m.name = p.source}}
    BY <1>5 DEF Carried
  <2>2. SUFFICES ASSUME NEW k \in ToSet(source.columns), k.name = p.source
                 PROVE  ValuesOf(source.engine, k.type) \subseteq Takes(spec.engine, c.type)
    BY <2>1
  <2>3. k \in Copied
    BY <1>5, <2>2 DEF Copied
  <2>4. CASE k \in ToSet(ListColumns)
    <3>1. (d.pk <=> k.pk) /\ d.canonical = ToCanonical(source.engine, k.type)
      BY <1>5, <2>2, <2>4, KnownField
    <3>2. k.pk \in BOOLEAN
      BY DEF TypedInv, IsTyped
    <3>3. d.pk = k.pk
      BY <1>2, <3>1, <3>2
    <3>4. Fits(k)
      BY <2>3, CopiedFits
    <3> HIDE DEF d
    <3>5. QED
      BY <1>3, <3>1, <3>3, <3>4 DEF Fits
  <2>5. CASE k \notin ToSet(ListColumns)
    <3>1. source.engine = "mongodb"
      BY <2>5, CopyAssumption, ListedColumns
    <3>2. ASSUME NEW m \in ToSet(ListColumns), m.name = p.source
          PROVE  m.type = "NoneType" /\ ~m.pk
      <4>1. m \notin ToSet(source.columns)
        BY <2>2, <2>5, <3>2 DEF SourceInv
      <4>2. QED
        BY <1>5, <3>1, <3>2, <4>1, FieldKnown
    <3>3. d.pk = FALSE /\ d.canonical = "text"
      <4>1. CASE \A m \in ToSet(ListColumns) : m.name # p.source
        BY <1>5, <4>1, UnknownField
      <4>2. CASE \E m \in ToSet(ListColumns) : m.name = p.source
        <5>1. PICK m \in ToSet(ListColumns) : m.name = p.source
          BY <4>2
        <5>2. (d.pk <=> m.pk) /\ d.canonical = ToCanonical("mongodb", m.type)
          BY <1>5, <3>1, <5>1, KnownField
        <5>3. m.type = "NoneType" /\ ~m.pk
          BY <3>2, <5>1
        <5> HIDE DEF d
        <5>4. QED
          BY <1>2, <5>2, <5>3, NoneTypeMeans
      <4>3. QED
        BY <4>1, <4>2
    <3>4. ValuesOf("mongodb", k.type) \subseteq Textual
      BY <2>3, <2>5, <3>1 DEF KnownReason, Unsampled
    <3> HIDE DEF d
    <3>5. QED
      BY <1>1, <1>3, <3>1, <3>3, <3>4, TextTakes
  <2>6. QED
    BY <2>4, <2>5
<1>6. QED
  BY <1>4, <1>5

(* A row has a value for every planned column that must have one.          *)
LEMMA ValuesGiven ==
  ASSUME TypedInv, SourceInv, TargetIsSql, ~KnownReason, Len(pairs) \in Nat, DOMAIN pairs = 1..Len(pairs),
         NEW c \in Planned, c.pk \/ ~c.nullable, NEW i \in SelectedRows
  PROVE  c.name \in DOMAIN Stored(source.rows[i]) /\ Stored(source.rows[i])[c.name] # NullValue
<1>1. PICK p \in DOMAIN pairs : PlannedFor(c, PlanColumn(pairs[p], ListColumns, source.engine))
  BY EachIsPlanned
<1> DEFINE d == PlanColumn(pairs[p], ListColumns, source.engine)
<1>2. (d.pk \/ ~d.nullable) /\ c.name = pairs[p].target
  <2>1. d.name = pairs[p].target
    BY DEF PlanColumn
  <2> HIDE DEF d
  <2>2. QED
    BY <1>1, <2>1 DEF PlannedFor, d
<1>3. ~Colliding /\ ~WholeDocument
  BY DEF KnownReason, WholeDocument
<1>4. /\ c.name \in DOMAIN Stored(source.rows[i])
      /\ Stored(source.rows[i])[c.name] = Field(source.rows[i], pairs[p].source)
  BY <1>2, <1>3, StoredField
<1>5. PICK k \in ToSet(ListColumns) : k.name = pairs[p].source
  <2>1. \E k \in ToSet(ListColumns) : k.name = pairs[p].source
    <3>1. CASE \A k \in ToSet(ListColumns) : k.name # pairs[p].source
      <4>1. {k \in ToSet(ListColumns) : k.name = pairs[p].source} = {}
        BY <3>1
      <4>2. d.pk = FALSE /\ d.nullable = TRUE
        BY <4>1 DEF PlanColumn
      <4>3. QED
        BY <1>2, <4>2
    <3>2. QED
      BY <3>1
  <2>2. QED
    BY <2>1
<1>6. (d.pk <=> k.pk) /\ (d.nullable <=> k.nullable)
  BY <1>5, KnownField
<1> HIDE DEF d
<1>7. PICK m \in ToSet(source.columns) :
        m.name = pairs[p].source /\ (m.pk \/ ~m.nullable)
  <2>1. CASE k \in ToSet(source.columns)
    BY <1>2, <1>5, <1>6, <2>1
  <2>2. CASE k \notin ToSet(source.columns)
    BY <1>2, <1>5, <1>6, <2>2, FieldKnown
  <2>3. QED
    BY <2>1, <2>2
<1>8. i \in DOMAIN source.rows /\ m.name \in Names(source.columns)
  BY DEF SelectedRows, Names
<1>9. Field(source.rows[i], pairs[p].source) = source.rows[i][m.name]
  BY <1>7, <1>8 DEF Field, SourceInv
<1>10. CASE ~m.nullable
  BY <1>4, <1>8, <1>9, <1>10 DEF TypedInv, IsTyped
<1>11. CASE m.pk
  <2>1. CASE source.engine = "mongodb"
    <3>1. m.name \in KeyNames(source.columns)
      BY <1>11 DEF KeyNames
    <3>2. QED
      BY <1>4, <1>8, <1>9, <2>1, <3>1 DEF SourceInv
  <2>2. CASE source.engine # "mongodb"
    <3>1. m \in Copied
      BY <1>7, <2>2 DEF Copied, ToSet
    <3>2. QED
      BY <1>4, <1>8, <1>9, <1>11, <3>1 DEF KnownReason, NullInKey
  <2>3. QED
    BY <2>1, <2>2
<1>12. QED
  BY <1>7, <1>10, <1>11

(* A column of somebody else's table takes anything, or must be given.     *)
LEMMA ForeignColumn ==
  ASSUME NEW columns, NEW s, s.engine # "mongodb", NEW t \in ForeignTables(columns, s), NEW c \in t.columns
  PROVE  c.type = "any" \/ c.nullable = FALSE
<1> DEFINE table(k, h) == [exists |-> TRUE, columns |-> k, held |-> h]
           names == ForeignNames(columns, s)
<1>1. \/ t = table(Roomy(names, {}), {}) \/ t = table(Narrow(Names(columns)), {})
      \/ \E n \in names, rows \in {{}, {[m \in names |-> 1]}} : t = table(Roomy(names, {n}), rows)
  BY DEF ForeignTables
<1>2. \A k, h : table(k, h).columns = k
  BY Zenon
<1> HIDE DEF table
<1> HIDE DEF names
<1>3. t.columns = Narrow(Names(columns)) \/ \E key : t.columns = Roomy(names, key)
  <2>1. CASE t = table(Roomy(names, {}), {})
    BY <1>2, <2>1, Zenon
  <2>2. CASE t = table(Narrow(Names(columns)), {})
    BY <1>2, <2>2, Zenon
  <2>3. CASE \E n \in names, rows \in {{}, {[m \in names |-> 1]}} : t = table(Roomy(names, {n}), rows)
    <3>1. PICK n \in names, rows \in {{}, {[m \in names |-> 1]}} : t = table(Roomy(names, {n}), rows)
      BY <2>3, Zenon
    <3>2. QED
      BY <1>2, <3>1, Zenon
  <2>4. QED
    BY <1>1, <2>1, <2>2, <2>3, Zenon
<1>4. CASE t.columns = Narrow(Names(columns))
  BY <1>4 DEF Narrow
<1>5. CASE \E key : t.columns = Roomy(names, key)
  BY <1>5 DEF Roomy
<1>6. QED
  BY <1>3, <1>4, <1>5

(* Without a reason, a row fits the table, and there is a column for each  *)
(* of its fields.                                                          *)
LEMMA RowsFit ==
  ASSUME CInv, TypedInv, TableInv, PlannedInv, TargetIsSql, pc = "engine", ~KnownReason
  PROVE  /\ \A p \in ToSet(pairs) : p.target \in {c.name : c \in target.columns}
         /\ \A i \in SelectedRows : ~Unfit(Sent(i))
<1>1. /\ target.exists /\ pairs # <<>> /\ ~Colliding /\ ~WholeDocument
      /\ made => target.columns = Planned
      /\ ~made => target \in ForeignTables(source.columns, spec)
      /\ SourceInv /\ Len(pairs) \in Nat /\ DOMAIN pairs = 1..Len(pairs)
  BY DEF TableInv, PlannedInv, KnownReason, WholeDocument, CInv, PairsInv, NoTable
<1>2. ASSUME ~made
      PROVE  /\ \A c \in target.columns : c.type = "any" /\ c.nullable
             /\ \A p \in ToSet(pairs) : p.target \in {c.name : c \in target.columns}
  <2>1. ~OthersTable
    BY DEF KnownReason
  <2>2. \A c \in target.columns : c.type = "any" \/ c.nullable = FALSE
    BY <1>1, <1>2, ForeignColumn DEF TargetIsSql
  <2>3. QED
    BY <1>1, <1>2, <2>1, <2>2 DEF OthersTable
<1>3. ASSUME NEW p \in ToSet(pairs) PROVE p.target \in {c.name : c \in target.columns}
  <2>1. CASE made
    <3>1. PICK i \in DOMAIN pairs : p = pairs[i]
      BY DEF ToSet
    <3>2. PICK c \in Planned : PlannedFor(c, PlanColumn(pairs[i], ListColumns, source.engine))
      BY <1>1, EachHasItsColumn
    <3>3. c.name = p.target
      BY <3>1, <3>2 DEF PlannedFor, PlanColumn
    <3>4. QED
      BY <1>1, <2>1, <3>3
  <2>2. CASE ~made
    BY <1>2, <2>2
  <2>3. QED
    BY <2>1, <2>2
<1>4. ASSUME NEW c \in target.columns, NEW p \in ToSet(pairs), p.target = c.name
      PROVE  Carried(p) \subseteq Takes(spec.engine, c.type)
  <2>1. CASE made
    <3>1. PICK i \in DOMAIN pairs : p = pairs[i]
      BY DEF ToSet
    <3>2. PICK j \in DOMAIN pairs : PlannedFor(c, PlanColumn(pairs[j], ListColumns, source.engine))
      BY <1>1, <2>1, EachIsPlanned
    <3>3. c.name = pairs[j].target
      BY <3>2 DEF PlannedFor, PlanColumn
    <3>4. i = j
      BY <1>1, <1>4, <3>1, <3>3 DEF Colliding
    <3>5. QED
      BY <1>1, <3>1, <3>2, <3>4, PlannedTakes
  <2>2. CASE ~made
    BY <1>2, <2>2, ForeignTakes
  <2>3. QED
    BY <2>1, <2>2
<1>5. ASSUME NEW c \in target.columns, ~c.nullable, NEW i \in SelectedRows
      PROVE  Field(Sent(i), c.name) # NullValue
  <2>1. made
    BY <1>2, <1>5
  <2>2. c.name \in DOMAIN Stored(source.rows[i]) /\ Stored(source.rows[i])[c.name] # NullValue
    BY <1>1, <1>5, <2>1, ValuesGiven
  <2>3. QED
    BY <2>2 DEF Field, Sent
<1>6. \A i \in SelectedRows : ~Unfit(Sent(i))
  BY <1>4, <1>5 DEF Unfit, Suits
<1>7. QED
  BY <1>3, <1>6

(* Two documents that are sent have not the same _id.                      *)
LEMMA IdsStayApart ==
  ASSUME CInv, TypedInv, ~TargetIsSql, ~KnownReason, NEW i \in SelectedRows, NEW j \in SelectedRows
  PROVE  ~AtOdds(i, j)
<1> SUFFICES ASSUME i # j, SameKey(Sent(i), Sent(j)) PROVE FALSE
  BY DEF AtOdds
<1>1. "_id" \in DOMAIN Sent(i) /\ "_id" \in DOMAIN Sent(j) /\ Sent(i)["_id"] = Sent(j)["_id"]
  BY DEF SameKey, Keys
<1>2. ~ForeignId /\ ~Colliding
  BY DEF KnownReason
<1>3. i \in DOMAIN source.rows /\ j \in DOMAIN source.rows
  BY DEF SelectedRows
<1>4. \A k \in DOMAIN source.rows : DOMAIN source.rows[k] = Names(source.columns)
  BY DEF TypedInv, IsTable
<1>5. ASSUME source.engine = "mongodb" PROVE source.rows[i]["_id"] # source.rows[j]["_id"]
  <2>1. PICK c \in ToSet(source.columns) : c.name = "_id" /\ c.pk
    BY <1>5 DEF TypedInv, IsTyped, Names
  <2>2. "_id" \in KeyNames(source.columns)
    BY <2>1 DEF KeyNames
  <2>3. \A n \in KeyNames(source.columns) : n = "_id"
    BY <1>5 DEF TypedInv, IsTyped, KeyNames
  <2>4. QED
    BY <1>3, <1>5, <2>2, <2>3 DEF CInv, SourceInv
<1>6. CASE WholeDocument
  <2>1. Sent(i) = source.rows[i] /\ Sent(j) = source.rows[j]
    BY <1>6 DEF Sent, Stored
  <2>2. "_id" \in Names(source.columns)
    BY <1>1, <1>3, <1>4, <2>1
  <2>3. QED
    BY <1>1, <1>2, <1>5, <1>6, <2>1, <2>2 DEF ForeignId
<1>7. CASE ~WholeDocument
  <2>1. "_id" \in {p.target : p \in ToSet(pairs)}
    <3>1. DOMAIN Stored(source.rows[i]) = {p.target : p \in ToSet(pairs)}
      BY <1>7 DEF Stored
    <3>2. QED
      BY <1>1, <3>1 DEF Sent
  <2>2. PICK p \in DOMAIN pairs : pairs[p].target = "_id"
    BY <2>1 DEF ToSet
  <2>3. pairs[p] \in ToSet(pairs)
    BY DEF ToSet
  <2>4. source.engine = "mongodb" /\ pairs[p].source = "_id"
    BY <1>2, <2>2, <2>3 DEF ForeignId
  <2>5. "_id" \in Names(source.columns)
    BY <2>4 DEF TypedInv, IsTyped
  <2>6. \A k \in {i, j} : Sent(k)["_id"] = source.rows[k]["_id"]
    <3>1. \A k \in {i, j} : Stored(source.rows[k])["_id"] = Field(source.rows[k], "_id")
      BY <1>2, <1>7, <2>2, <2>4, StoredField DEF CInv, PairsInv
    <3>2. QED
      BY <1>3, <1>4, <2>5, <3>1 DEF Field, Sent
  <2>7. QED
    BY <1>1, <1>5, <2>4, <2>6
<1>8. QED
  BY <1>6, <1>7

(* Without a reason nothing keeps the engine from inserting every row.     *)
LEMMA NothingIsRefused ==
  ASSUME CInv, TypedInv, TableInv, PlannedInv, pc = "engine", ~KnownReason
  PROVE  /\ ~InsertRefused
         /\ \A i \in SelectedRows : /\ ~Unfit(Sent(i)) /\ ~HeldAlready(i)
                                     /\ \A j \in SelectedRows : ~AtOdds(i, j)
<1>1. ~KeyCut /\ ~Colliding /\ ~UnquotedName /\ ~OthersTable /\ ~ForeignId
  BY DEF KnownReason
<1>2. CASE TargetIsSql
  <2>1. /\ \A p \in ToSet(pairs) : p.target \in {c.name : c \in target.columns}
        /\ \A i \in SelectedRows : ~Unfit(Sent(i))
    BY <1>2, RowsFit
  <2>2. target.exists /\ pairs # <<>>
    BY <1>2 DEF TableInv, PlannedInv
  <2>3. CASE made
    <3>1. \A i \in SelectedRows : ~HeldAlready(i)
      BY <2>3 DEF HeldAlready, CInv, TargetInv
    <3>2. \A i, j \in SelectedRows : ~AtOdds(i, j)
      BY <1>1, <1>2, <2>3, KeysStayApart DEF TypedInv, IsTyped
    <3>3. ~InsertRefused
      BY <1>1, <1>2, <2>1, <2>2, <3>1, <3>2 DEF InsertRefused, UnquotedName
    <3>4. QED
      BY <2>1, <3>1, <3>2, <3>3
  <2>4. CASE ~made
    <3>1. Keys = {}
      BY <1>1, <1>2, <2>2, <2>4 DEF OthersTable, Keys
    <3>2. \A i, j : ~AtOdds(i, j)
      BY <3>1 DEF AtOdds, SameKey
    <3>3. \A i : ~HeldAlready(i)
      BY <3>1 DEF HeldAlready, SameKey
    <3>4. ~InsertRefused
      BY <1>1, <1>2, <2>1, <2>2, <3>2, <3>3 DEF InsertRefused, UnquotedName
    <3>5. QED
      BY <2>1, <3>2, <3>3, <3>4
  <2>5. QED
    BY <2>3, <2>4
<1>3. CASE ~TargetIsSql
  <2>1. \A i : ~Unfit(Sent(i))
    BY <1>3 DEF Unfit
  <2>2. \A i : ~HeldAlready(i)
    BY <1>1, <1>3 DEF HeldAlready, ForeignId
  <2>3. \A i, j \in SelectedRows : ~AtOdds(i, j)
    BY <1>3, IdsStayApart
  <2>4. ~InsertRefused
    BY <1>3, <2>1, <2>2, <2>3 DEF InsertRefused
  <2>5. QED
    BY <2>1, <2>2, <2>3, <2>4
<1>4. QED
  BY <1>2, <1>3

(* A condition that cannot be rendered, or that the database refuses.      *)
LEMMA FilterFails ==
  ASSUME WellFormed(spec.filters), FilterRaises(spec.filters) \/ FilterRefused(spec.filters,
      RenderEngineSql(spec.filters), "?")
  PROVE  OddFilter
<1> DEFINE f == spec.filters
<1>1. CASE source.engine = "mongodb"
  <2>1. CASE MongoRaises(f)
    BY <2>1 DEF MongoRaises, OddFilter
  <2>2. CASE MongoRefuses(RenderMongo(f))
    BY <2>2 DEF MongoRefuses, RenderMongo, OddFilter
  <2>3. QED
    BY <1>1, <2>1, <2>2 DEF FilterRaises, FilterRefused
<1>2. CASE source.engine # "mongodb"
  <2>1. CASE SqlRaises(f)
    BY <2>1 DEF SqlRaises, OddFilter
  <2>2. ~SqlRefuses(RenderEngineSql(f), "?")
    BY DEF SqlRefuses, RenderEngineSql, RenderSql
  <2>3. CASE \E i \in DOMAIN f : f[i].column \notin Names(source.columns)
    BY <1>2, <2>3 DEF OddFilter
  <2>4. QED
    BY <1>2, <2>1, <2>2, <2>3 DEF FilterRaises, FilterRefused
<1>3. QED
  BY <1>1, <1>2

(* A configuration that is not rendered, and a query that is refused.      *)
LEMMA InputFails ==
  ASSUME WellFormed(spec.filters), TypedInv, RenderRaises \/ InputRefused
  PROVE  KnownReason
<1> SUFFICES ASSUME ~KnownReason PROVE FALSE
  OBVIOUS
<1>1. ~UnusualName /\ ~OddFilter /\ ~NoSuchField /\ ~UnquotedName /\ ~OtherSchema
  BY DEF KnownReason
<1>2. ~FilterRaises(spec.filters) /\ ~FilterRefused(spec.filters, RenderEngineSql(spec.filters), "?")
  BY <1>1, FilterFails
<1>3. \A p \in ToSet(pairs) : SafeIdent(p.source) /\ SafeIdent(p.target)
  BY <1>1 DEF UnusualName, StrictIdent, SafeIdent
<1>4. ~RenderRaises
  BY <1>2, <1>3 DEF RenderRaises
<1>5. ~InputRefused
  BY <1>1, <1>2 DEF InputRefused, NoSuchField, UnquotedName, OtherSchema, SourceUnread, TypedInv, IsTyped
<1>6. QED
  BY <1>4, <1>5

(***************************************************************************)
(* Every step keeps it.                                                    *)
(***************************************************************************)

(* Jobs are tables as databases keep them.                                 *)
LEMMA InitUnaltered == Init => UInv
<1> SUFFICES ASSUME Init PROVE UInv
  OBVIOUS
<1>1. PICK job \in Jobs :
        /\ source = job.source /\ spec = job.spec
        /\ target \in {NoTable} \cup ForeignTables(job.source.columns, job.spec)
  BY DEF Init
<1>2. pc = "submitted" /\ result = "none"
  BY DEF Init
<1>3. TypedInv
  BY <1>1, JobsAssumption, TypesAssumption DEF TypedInv
<1>4. made = FALSE
  BY DEF Init
<1>5. QED
  BY <1>1, <1>2, <1>3, <1>4 DEF UInv, PlannedInv, TableInv, AcceptedIsCopied

(* A table that nobody touches stays as the databases keep it.             *)
LEMMA TypedStays ==
  ASSUME UNCHANGED <<source, spec>>
  PROVE  /\ TypedInv' = TypedInv /\ TargetIsSql' = TargetIsSql /\ ListColumns' = ListColumns
         /\ Sendable' = Sendable
         /\ ForeignTables(source.columns, spec)' = ForeignTables(source.columns, spec)
         /\ (OtherSchema' <=> OtherSchema)
         /\ pairs' = pairs => Planned' = Planned
<1>1. TypedInv' = TypedInv
  BY DEF TypedInv
<1>2. TargetIsSql' = TargetIsSql /\ ListColumns' = ListColumns
  BY DEF TargetIsSql, ListColumns
<1>3. Sendable' = Sendable
  BY DEF Sendable, ForeignNames
<1>4. OtherSchema' <=> OtherSchema
  BY DEF OtherSchema
<1>5. QED
  BY <1>1, <1>2, <1>3, <1>4 DEF Planned

(* The end with a result for which there is a reason, or without any.      *)
LEMMA EndsForAReason ==
  ASSUME UInv, alters = 0, ~OtherSchema,
         KnownReason \/ (result' = "target_missing" /\ ~spec.create) \/ result' = "refused",
         pc' = "ended", UNCHANGED <<source, spec, target, pairs, made>>
  PROVE  UInv'
<1>1. TypedInv' /\ PlannedInv'
  BY TypedStays DEF UInv, PlannedInv
<1>2. TableInv'
  BY TypedStays DEF UInv, TableInv
<1>3. AcceptedIsCopied'
  BY ReasonStays DEF AcceptedIsCopied
<1>4. QED
  BY <1>1, <1>2, <1>3 DEF UInv

(* Before the end nothing has failed.                                      *)
LEMMA NothingYet == CInv' /\ pc' # "ended" => AcceptedIsCopied'
  BY DEF CInv, TypeOK, AcceptedIsCopied

(* What the owners change ends what is said.                               *)
LEMMA AlteringUnaltered == CInv /\ Altering => UInv'
  BY DEF Altering, CInv, TypeOK, UInv

(* The API takes a table, or refuses it.                                   *)
LEMMA AcceptUnaltered == CInv /\ UInv /\ CInv' /\ (Accept \/ Refuse) => UInv'
<1> SUFFICES ASSUME CInv, UInv, CInv', alters = 0, ~OtherSchema, Accept \/ Refuse PROVE UInv'
  BY TypedStays DEF UInv, Accept, Refuse
<1>1. CASE Accept
  <2>1. pc' = "resolve" /\ UNCHANGED <<source, spec, target, pairs, made>>
    BY <1>1 DEF Accept
  <2>2. TypedInv' /\ PlannedInv' /\ TableInv'
    BY <2>1, TypedStays DEF UInv, PlannedInv, TableInv
  <2>3. QED
    BY <2>1, <2>2, NothingYet DEF UInv
<1>2. CASE Refuse
  BY <1>2, EndsForAReason DEF Refuse, End
<1>3. QED
  BY <1>1, <1>2

(* The fields are resolved.                                                *)
LEMMA ResolveUnaltered == CInv /\ UInv /\ CInv' /\ ResolveFieldPairs => UInv'
<1> SUFFICES ASSUME CInv, UInv, CInv', alters = 0, ~OtherSchema, ResolveFieldPairs PROVE UInv'
  BY TypedStays DEF UInv, ResolveFieldPairs
<1>0. ~made /\ UNCHANGED <<source, spec, target, made>>
  BY DEF CInv, TargetInv, ResolveFieldPairs
<1>1. CASE spec.selected = <<>> /\ TargetIsSql /\ ListColumnsRaises
  <2>1. pc' = "ended" /\ UNCHANGED pairs
    BY <1>1 DEF ResolveFieldPairs, End
  <2>2. KnownReason
    BY <1>1, DiscoveryFails DEF UInv
  <2>3. QED
    BY <1>0, <2>1, <2>2, EndsForAReason
<1>2. CASE ~(spec.selected = <<>> /\ TargetIsSql /\ ListColumnsRaises)
  <2>1. /\ pairs' = CASE spec.selected # <<>> -> [i \in DOMAIN spec.selected |-> Pair(spec.selected[i])]
                      [] spec.selected = <<>> /\ TargetIsSql -> [i \in DOMAIN ListColumns |-> Pair(ListColumns[i].name)]
                      [] OTHER -> <<>>
        /\ pc' = "preflight"
    BY <1>2 DEF ResolveFieldPairs
  <2>2. TargetIsSql => pairs' # <<>> /\ \A q \in ToSet(pairs') : q.target \in Sendable
    BY <2>1, PairsResolved DEF UInv
  <2>3. TypedInv' /\ PlannedInv' /\ TableInv'
    BY <1>0, <2>1, <2>2, TypedStays DEF UInv, PlannedInv, TableInv
  <2>4. QED
    BY <2>1, <2>3, NothingYet DEF UInv
<1>3. QED
  BY <1>1, <1>2

(* The target is looked for.                                               *)
LEMMA PreflightUnaltered == CInv /\ UInv /\ CInv' /\ Preflight => UInv'
<1> SUFFICES ASSUME CInv, UInv, CInv', alters = 0, ~OtherSchema, Preflight PROVE UInv'
  BY TypedStays DEF UInv, Preflight
<1>0. UNCHANGED <<source, spec, target, pairs, found, made>> /\ TableExists = {target.exists}
  BY DEF Preflight, TableExists, OtherSchema
<1>1. CASE pc' = "count" /\ (~TargetIsSql \/ target.exists)
  <2>1. TypedInv' /\ PlannedInv' /\ TableInv'
    BY <1>0, <1>1, TypedStays DEF UInv, PlannedInv, TableInv, Preflight
  <2>2. QED
    BY <1>1, <2>1, NothingYet DEF UInv
<1>2. CASE pc' = "discover" /\ TargetIsSql
  <2>1. TypedInv' /\ PlannedInv' /\ TableInv'
    BY <1>0, <1>2, TypedStays DEF UInv, PlannedInv, TableInv, Preflight
  <2>2. QED
    BY <1>2, <2>1, NothingYet DEF UInv
<1>3. CASE TargetIsSql /\ TableExistsRaises
  <2>1. pc' = "ended"
    BY <1>3 DEF Preflight, End
  <2>2. UnusualName
    BY <1>3 DEF TableExistsRaises, UnusualName
  <2>3. KnownReason
    BY <2>2 DEF KnownReason
  <2>4. QED
    BY <1>0, <2>1, <2>3, EndsForAReason
<1>4. CASE TargetIsSql /\ End("target_missing") /\ ~(spec.create /\ pairs # <<>>)
  <2>1. pairs # <<>>
    BY <1>4 DEF UInv, PlannedInv, Preflight
  <2>2. pc' = "ended" /\ result' = "target_missing" /\ ~spec.create
    BY <1>4, <2>1 DEF End
  <2>3. QED
    BY <1>0, <2>2, EndsForAReason
<1>5. TargetIsSql /\ ~TableExistsRaises =>
        \/ TRUE \in {target.exists} /\ pc' = "count"
        \/ FALSE \in {target.exists} /\ IF spec.create /\ pairs # <<>> THEN pc' = "discover" ELSE End("target_missing")
  BY <1>0 DEF Preflight
<1>6. ~TargetIsSql => pc' = "count"
  BY DEF Preflight
<1>7. QED
  BY <1>1, <1>2, <1>3, <1>4, <1>5, <1>6

(* The columns are read for the DDL.                                       *)
LEMMA DiscoverUnaltered == CInv /\ UInv /\ CInv' /\ Discover => UInv'
<1> SUFFICES ASSUME CInv, UInv, CInv', alters = 0, ~OtherSchema, Discover PROVE UInv'
  BY TypedStays DEF UInv, Discover
<1>0. UNCHANGED <<source, spec, target, pairs, made>>
  BY DEF Discover
<1>1. CASE ListColumnsRaises
  <2>1. pc' = "ended"
    BY <1>1 DEF Discover, End
  <2>2. KnownReason
    BY <1>1, DiscoveryFails DEF UInv
  <2>3. QED
    BY <1>0, <2>1, <2>2, EndsForAReason
<1>2. CASE ~ListColumnsRaises
  <2>1. found' = ListColumns /\ pc' = "create"
    BY <1>2 DEF Discover
  <2>2. TypedInv' /\ PlannedInv' /\ TableInv'
    BY <1>0, <2>1, TypedStays DEF UInv, PlannedInv, TableInv, Discover
  <2>3. QED
    BY <2>1, <2>2, NothingYet DEF UInv
<1>3. QED
  BY <1>1, <1>2

(* The target is created with the planned columns, or somebody else's is   *)
(* taken.                                                                  *)
LEMMA CreateTableUnaltered == CInv /\ UInv /\ CInv' /\ CreateTable => UInv'
<1> SUFFICES ASSUME CInv, UInv, CInv', alters = 0, ~OtherSchema, CreateTable PROVE UInv'
  BY TypedStays DEF UInv, CreateTable
<1>0. /\ ~made /\ found = ListColumns /\ pc = "create" /\ TargetIsSql
      /\ UNCHANGED <<source, spec, pairs>>
  BY DEF UInv, TableInv, CInv, TargetInv, CreateTable
<1> DEFINE defs == PlanTargetColumns(pairs, found, source.engine)
           raises == DdlRaises(spec.table, defs) \/ \E c \in Planned : c.pk /\ NoKeyOn(spec.engine, c.type)
<1>1. CreateTableSql(spec.engine, defs) = Planned
  BY <1>0 DEF Planned
<1>2. CASE raises
  <2>1. pc' = "ended" /\ UNCHANGED <<target, made>>
    BY <1>1, <1>2 DEF CreateTable, End
  <2>2. KnownReason
    BY <1>0, <1>2, CreationFails DEF UInv, PlannedInv, CInv, PairsInv
  <2>3. QED
    BY <1>0, <2>1, <2>2, EndsForAReason
<1>3. CASE ~raises
  <2>1. ExecuteDdl(Planned) /\ pc' = "count"
    BY <1>1, <1>3 DEF CreateTable
  <2>2. /\ target'.exists
        /\ ~made' => target' = target
        /\ made' => target'.columns = Planned
    <3>1. CASE target.exists
      BY <1>0, <2>1, <3>1 DEF ExecuteDdl
    <3>2. CASE ~target.exists
      <4>1. target' = [exists |-> TRUE, columns |-> Planned, held |-> {}] /\ made' = TRUE
        BY <2>1, <3>2 DEF ExecuteDdl
      <4>2. QED
        BY <4>1
    <3>3. QED
      BY <3>1, <3>2
  <2>3. TypedInv' /\ PlannedInv' /\ TableInv'
    BY <1>0, <2>1, <2>2, TypedStays DEF UInv, PlannedInv, TableInv
  <2>4. QED
    BY <2>1, <2>3, NothingYet DEF UInv
<1>4. QED
  BY <1>2, <1>3

(* The rows are counted.                                                   *)
LEMMA CountUnaltered == CInv /\ UInv /\ CInv' /\ Count => UInv'
<1> SUFFICES ASSUME CInv, UInv, CInv', alters = 0, ~OtherSchema, Count PROVE UInv'
  BY TypedStays DEF UInv, Count
<1>1. pc = "count" /\ pc' = "engine" /\ UNCHANGED <<source, spec, target, pairs, found, made>>
  BY DEF Count
<1>2. TypedInv' /\ PlannedInv' /\ TableInv'
  BY <1>1, TypedStays DEF UInv, PlannedInv, TableInv
<1>3. QED
  BY <1>1, <1>2, NothingYet DEF UInv

(* If nothing keeps a row from being inserted, all of them are.            *)
LEMMA AllInserted ==
  ASSUME \A i \in SelectedRows : /\ ~Unfit(Sent(i)) /\ ~HeldAlready(i)
                                 /\ \A j \in SelectedRows : ~AtOdds(i, j),
         NEW rows, IsCopy(rows)
  PROVE  \A i \in SelectedRows : <<i, Sent(i)>> \in rows
<1>1. PICK stored \in SUBSET SelectedRows :
        Inserted(stored) /\ rows = {<<i, Adjusted(Sent(i))>> : i \in stored}
  BY DEF IsCopy
<1>2. \A i \in SelectedRows : ~LeftOut(i, stored)
  BY DEF LeftOut
<1>3. stored = SelectedRows
  BY <1>1, <1>2 DEF Inserted
<1>4. \A i \in SelectedRows : Adjusted(Sent(i)) = Sent(i)
  BY DEF Adjusted
<1>5. QED
  BY <1>1, <1>3, <1>4

(* The rows are copied, or there is a reason.                              *)
LEMMA RunEngineUnaltered == CInv /\ UInv /\ RunEngine => UInv'
<1> SUFFICES ASSUME CInv, UInv, alters = 0, ~OtherSchema, RunEngine PROVE UInv'
  BY TypedStays DEF UInv, RunEngine
<1>1. pc = "engine" /\ pc' = "ended" /\ UNCHANGED <<source, spec, target, pairs, made>>
  BY DEF RunEngine, End
<1>2. CASE KnownReason
  BY <1>1, <1>2, EndsForAReason
<1>3. CASE ~KnownReason
  <2>1. ~RenderRaises /\ ~InputRefused
    BY <1>3, InputFails DEF UInv, CInv, IsAsked
  <2>2. /\ ~InsertRefused
        /\ \A i \in SelectedRows : /\ ~Unfit(Sent(i)) /\ ~HeldAlready(i)
                                    /\ \A j \in SelectedRows : ~AtOdds(i, j)
    BY <1>1, <1>3, NothingIsRefused DEF UInv
  <2>3. IsCopy(written') /\ result' = "ok"
    BY <2>1, <2>2 DEF RunEngine, End, IsCopy
  <2>4. \A i \in SelectedRows : <<i, Sent(i)>> \in written'
    BY <2>2, <2>3, AllInserted
  <2>5. SelectedRows' = SelectedRows /\ \A i : Sent(i)' = Sent(i)
    BY <1>1, SelectionStays DEF Sent, Stored, WholeDocument, TargetIsSql, SelectLastInSeq
  <2>6. AcceptedIsCopied'
    BY <2>3, <2>4, <2>5 DEF AcceptedIsCopied
  <2>7. TypedInv' /\ PlannedInv' /\ TableInv'
    BY <1>1, TypedStays DEF UInv, PlannedInv, TableInv
  <2>8. QED
    BY <2>6, <2>7 DEF UInv
<1>4. QED
  BY <1>2, <1>3

(* Nothing changes.                                                        *)
LEMMA StutterUnaltered == CInv /\ UInv /\ UNCHANGED vars => UInv'
<1> SUFFICES ASSUME UInv, alters = 0, ~OtherSchema, UNCHANGED vars PROVE UInv'
  BY TypedStays DEF UInv, vars
<1>1. UNCHANGED <<source, spec, target, pc, pairs, found, result, alters, made, written>>
  BY DEF vars
<1>2. TypedInv' /\ PlannedInv' /\ TableInv'
  BY <1>1, TypedStays DEF UInv, PlannedInv, TableInv
<1>3. SelectedRows' = SelectedRows /\ \A i : Sent(i)' = Sent(i)
  BY <1>1, SelectionStays DEF Sent, Stored, WholeDocument, TargetIsSql, SelectLastInSeq
<1>4. AcceptedIsCopied'
  BY <1>1, <1>3, ReasonStays DEF UInv, AcceptedIsCopied
<1>5. QED
  BY <1>2, <1>4 DEF UInv

(* A table that the API accepts is copied, every selected row as it was    *)
(* sent, or there is one of the reasons that KnownReason names, or the     *)
(* target is not there and nobody asked for it to be created: what         *)
(* ddl_generator.py plans takes what the source has, for every pair of     *)
(* engines and every type of their maps.                                   *)
THEOREM AcceptedTablesAreCopied == Spec => []AcceptedIsCopied
<1>1. Init => UInv
  BY InitUnaltered
<1>2. CInv /\ UInv /\ CInv' /\ [Next]_vars => UInv'
  BY AcceptUnaltered, ResolveUnaltered, PreflightUnaltered, DiscoverUnaltered, CreateTableUnaltered,
     CountUnaltered, RunEngineUnaltered, AlteringUnaltered, StutterUnaltered DEF Next, DropSource, CreateElsewhere
<1>3. UInv => AcceptedIsCopied
  BY DEF UInv, AcceptedIsCopied, KnownReason
<1>4. QED
  BY <1>1, <1>2, <1>3, CopyInvariance, PTL DEF Spec
================================================================================
