---------------------------- MODULE EditsProofs ----------------------------
(***************************************************************************)
(* What the proof system checks of Edits, for any text and any number of   *)
(* edits: looking for conflicts between neighbours finds every conflict,   *)
(* and one pass with a cursor writes what the edits mean.                  *)
(***************************************************************************)
EXTENDS Edits, SequenceTheorems, FiniteSetTheorems, TLAPS

(***************************************************************************)
(* The conflict question of celerrate_edit.                                *)
(***************************************************************************)

\* A set of edits as a plan holds it: finitely many ranges, no two of them the
\* same position of the same fix.
EditSet(set) ==
    /\ IsFiniteSet(set)
    /\ \A e \in set : Ranged(e) /\ Placed(e)
    /\ \A e, g \in set : e.fix = g.fix /\ e.place = g.place => e = g

Between(set, e, g) == {x \in set : Before(e, x) /\ Before(x, g)}

\* The order of a plan's edits is a strict total one.
LEMMA BeforeIsTotal ==
    ASSUME NEW set, EditSet(set)
    PROVE  /\ \A e \in set : ~Before(e, e)
           /\ \A e, g \in set : e # g => Before(e, g) \/ Before(g, e)
           /\ \A e, g, h \in set : Before(e, g) /\ Before(g, h) => Before(e, h)
<1>1. \A e \in set : /\ e.start \in Nat /\ e.end \in Nat
                       /\ e.fix \in Nat /\ e.place \in Nat
  BY DEF EditSet, Ranged, Placed
<1>2. \A e \in set : ~Before(e, e)
  BY <1>1 DEF Before
<1>3. \A e, g \in set : e # g => Before(e, g) \/ Before(g, e)
  BY <1>1 DEF Before, EditSet
<1>4. \A e, g, h \in set : Before(e, g) /\ Before(g, h) => Before(e, h)
  BY <1>1 DEF Before
<1> QED
  BY <1>2, <1>3, <1>4

\* An edit with a later one has a next one.
LEMMA NextEdit ==
    ASSUME NEW set, EditSet(set), NEW e \in set, NEW g \in set, Before(e, g)
    PROVE  \E h \in set : Neighbours(set, e, h)
<1> DEFINE Later == {x \in set : Before(e, x)}
           Gaps  == {Between(set, e, x) : x \in Later}
<1>1. IsWellFoundedOn(StrictSubsetOrdering(set), FiniteSubsetsOf(set))
  BY FS_StrictSubsetOrderingWellFounded
<1>2. Gaps \subseteq FiniteSubsetsOf(set)
  <2>1. \A x \in Later : Between(set, e, x) \subseteq set
    BY DEF Between
  <2>2. \A S : S \subseteq set => IsFiniteSet(S)
    BY FS_Subset DEF EditSet
  <2> QED
    BY <2>1, <2>2 DEF FiniteSubsetsOf
<1>3. Between(set, e, g) \in Gaps
  OBVIOUS
<1> HIDE DEF Gaps
<1>4. PICK gap \in Gaps : \A other \in Gaps : <<other, gap>> \notin StrictSubsetOrdering(set)
  BY <1>1, <1>2, <1>3, WFMin
<1>5. PICK h \in Later : gap = Between(set, e, h)
  BY <1>4 DEF Gaps
<1>6. ASSUME NEW x \in set, Before(e, x), Before(x, h)
      PROVE  FALSE
  <2>1. Between(set, e, x) \in Gaps
    BY <1>6 DEF Gaps
  <2>2. Between(set, e, x) \subseteq Between(set, e, h)
    BY <1>6, BeforeIsTotal DEF Between
  <2>3. x \in Between(set, e, h) /\ x \notin Between(set, e, x)
    BY <1>6, BeforeIsTotal DEF Between
  <2>4. Between(set, e, x) \in SUBSET set /\ gap \in SUBSET set
    BY <1>5 DEF Between
  <2>5. <<Between(set, e, x), gap>> \in StrictSubsetOrdering(set)
    BY <2>2, <2>3, <2>4, <1>5 DEF StrictSubsetOrdering
  <2> QED
    BY <2>1, <2>5, <1>4
<1> QED
  BY <1>5, <1>6 DEF Neighbours

\* What is asked of two neighbours is, of any two edits in order, whether they
\* can stand together.
LEMMA ClashIsNotApart ==
    ASSUME NEW e, NEW g, Ranged(e), Ranged(g), Before(e, g)
    PROVE  Clash(e, g) <=> ~Apart(e, g)
BY DEF Ranged, Before, Clash, Apart

\* An edit that clashes with a later one clashes with every edit between them.
LEMMA ClashIsDownward ==
    ASSUME NEW e, NEW g, NEW x, Ranged(e), Ranged(g), Ranged(x),
           Before(e, x), Before(x, g), Clash(e, g)
    PROVE  Clash(e, x)
BY DEF Ranged, Before, Clash

\* conflict.rs looks at neighbours of the sorted edits only; it finds a
\* conflict exactly when two edits of the set cannot stand together.
THEOREM NeighboursSuffice ==
    ASSUME NEW set, EditSet(set)
    PROVE  FindConflict(set) <=> \E e, g \in set : e # g /\ ~Apart(e, g)
<1>1. \A e \in set : Ranged(e)
  BY DEF EditSet
<1>2. ASSUME NEW e \in set, NEW g \in set, Neighbours(set, e, g), Clash(e, g)
      PROVE  e # g /\ ~Apart(e, g)
  BY <1>1, <1>2, BeforeIsTotal, ClashIsNotApart DEF Neighbours
<1>3. ASSUME NEW e \in set, NEW g \in set, Before(e, g), ~Apart(e, g)
      PROVE  FindConflict(set)
  <2>1. Clash(e, g)
    BY <1>1, <1>3, ClashIsNotApart
  <2>2. PICK h \in set : Neighbours(set, e, h)
    BY <1>3, NextEdit
  <2>3. h = g \/ Before(h, g)
    BY <2>2, <1>3, BeforeIsTotal DEF Neighbours
  <2>4. Clash(e, h)
    BY <1>1, <2>1, <2>2, <2>3, ClashIsDownward DEF Neighbours
  <2> QED
    BY <2>2, <2>4 DEF FindConflict
<1>4. \A e, g \in set : Apart(e, g) <=> Apart(g, e)
  BY DEF Apart
<1> QED
  BY <1>2, <1>3, <1>4, BeforeIsTotal DEF FindConflict

(***************************************************************************)
(* The order of a set of edits.                                            *)
(***************************************************************************)

LEMMA LeastNumber ==
    ASSUME NEW S, S \subseteq Nat, S # {}
    PROVE  \E n \in S : \A m \in S : n <= m
<1> DEFINE Below == {0..n : n \in S}
<1>1. IsWellFoundedOn(StrictSubsetOrdering(Nat), FiniteSubsetsOf(Nat))
  BY FS_StrictSubsetOrderingWellFounded
<1>2. Below \subseteq FiniteSubsetsOf(Nat)
  <2>1. \A n \in S : 0..n \subseteq Nat /\ IsFiniteSet(0..n)
    <3> TAKE n \in S
    <3>1. 0 \in Int /\ n \in Int
      OBVIOUS
    <3> QED
      BY <3>1, FS_Interval
  <2> QED
    BY <2>1 DEF FiniteSubsetsOf
<1>3. Below # {}
  OBVIOUS
<1> HIDE DEF Below
<1>4. PICK least \in Below : \A other \in Below : <<other, least>> \notin StrictSubsetOrdering(Nat)
  BY <1>1, <1>2, <1>3, WFMin
<1>5. PICK n \in S : least = 0..n
  BY <1>4 DEF Below
<1>6. ASSUME NEW m \in S, ~(n <= m) PROVE FALSE
  <2>1. 0..m \in Below
    BY DEF Below
  <2>2. n \in Nat /\ m \in Nat
    OBVIOUS
  <2>3. 0..m \subseteq 0..n /\ n \in 0..n /\ n \notin 0..m
    BY <1>6, <2>2
  <2>4. 0..m \in SUBSET Nat /\ 0..n \in SUBSET Nat
    OBVIOUS
  <2>5. <<0..m, least>> \in StrictSubsetOrdering(Nat)
    BY <2>3, <2>4, <1>5 DEF StrictSubsetOrdering
  <2> QED
    BY <2>1, <2>5, <1>4
<1> QED
  BY <1>6

\* What holds at `a` and is passed on to the next number, holds up to `b`.
LEMMA Upward ==
    ASSUME NEW a \in Nat, NEW b \in Nat, NEW S, a \in S,
           \A o \in a..(b - 1) : o \in S => o + 1 \in S
    PROVE  \A o \in a..b : o \in S
<1> DEFINE Missed == {o \in a..b : o \notin S}
<1> SUFFICES ASSUME Missed # {} PROVE FALSE
  OBVIOUS
<1>1. PICK o \in Missed : \A m \in Missed : o <= m
  <2>1. Missed \subseteq Nat
    OBVIOUS
  <2> HIDE DEF Missed
  <2> QED
    BY <2>1, LeastNumber
<1>2. o \in a..b /\ o # a /\ o - 1 \in a..(b - 1) /\ o - 1 \notin Missed
  BY <1>1
<1>3. o - 1 \in S
  BY <1>2
<1>4. o = (o - 1) + 1
  BY <1>2
<1> QED
  BY <1>1, <1>2, <1>3, <1>4

\* All of a set, in order.
Ordered(order, set) ==
    /\ order \in Seq(set)
    /\ \A e \in set : \E i \in 1..Len(order) : order[i] = e
    /\ \A i, j \in 1..Len(order) : i < j => Before(order[i], order[j])

LEMMA OrderExists ==
    ASSUME NEW set, EditSet(set)
    PROVE  \E order \in Bijection(1..Cardinality(set), set) :
               \A i, j \in DOMAIN order : i < j => Before(order[i], order[j])
<1> DEFINE n       == Cardinality(set)
           Upto(e) == {x \in set : ~Before(e, x)}
           rank    == [e \in set |-> Cardinality(Upto(e))]
<1>1. n \in Nat /\ IsFiniteSet(set)
  BY FS_CardinalityType DEF EditSet
<1>2. \A e \in set : /\ IsFiniteSet(Upto(e)) /\ Upto(e) \in SUBSET set /\ e \in Upto(e)
                     /\ Cardinality(Upto(e)) \in Nat /\ Cardinality(Upto(e)) <= n
                     /\ Cardinality(Upto(e)) # 0
  <2> TAKE e \in set
  <2>1. Upto(e) \in SUBSET set
    OBVIOUS
  <2>2. e \in Upto(e)
    BY BeforeIsTotal
  <2>3. IsFiniteSet(Upto(e)) /\ Cardinality(Upto(e)) <= n
    BY <1>1, <2>1, FS_Subset
  <2>4. Cardinality(Upto(e)) \in Nat /\ Cardinality(Upto(e)) # 0
    BY <2>2, <2>3, FS_CardinalityType, FS_EmptySet
  <2> QED
    BY <2>1, <2>2, <2>3, <2>4
<1>3. ASSUME NEW d \in set, NEW e \in set, Before(d, e)
      PROVE  rank[d] < rank[e]
  <2>1. Upto(d) \in SUBSET Upto(e)
    BY <1>3, BeforeIsTotal
  <2>2. e \in Upto(e) /\ e \notin Upto(d)
    BY <1>2, <1>3
  <2>3. /\ Cardinality(Upto(d)) <= Cardinality(Upto(e))
        /\ Cardinality(Upto(d)) # Cardinality(Upto(e))
    BY <1>2, <2>1, <2>2, FS_Subset
  <2>4. Cardinality(Upto(d)) \in Nat /\ Cardinality(Upto(e)) \in Nat
    BY <1>2
  <2> QED
    BY <2>3, <2>4
<1>4. rank \in [set -> 1..n]
  BY <1>1, <1>2
<1> HIDE DEF rank
<1>5. \A d, e \in set : rank[d] = rank[e] => d = e
  <2> TAKE d, e \in set
  <2>1. rank[d] \in Nat /\ rank[e] \in Nat
    BY <1>4
  <2> QED
    BY <1>3, <2>1, BeforeIsTotal
<1>6. rank \in Injection(set, 1..n)
  BY <1>4, <1>5 DEF Injection, IsInjective
<1>7. \A i \in 1..n : \E e \in set : rank[e] = i
  <2>1. IsFiniteSet(1..n) /\ Cardinality(1..n) = n
    <3>1. 1 \in Int /\ n \in Int
      BY <1>1
    <3>2. IsFiniteSet(1..n) /\ Cardinality(1..n) = IF 1 > n THEN 0 ELSE n - 1 + 1
      BY <3>1, FS_Interval
    <3> QED
      BY <1>1, <3>2
  <2>2. rank \in Surjection(set, 1..n)
    BY <1>6, <2>1, FS_Injection
  <2> QED
    BY <2>2 DEF Surjection
<1> DEFINE order == [i \in 1..n |-> CHOOSE e \in set : rank[e] = i]
<1>8. \A i \in 1..n : order[i] \in set /\ rank[order[i]] = i
  BY <1>7
<1>9. \A e \in set : order[rank[e]] = e
  BY <1>4, <1>5, <1>8
<1>10. DOMAIN order = 1..n /\ order \in [1..n -> set]
  BY <1>8
<1> HIDE DEF order
<1>11. order \in Bijection(1..n, set)
  <2>1. \A i, j \in 1..n : order[i] = order[j] => i = j
    BY <1>8
  <2>2. \A e \in set : \E i \in 1..n : order[i] = e
    BY <1>4, <1>9
  <2> QED
    BY <1>10, <2>1, <2>2 DEF Bijection, Injection, IsInjective, Surjection
<1>12. ASSUME NEW i \in 1..n, NEW j \in 1..n, i < j
       PROVE  Before(order[i], order[j])
  <2>1. ~Before(order[j], order[i]) /\ order[i] # order[j]
    BY <1>1, <1>3, <1>8, <1>12
  <2> QED
    BY <1>8, <2>1, BeforeIsTotal
<1> QED
  BY <1>10, <1>11, <1>12

LEMMA SortedIsOrdered ==
    ASSUME NEW set, EditSet(set)
    PROVE  Ordered(Sorted(set), set)
<1>1. PICK n : n = Cardinality(set)
  OBVIOUS
<1>2. PICK order : order = Sorted(set)
  OBVIOUS
<1>3. /\ order \in Bijection(1..n, set)
      /\ \A i, j \in DOMAIN order : i < j => Before(order[i], order[j])
  BY <1>1, <1>2, OrderExists DEF Sorted
<1>4. n \in Nat
  BY <1>1, FS_CardinalityType DEF EditSet
<1>5. order \in [1..n -> set] /\ \A e \in set : \E i \in 1..n : order[i] = e
  BY <1>3 DEF Bijection, Surjection
<1>6. order \in Seq(set) /\ Len(order) = n /\ DOMAIN order = 1..n
  BY <1>4, <1>5
<1> QED
  BY <1>2, <1>3, <1>5, <1>6 DEF Ordered

(***************************************************************************)
(* The pass and the meaning, one step at a time.                           *)
(***************************************************************************)

\* Texts over `T`, one after the other; the stretch of a text between two offsets,
\* and the token at one.
Texts(T)           == Seq(T)
Join(a, b)         == a \o b
Stretch(text, a, b) == SubSeq(text, a + 1, b)
Token(text, o)     == <<text[o + 1]>>

Unwritten == [out |-> << >>, cursor |-> 0]

\* The pass after one more edit.
Passed(text, done, e) ==
    [out    |-> Join(Join(done.out, Stretch(text, done.cursor, e.start)), e.replacement),
     cursor |-> e.end]

PassUpTo(text, order, f, m) ==
    f = [n \in 0..m |-> IF n = 0 THEN Unwritten ELSE Passed(text, f[n - 1], order[n])]

LEMMA LongerPass ==
    ASSUME NEW text, NEW order, NEW m \in Nat, NEW f, PassUpTo(text, order, f, m)
    PROVE  \E g : PassUpTo(text, order, g, m + 1)
<1> DEFINE Next(n, before) == IF n = 0 THEN Unwritten ELSE Passed(text, before, order[n])
           g == [n \in 0..(m + 1) |-> IF n = m + 1 THEN Next(n, f[m]) ELSE f[n]]
<1>1. \A n \in 0..m : f[n] = Next(n, f[n - 1])
  BY DEF PassUpTo
<1> HIDE DEF Next
<1>2. \A n \in 0..(m + 1) : g[n] = Next(n, g[n - 1])
  <2> TAKE n \in 0..(m + 1)
  <2>1. CASE n = m + 1
    <3>1. g[n - 1] = f[m] /\ g[n] = Next(n, f[m])
      BY <2>1
    <3> QED
      BY <3>1
  <2>2. CASE n # m + 1 /\ n # 0
    <3>1. g[n] = f[n] /\ g[n - 1] = f[n - 1] /\ n \in 0..m
      BY <2>2
    <3> QED
      BY <1>1, <3>1
  <2>3. CASE n = 0
    <3>1. g[n] = f[n] /\ n \in 0..m /\ n # m + 1
      BY <2>3
    <3>2. f[n] = Next(n, f[n - 1]) /\ \A x, y : Next(0, x) = Next(0, y)
      BY <1>1, <3>1 DEF Next
    <3> QED
      BY <2>3, <3>1, <3>2
  <2> QED
    BY <2>1, <2>2, <2>3
<1>3. g = [n \in 0..(m + 1) |-> Next(n, g[n - 1])]
  <2>1. DOMAIN g = 0..(m + 1) /\ g = [n \in 0..(m + 1) |-> g[n]]
    OBVIOUS
  <2> HIDE DEF g
  <2> QED
    BY <1>2, <2>1
<1> HIDE DEF g
<1> QED
  BY <1>3 DEF PassUpTo, Next

LEMMA PassSteps ==
    ASSUME NEW text, NEW set, NEW order \in Seq(set)
    PROVE  /\ Pass(text, order)[0] = Unwritten
           /\ \A n \in 1..Len(order) :
                 Pass(text, order)[n] = Passed(text, Pass(text, order)[n - 1], order[n])
<1>1. Len(order) \in Nat
  OBVIOUS
<1> DEFINE S == {m \in Nat : \E f : PassUpTo(text, order, f, m)}
<1>2. 0 \in S
  <2> DEFINE f == [n \in 0..0 |-> Unwritten]
  <2>1. f = [n \in 0..0 |-> IF n = 0 THEN Unwritten ELSE Passed(text, f[n - 1], order[n])]
    OBVIOUS
  <2> QED
    BY <2>1 DEF PassUpTo
<1>3. \A m \in 0..(Len(order) - 1) : m \in S => m + 1 \in S
  BY <1>1, LongerPass
<1>4. \E f : PassUpTo(text, order, f, Len(order))
  <2> HIDE DEF S
  <2>1. \A m \in 0..Len(order) : m \in S
    BY <1>1, <1>2, <1>3, Upward
  <2> QED
    BY <1>1, <2>1 DEF S
<1>5. Pass(text, order) = CHOOSE f : PassUpTo(text, order, f, Len(order))
  BY DEF Pass, PassUpTo, Passed, Unwritten, Join, Stretch
<1>6. PassUpTo(text, order, Pass(text, order), Len(order))
  BY <1>4, <1>5
<1> QED
  BY <1>1, <1>6 DEF PassUpTo

FlatUpTo(s, f, m) == f = [i \in 1..m |-> IF i = 1 THEN s[i] ELSE f[i - 1] \o s[i]]

LEMMA LongerFlat ==
    ASSUME NEW s, NEW m \in Nat, NEW f, FlatUpTo(s, f, m)
    PROVE  \E g : FlatUpTo(s, g, m + 1)
<1> DEFINE Next(i, before) == IF i = 1 THEN s[i] ELSE before \o s[i]
           g == [i \in 1..(m + 1) |-> IF i = m + 1 THEN Next(i, f[m]) ELSE f[i]]
<1>1. \A i \in 1..m : f[i] = Next(i, f[i - 1])
  BY DEF FlatUpTo
<1>2. \A x, y : Next(1, x) = Next(1, y)
  OBVIOUS
<1> HIDE DEF Next
<1>3. \A i \in 1..(m + 1) : g[i] = Next(i, g[i - 1])
  <2> TAKE i \in 1..(m + 1)
  <2>1. CASE i = 1
    <3>1. CASE m = 0
      <4>1. g[i] = Next(1, f[m])
        BY <2>1, <3>1
      <4> QED
        BY <1>2, <2>1, <4>1
    <3>2. CASE m # 0
      <4>1. g[i] = f[1] /\ 1 \in 1..m
        BY <2>1, <3>2
      <4>2. f[1] = Next(1, f[1 - 1])
        BY <1>1, <4>1
      <4> QED
        BY <1>2, <2>1, <4>1, <4>2
    <3> QED
      BY <3>1, <3>2
  <2>2. CASE i = m + 1 /\ i # 1
    <3>1. g[i - 1] = f[m] /\ g[i] = Next(i, f[m])
      BY <2>2
    <3> QED
      BY <3>1
  <2>3. CASE i # m + 1 /\ i # 1
    <3>1. g[i] = f[i] /\ g[i - 1] = f[i - 1] /\ i \in 1..m
      BY <2>3
    <3> QED
      BY <1>1, <3>1
  <2> QED
    BY <2>1, <2>2, <2>3
<1>4. g = [i \in 1..(m + 1) |-> Next(i, g[i - 1])]
  <2>1. g = [i \in 1..(m + 1) |-> g[i]]
    OBVIOUS
  <2> HIDE DEF g
  <2> QED
    BY <1>3, <2>1
<1> HIDE DEF g
<1> QED
  BY <1>4 DEF FlatUpTo, Next

LEMMA FlattenSteps ==
    ASSUME NEW s, Len(s) \in Nat \ {0}
    PROVE  \E f : FlatUpTo(s, f, Len(s)) /\ FlattenSeq(s) = f[Len(s)]
<1> DEFINE S == {m \in Nat : \E f : FlatUpTo(s, f, m)}
<1>1. 0 \in S
  <2> DEFINE f == [i \in 1..0 |-> IF i = 1 THEN s[i] ELSE s[i]]
  <2>1. f = [i \in 1..0 |-> IF i = 1 THEN s[i] ELSE f[i - 1] \o s[i]]
    OBVIOUS
  <2> QED
    BY <2>1 DEF FlatUpTo
<1>2. \A m \in 0..(Len(s) - 1) : m \in S => m + 1 \in S
  BY LongerFlat
<1>3. \E f : FlatUpTo(s, f, Len(s))
  <2> HIDE DEF S
  <2>1. \A m \in 0..Len(s) : m \in S
    BY <1>1, <1>2, Upward
  <2> QED
    BY <2>1 DEF S
<1>4. FlattenSeq(s) = (CHOOSE f : FlatUpTo(s, f, Len(s)))[Len(s)]
  BY DEF FlattenSeq, FlatUpTo
<1> QED
  BY <1>3, <1>4

(***************************************************************************)
(* Texts put together.                                                     *)
(***************************************************************************)

LEMMA Together ==
    ASSUME NEW T
    PROVE  /\ << >> \in Texts(T)
           /\ \A a, b \in Texts(T) : Join(a, b) \in Texts(T)
           /\ \A a, b, c \in Texts(T) : Join(Join(a, b), c) = Join(a, Join(b, c))
           /\ \A a \in Texts(T) : Join(a, << >>) = a /\ Join(<< >>, a) = a
BY EmptySeq, ConcatProperties, ConcatAssociative, ConcatEmptySeq DEF Texts, Join

LEMMA Regroup ==
    ASSUME NEW T, NEW a, NEW b, NEW c, a \in Texts(T), b \in Texts(T), c \in Texts(T)
    PROVE  Join(Join(a, b), c) = Join(a, Join(b, c))
BY Together

LEMMA Cut ==
    ASSUME NEW T, NEW text \in Texts(T), NEW a \in 0..Len(text)
    PROVE  /\ Stretch(text, a, a) = << >>
           /\ \A b \in a..Len(text) : Stretch(text, a, b) \in Texts(T)
           /\ \A b \in a..(Len(text) - 1) :
                 /\ Token(text, b) \in Texts(T)
                 /\ Stretch(text, a, b + 1) = Join(Stretch(text, a, b), Token(text, b))
<1>1. text \in Seq(T) /\ Len(text) \in Nat /\ \A i \in 1..Len(text) : text[i] \in T
  BY ElementOfSeq, LenProperties DEF Texts
<1>2. Stretch(text, a, a) = << >>
  BY <1>1, SubSeqEmpty DEF Stretch
<1>3. \A b \in a..Len(text) : Stretch(text, a, b) \in Texts(T)
  <2> TAKE b \in a..Len(text)
  <2>1. a + 1 \in Int /\ b \in Int /\ \A i \in (a + 1)..b : text[i] \in T
    BY <1>1
  <2> QED
    BY <2>1, SubSeqProperties DEF Stretch, Texts
<1>4. ASSUME NEW b \in a..(Len(text) - 1)
      PROVE  /\ Token(text, b) \in Texts(T)
             /\ Stretch(text, a, b + 1) = Join(Stretch(text, a, b), Token(text, b))
  <2>1. a + 1 \in 1..Len(text) /\ b + 1 \in (a + 1)..Len(text) /\ (b + 1) - 1 = b
    BY <1>1
  <2>2. SubSeq(text, a + 1, b + 1) = SubSeq(text, a + 1, (b + 1) - 1) \o <<text[b + 1]>>
    BY <1>1, <2>1, SubSeqRecursiveSecond
  <2>3. text[b + 1] \in T
    BY <1>1, <2>1
  <2> QED
    BY <2>1, <2>2, <2>3 DEF Stretch, Join, Token, Texts
<1> QED
  BY <1>2, <1>3, <1>4

\* The edits of a plan, in their text: each within it, and any two apart.
Fits(text, set, T) ==
    /\ text \in Texts(T)
    /\ EditSet(set)
    /\ \A e \in set : e.end <= Len(text) /\ e.replacement \in Texts(T)
    /\ \A e, g \in set : e # g => Apart(e, g)

Piece(text, set, o) == Join(Join(Inserted(set, o), Replaced(set, o)), Kept(text, set, o))

LEMMA PiecesAreTexts ==
    ASSUME NEW text, NEW set, NEW T, Fits(text, set, T)
    PROVE  /\ \A some \in SUBSET set : \A o : Inserted(some, o) \in Texts(T)
           /\ \A o : Replaced(set, o) \in Texts(T)
           /\ \A o \in Nat : Kept(text, set, o) \in Texts(T)
           /\ \A o \in Nat : Piece(text, set, o) \in Texts(T)
<1>1. \A some : some \subseteq set => TextOf(some) \in Texts(T)
  <2> TAKE some
  <2> SUFFICES ASSUME some \subseteq set PROVE TextOf(some) \in Texts(T)
    OBVIOUS
  <2>1. << >> \in Texts(T)
    BY Together
  <2>2. \A e \in set : e.replacement \in Texts(T)
    BY DEF Fits
  <2> QED
    BY <2>1, <2>2 DEF TextOf
<1>2. \A some \in SUBSET set : \A o : Inserted(some, o) \in Texts(T)
  BY <1>1 DEF Inserted
<1>3. \A o : Replaced(set, o) \in Texts(T)
  BY <1>1 DEF Replaced
<1>4. \A o \in Nat : Kept(text, set, o) \in Texts(T)
  <2> TAKE o \in Nat
  <2>1. << >> \in Texts(T)
    BY Together
  <2>2. o < Len(text) => text[o + 1] \in T
    BY ElementOfSeq, LenProperties DEF Fits, Texts
  <2>3. o < Len(text) => <<text[o + 1]>> \in Texts(T)
    BY <2>2 DEF Texts
  <2> QED
    BY <2>1, <2>3 DEF Kept
<1>5. \A o \in Nat : Piece(text, set, o) \in Texts(T)
  <2> TAKE o \in Nat
  <2>1. /\ Inserted(set, o) \in Texts(T) /\ Replaced(set, o) \in Texts(T)
        /\ Kept(text, set, o) \in Texts(T)
    BY <1>2, <1>3, <1>4
  <2> QED
    BY <2>1, Together DEF Piece
<1> QED
  BY <1>2, <1>3, <1>4, <1>5

\* `P` holds, at each offset, what is written before it.
WrittenBefore(P, text, set, T) ==
    /\ P[0] = << >>
    /\ \A o \in 0..Len(text) : P[o + 1] = Join(P[o], Piece(text, set, o))
    /\ \A o \in 0..(Len(text) + 1) : P[o] \in Texts(T)

LEMMA PatchedSteps ==
    ASSUME NEW text, NEW set, NEW T, Fits(text, set, T)
    PROVE  \E P : WrittenBefore(P, text, set, T) /\ Patched(text, set) = P[Len(text) + 1]
<1> DEFINE L == Len(text)
           s == [i \in 1..(L + 1) |-> Piece(text, set, i - 1)]
<1>1. L \in Nat
  BY LenProperties DEF Fits, Texts
<1>2. Len(s) = L + 1
  <2> DEFINE t == s
  <2>1. s = [i \in 1..(L + 1) |-> t[i]] /\ L + 1 \in Nat
    BY <1>1
  <2> HIDE DEF t
  <2> QED
    BY <2>1
<1>3. Patched(text, set) = FlattenSeq(s)
  BY DEF Patched, Piece, Join
<1>4. \A i \in 1..(L + 1) : s[i] = Piece(text, set, i - 1)
  OBVIOUS
<1> HIDE DEF L, s
<1>5. PICK f : FlatUpTo(s, f, L + 1) /\ FlattenSeq(s) = f[L + 1]
  BY <1>1, <1>2, FlattenSteps
<1> DEFINE P == [o \in 0..(L + 1) |-> IF o = 0 THEN << >> ELSE f[o]]
<1>6. P[0] = << >> /\ \A o \in 1..(L + 1) : P[o] = f[o]
  BY <1>1
<1> HIDE DEF P
<1>7. \A o \in 0..L : P[o + 1] = Join(P[o], Piece(text, set, o))
  <2> TAKE o \in 0..L
  <2>1. s[o + 1] = Piece(text, set, o) /\ Piece(text, set, o) \in Texts(T)
    <3>1. o + 1 \in 1..(L + 1) /\ (o + 1) - 1 = o /\ o \in Nat
      BY <1>1
    <3> QED
      BY <1>4, <3>1, PiecesAreTexts
  <2>2. P[o + 1] = f[o + 1]
    BY <1>1, <1>6
  <2>3. CASE o = 0
    <3>1. f[o + 1] = s[o + 1]
      BY <1>1, <1>5, <2>3 DEF FlatUpTo
    <3>2. Join(<< >>, Piece(text, set, o)) = Piece(text, set, o)
      BY <2>1, Together
    <3> QED
      BY <1>6, <2>1, <2>2, <2>3, <3>1, <3>2
  <2>4. CASE o # 0
    <3>1. o + 1 \in 1..(L + 1) /\ o + 1 # 1 /\ (o + 1) - 1 = o /\ o \in 1..(L + 1)
      BY <1>1, <2>4
    <3>2. f[o + 1] = Join(f[o], s[o + 1])
      BY <1>5, <3>1 DEF FlatUpTo, Join
    <3> QED
      BY <1>6, <2>1, <2>2, <3>1, <3>2
  <2> QED
    BY <2>3, <2>4
<1>8. \A o \in 0..(L + 1) : P[o] \in Texts(T)
  <2> DEFINE S == {o \in Nat : P[o] \in Texts(T)}
  <2>1. 0 \in S
    BY <1>6, Together
  <2>2. \A o \in 0..((L + 1) - 1) : o \in S => o + 1 \in S
    <3> TAKE o \in 0..((L + 1) - 1)
    <3>1. o \in 0..L /\ o \in Nat /\ o + 1 \in Nat
      BY <1>1
    <3>2. Piece(text, set, o) \in Texts(T)
      BY <3>1, PiecesAreTexts
    <3>3. P[o] \in Texts(T) => Join(P[o], Piece(text, set, o)) \in Texts(T)
      BY <3>2, Together
    <3> QED
      BY <1>7, <3>1, <3>3
  <2>3. L + 1 \in Nat /\ 0 \in Nat
    BY <1>1
  <2> HIDE DEF S
  <2>4. \A o \in 0..(L + 1) : o \in S
    BY <2>1, <2>2, <2>3, Upward
  <2> QED
    BY <2>4 DEF S
<1>9. L + 1 \in 1..(L + 1)
  BY <1>1
<1> QED
  BY <1>3, <1>5, <1>6, <1>7, <1>8, <1>9 DEF WrittenBefore, L

(***************************************************************************)
(* One pass with a cursor writes what the edits mean.                      *)
(***************************************************************************)

\* An edit, and one of the plan after it.
After(e, g) == e.end <= g.start /\ (e.start < g.start \/ g.start < g.end)

LEMMA LaterFollows ==
    ASSUME NEW e, NEW g, Ranged(e), Ranged(g), Placed(e), Placed(g),
           Apart(e, g), Before(e, g)
    PROVE  After(e, g)
BY DEF Ranged, Placed, Apart, Before, After

\* The first `k` edits, and where the cursor stands after them.
First(order, k)  == {order[i] : i \in 1..k}
Cursor(order, k) == IF k = 0 THEN 0 ELSE order[k].end

\* What is after the `k`-th edit starts at `s` or later.
FreeUpTo(order, k, s) == \A j \in (k + 1)..Len(order) : s <= order[j].start

\* A plan in order.
InOrder(text, set, order, T) ==
    /\ Fits(text, set, T) /\ Len(text) \in Nat
    /\ Len(order) \in Nat
    /\ \A i \in 1..Len(order) : order[i] \in set /\ Ranged(order[i])
    /\ \A e \in set : \E i \in 1..Len(order) : order[i] = e
    /\ \A i, j \in 1..Len(order) : i < j => After(order[i], order[j])

LEMMA PlansAreInOrder ==
    ASSUME NEW text, NEW set, NEW order, NEW T, Fits(text, set, T), Ordered(order, set)
    PROVE  InOrder(text, set, order, T)
<1>1. Len(text) \in Nat
  BY LenProperties DEF Fits
<1>2. Len(order) \in Nat /\ \A i \in 1..Len(order) : order[i] \in set
  BY LenProperties, ElementOfSeq DEF Ordered
<1>3. \A e \in set : Ranged(e) /\ Placed(e)
  BY DEF Fits, EditSet
<1>4. ASSUME NEW i \in 1..Len(order), NEW j \in 1..Len(order), i < j
      PROVE  After(order[i], order[j])
  <2>1. order[i] \in set /\ order[j] \in set /\ Before(order[i], order[j])
    BY <1>2, <1>4 DEF Ordered
  <2>2. order[i] # order[j]
    BY <2>1, BeforeIsTotal DEF Fits
  <2>3. Apart(order[i], order[j])
    BY <2>1, <2>2 DEF Fits
  <2> QED
    BY <1>3, <2>1, <2>3, LaterFollows
<1> QED
  BY <1>1, <1>2, <1>3, <1>4 DEF InOrder, Ordered

\* Where the cursor stands: what it passed ends there or earlier, and what is
\* left starts there or later.
LEMMA CursorIsBetween ==
    ASSUME NEW text, NEW set, NEW order, NEW T, InOrder(text, set, order, T),
           NEW k \in 0..Len(order)
    PROVE  /\ Cursor(order, k) \in 0..Len(text)
           /\ First(order, k) \in SUBSET set
           /\ \A e \in First(order, k) : Ranged(e) /\ e.end <= Cursor(order, k)
           /\ \A j \in (k + 1)..Len(order) :
                 /\ order[j] \in set /\ Ranged(order[j])
                 /\ Cursor(order, k) <= order[j].start
           /\ \A e \in set : e \in First(order, k) \/ \E j \in (k + 1)..Len(order) : order[j] = e
<1>1. Len(order) \in Nat /\ Len(text) \in Nat
  BY DEF InOrder
<1>2. \A i \in 1..Len(order) : order[i] \in set /\ Ranged(order[i])
  BY DEF InOrder
<1>3. \A i \in 1..k : i \in 1..Len(order)
  BY <1>1
<1>4. First(order, k) \in SUBSET set
  BY <1>2, <1>3 DEF First
<1>5. Cursor(order, k) \in 0..Len(text)
  <2>1. CASE k = 0
    BY <1>1, <2>1 DEF Cursor
  <2>2. CASE k # 0
    <3>1. order[k] \in set /\ Ranged(order[k])
      BY <1>2, <2>2
    <3> QED
      BY <1>1, <2>2, <3>1 DEF Cursor, InOrder, Fits, Ranged
  <2> QED
    BY <2>1, <2>2
<1>6. ASSUME NEW i \in 1..k PROVE Ranged(order[i]) /\ order[i].end <= Cursor(order, k)
  <2>1. i \in 1..Len(order) /\ k \in 1..Len(order) /\ k # 0
    BY <1>1
  <2>2. Ranged(order[i]) /\ Ranged(order[k])
    BY <1>2, <2>1
  <2>3. i < k => After(order[i], order[k])
    BY <2>1 DEF InOrder
  <2>4. i < k \/ i = k
    BY <2>1
  <2> QED
    BY <2>1, <2>2, <2>3, <2>4 DEF After, Cursor, Ranged
<1>7. ASSUME NEW j \in (k + 1)..Len(order)
      PROVE  /\ order[j] \in set /\ Ranged(order[j])
             /\ Cursor(order, k) <= order[j].start
  <2>1. j \in 1..Len(order) /\ k < j
    BY <1>1
  <2>2. order[j] \in set /\ Ranged(order[j])
    BY <1>2, <2>1
  <2>3. k # 0 => After(order[k], order[j])
    BY <2>1 DEF InOrder
  <2> QED
    BY <2>2, <2>3 DEF After, Cursor, Ranged
<1>8. ASSUME NEW e \in set
      PROVE  e \in First(order, k) \/ \E j \in (k + 1)..Len(order) : order[j] = e
  <2>1. PICK i \in 1..Len(order) : order[i] = e
    BY DEF InOrder
  <2>2. i \in 1..k \/ i \in (k + 1)..Len(order)
    BY <1>1
  <2> QED
    BY <2>1, <2>2 DEF First
<1> QED
  BY <1>4, <1>5, <1>6, <1>7, <1>8 DEF First

\* Nothing of a plan at an offset between two edits: the token stays.
LEMMA NothingThere ==
    ASSUME NEW text, NEW set, NEW T, Fits(text, set, T), NEW o \in Nat, o < Len(text),
           \A e \in set : (e.end <= o /\ e.start # o) \/ o < e.start
    PROVE  Piece(text, set, o) = Token(text, o)
<1>1. \A e \in set : Ranged(e)
  BY DEF Fits, EditSet
<1>2. {e \in set : e.start = o /\ e.end = o} = {} /\ {e \in set : e.start = o /\ e.end # o} = {}
  BY <1>1 DEF Ranged
<1>3. Inserted(set, o) = << >> /\ Replaced(set, o) = << >>
  BY <1>2 DEF Inserted, Replaced, TextOf
<1>4. ~\E e \in set : e.start <= o /\ o < e.end
  BY <1>1 DEF Ranged
<1>5. Kept(text, set, o) = Token(text, o)
  BY <1>4 DEF Kept, Token
<1>6. Token(text, o) \in Texts(T)
  BY <1>5, PiecesAreTexts
<1>7. Join(Join(<< >>, << >>), Token(text, o)) = Token(text, o)
  BY <1>6, Together
<1> QED
  BY <1>3, <1>5, <1>7 DEF Piece

\* Past the cursor the text goes on unchanged up to the next edit.
LEMMA TextGoesOn ==
    ASSUME NEW text, NEW set, NEW order, NEW T, InOrder(text, set, order, T),
           NEW P, WrittenBefore(P, text, set, T),
           NEW k \in 0..Len(order), NEW s \in Cursor(order, k)..Len(text), FreeUpTo(order, k, s)
    PROVE  Join(Join(P[Cursor(order, k)], Inserted(First(order, k), Cursor(order, k))),
                Stretch(text, Cursor(order, k), s))
           = Join(P[s], Inserted(First(order, k), s))
<1> DEFINE first == First(order, k)
           L == Len(text)
<1>1. PICK c : c = Cursor(order, k)
  OBVIOUS
<1>2. c \in 0..L /\ L \in Nat /\ s \in c..L /\ s \in Nat /\ c \in Nat
  BY <1>1, CursorIsBetween DEF InOrder
<1>3. /\ first \in SUBSET set
      /\ \A e \in first : Ranged(e) /\ e.end <= c
      /\ \A e \in set : Ranged(e) /\ (e \in first \/ s <= e.start)
  <2>1. \A e \in set : Ranged(e)
    BY DEF InOrder, Fits, EditSet
  <2>2. /\ first \in SUBSET set
        /\ \A e \in first : Ranged(e) /\ e.end <= c
        /\ \A e \in set : e \in first \/ \E j \in (k + 1)..Len(order) : order[j] = e
    BY <1>1, CursorIsBetween
  <2>3. \A j \in (k + 1)..Len(order) : s <= order[j].start
    BY DEF FreeUpTo
  <2> QED
    BY <2>1, <2>2, <2>3
<1> HIDE DEF first
<1>4. /\ \A o \in 0..L : P[o + 1] = Join(P[o], Piece(text, set, o))
      /\ \A o \in 0..(L + 1) : P[o] \in Texts(T)
      /\ Fits(text, set, T)
  BY DEF WrittenBefore, InOrder
<1>5. \A o : Inserted(first, o) \in Texts(T)
  BY <1>3, <1>4, PiecesAreTexts
<1>6. /\ Stretch(text, c, c) = << >>
      /\ \A b \in c..L : Stretch(text, c, b) \in Texts(T)
      /\ \A b \in c..(L - 1) :
            /\ Token(text, b) \in Texts(T)
            /\ Stretch(text, c, b + 1) = Join(Stretch(text, c, b), Token(text, b))
  <2>1. text \in Texts(T)
    BY <1>4 DEF Fits
  <2> QED
    BY <1>2, <2>1, Cut
<1> HIDE DEF L
<1> DEFINE Out == Join(P[c], Inserted(first, c))
<1>7. P[c] \in Texts(T) /\ Inserted(first, c) \in Texts(T) /\ Out \in Texts(T)
  <2>1. P[c] \in Texts(T)
    BY <1>2, <1>4
  <2>2. Inserted(first, c) \in Texts(T)
    BY <1>5
  <2> QED
    BY <2>1, <2>2, Together
<1>8. CASE s = c
  <2>1. Join(Out, << >>) = Out
    BY <1>7, Together
  <2> QED
    BY <1>1, <1>6, <1>8, <2>1 DEF first
<1>9. CASE s # c
  <2>1. c < s /\ c + 1 \in Nat /\ c + 1 <= s /\ c < L /\ c \in c..(L - 1) /\ c + 1 \in 0..(L + 1)
    BY <1>2, <1>9
  <2>2. Piece(text, set, c) = Join(Inserted(first, c), Token(text, c))
    <3>1. {e \in set : e.start = c /\ e.end = c} = {e \in first : e.start = c /\ e.end = c}
      BY <1>2, <1>3, <2>1 DEF Ranged
    <3>2. {e \in set : e.start = c /\ e.end # c} = {}
      BY <1>2, <1>3, <2>1 DEF Ranged
    <3>3. ~\E e \in set : e.start <= c /\ c < e.end
      BY <1>2, <1>3, <2>1 DEF Ranged
    <3>4. Inserted(set, c) = Inserted(first, c)
      BY <3>1 DEF Inserted
    <3>5. Replaced(set, c) = << >>
      BY <3>2 DEF Replaced, TextOf
    <3>6. Kept(text, set, c) = Token(text, c)
      BY <2>1, <3>3 DEF Kept, L, Token
    <3>7. Join(Inserted(first, c), << >>) = Inserted(first, c)
      BY <1>5, Together
    <3> QED
      BY <3>4, <3>5, <3>6, <3>7 DEF Piece
  <2> DEFINE S == {o \in Nat : P[o] = Join(Out, Stretch(text, c, o))}
  <2>3. c + 1 \in S
    <3>1. P[c + 1] = Join(P[c], Join(Inserted(first, c), Token(text, c)))
      BY <1>2, <1>4, <2>2
    <3>2. Token(text, c) \in Texts(T)
      BY <1>6, <2>1
    <3>3. P[c + 1] = Join(Out, Token(text, c))
      BY <1>7, <3>1, <3>2, Regroup
    <3>4. Stretch(text, c, c + 1) = Join(<< >>, Token(text, c))
      BY <1>6, <2>1
    <3>5. Join(<< >>, Token(text, c)) = Token(text, c)
      BY <3>2, Together
    <3> QED
      BY <2>1, <3>3, <3>4, <3>5
  <2>4. \A o \in (c + 1)..(s - 1) : o \in S => o + 1 \in S
    <3> SUFFICES ASSUME NEW o \in (c + 1)..(s - 1), P[o] = Join(Out, Stretch(text, c, o))
                 PROVE  o + 1 \in Nat /\ P[o + 1] = Join(Out, Stretch(text, c, o + 1))
      OBVIOUS
    <3>1. o \in Nat /\ o + 1 \in Nat /\ o < L /\ o \in 0..L /\ o \in c..(L - 1) /\ o \in c..L
      BY <1>2
    <3>2. \A e \in set : (e.end <= o /\ e.start # o) \/ o < e.start
      BY <1>2, <1>3, <3>1 DEF Ranged
    <3>3. Piece(text, set, o) = Token(text, o)
      BY <1>4, <3>1, <3>2, NothingThere DEF L
    <3>4. P[o + 1] = Join(Join(Out, Stretch(text, c, o)), Token(text, o))
      BY <1>4, <3>1, <3>3
    <3>5. Stretch(text, c, o) \in Texts(T) /\ Token(text, o) \in Texts(T)
      BY <1>6, <3>1
    <3> HIDE DEF Out
    <3>6. P[o + 1] = Join(Out, Join(Stretch(text, c, o), Token(text, o)))
      BY <1>7, <3>4, <3>5, Together
    <3> QED
      BY <1>6, <3>1, <3>6
  <2> HIDE DEF S, Out
  <2>5. s \in S
    <3>1. s \in (c + 1)..s
      BY <1>2, <2>1
    <3> QED
      BY <1>2, <2>1, <2>3, <2>4, <3>1, Upward
  <2>6. {e \in first : e.start = s /\ e.end = s} = {}
    BY <1>2, <1>3, <2>1 DEF Ranged
  <2>7. Inserted(first, s) = << >>
    BY <2>6 DEF Inserted, TextOf
  <2>8. P[s] \in Texts(T)
    BY <1>2, <1>4
  <2>9. Join(P[s], << >>) = P[s]
    BY <2>8, Together
  <2> QED
    BY <1>1, <2>5, <2>7, <2>9 DEF S, Out, first
<1> QED
  BY <1>8, <1>9

\* The first `k` edits are done: the cursor stands behind the last, and written is
\* what is before it, with what is inserted there so far.
Done(text, set, order, P, k) ==
    /\ Pass(text, order)[k].cursor = Cursor(order, k)
    /\ Pass(text, order)[k].out =
          Join(P[Cursor(order, k)], Inserted(First(order, k), Cursor(order, k)))

LEMMA OneMore ==
    ASSUME NEW text, NEW set, NEW order, NEW T, InOrder(text, set, order, T),
           order \in Seq(set),
           NEW P, WrittenBefore(P, text, set, T),
           NEW m \in 0..(Len(order) - 1), Done(text, set, order, P, m)
    PROVE  Done(text, set, order, P, m + 1)
<1>1. PICK k : k = m + 1
  OBVIOUS
<1>2. PICK e : e = order[k]
  OBVIOUS
<1>3. PICK s, t : s = e.start /\ t = e.end
  OBVIOUS
<1>4. PICK L : L = Len(text)
  OBVIOUS
<1>5. /\ m \in 0..Len(order) /\ k \in 1..Len(order) /\ k \in (m + 1)..Len(order) /\ k # 0
      /\ k - 1 = m /\ k \in 0..Len(order) /\ L \in Nat /\ Len(order) \in Nat
  BY <1>1, <1>4 DEF InOrder
<1>6. /\ e \in set /\ Ranged(e) /\ s \in Nat /\ t \in Nat /\ s <= t /\ t <= L
      /\ s \in Cursor(order, m)..L /\ s \in 0..L /\ t \in 0..L
  <2>1. e \in set /\ Ranged(e) /\ Cursor(order, m) <= e.start /\ Cursor(order, m) \in 0..L
    BY <1>2, <1>4, <1>5, CursorIsBetween
  <2>2. e.end <= L
    BY <1>4, <2>1 DEF InOrder, Fits
  <2> QED
    BY <1>3, <1>5, <2>1, <2>2 DEF Ranged
<1>7. \A j \in (k + 1)..Len(order) : After(e, order[j]) /\ Ranged(order[j])
  <2> TAKE j \in (k + 1)..Len(order)
  <2>1. j \in 1..Len(order) /\ k < j
    BY <1>5
  <2> QED
    BY <1>2, <1>5, <2>1 DEF InOrder
<1>8. \A x \in First(order, m) : After(x, e) /\ Ranged(x) /\ x \in set
  <2> SUFFICES ASSUME NEW i \in 1..m
               PROVE  After(order[i], e) /\ Ranged(order[i]) /\ order[i] \in set
    BY DEF First
  <2>1. i \in 1..Len(order) /\ i < k
    BY <1>1, <1>5
  <2> QED
    BY <1>2, <1>5, <2>1 DEF InOrder
<1>9. First(order, k) = First(order, m) \cup {e}
  BY <1>1, <1>2, <1>5 DEF First
<1>10. \A x \in set : x \in First(order, m) \/ x = e \/ \E j \in (k + 1)..Len(order) : order[j] = x
  <2> TAKE x \in set
  <2>1. PICK i \in 1..Len(order) : order[i] = x
    BY DEF InOrder
  <2>2. i \in 1..m \/ i = k \/ i \in (k + 1)..Len(order)
    BY <1>1, <1>5, <2>1
  <2> QED
    BY <1>2, <2>1, <2>2 DEF First
<1>11. \A x \in set : /\ Ranged(x)
                      /\ \/ x \in First(order, m) /\ After(x, e)
                         \/ x = e
                         \/ After(e, x)
  <2>1. \A x \in set : Ranged(x)
    BY DEF InOrder, Fits, EditSet
  <2> QED
    BY <1>7, <1>8, <1>10, <2>1
<1> DEFINE ins == Inserted(First(order, m), s)
<1>12. /\ Pass(text, order)[k].cursor = t
       /\ Pass(text, order)[k].out = Join(Join(P[s], ins), e.replacement)
  <2>1. Pass(text, order)[k] = Passed(text, Pass(text, order)[m], e)
    BY <1>2, <1>5, PassSteps
  <2>2. FreeUpTo(order, m, s)
    <3> SUFFICES ASSUME NEW j \in (m + 1)..Len(order) PROVE s <= order[j].start
      BY DEF FreeUpTo
    <3>1. j = k \/ j \in (k + 1)..Len(order)
      BY <1>1, <1>5
    <3> QED
      BY <1>2, <1>3, <1>6, <1>7, <3>1 DEF After, Ranged
  <2>3. Join(Join(P[Cursor(order, m)], Inserted(First(order, m), Cursor(order, m))),
             Stretch(text, Cursor(order, m), s))
           = Join(P[s], Inserted(First(order, m), s))
    BY <1>4, <1>5, <1>6, <2>2, TextGoesOn
  <2> QED
    BY <1>3, <2>1, <2>3 DEF Done, Passed
<1>13. /\ \A o \in 0..L : P[o + 1] = Join(P[o], Piece(text, set, o))
       /\ \A o \in 0..(L + 1) : P[o] \in Texts(T)
       /\ Fits(text, set, T)
  BY <1>4 DEF WrittenBefore, InOrder
<1>14. P[s] \in Texts(T) /\ ins \in Texts(T) /\ e.replacement \in Texts(T)
  <2>1. First(order, m) \in SUBSET set
    BY <1>5, CursorIsBetween
  <2>2. P[s] \in Texts(T) /\ e.replacement \in Texts(T)
    BY <1>5, <1>6, <1>13 DEF Fits
  <2> QED
    BY <1>13, <2>1, <2>2, PiecesAreTexts
<1>15. Cursor(order, k) = t
  BY <1>2, <1>3, <1>5 DEF Cursor
<1>16. CASE s = t
  <2>1. {x \in First(order, m) : x.start = s /\ x.end = s} = {}
    BY <1>3, <1>6, <1>8, <1>16 DEF After, Ranged
  <2>2. ins = << >>
    BY <2>1 DEF Inserted, TextOf
  <2>3. {x \in First(order, k) : x.start = t /\ x.end = t} = {e}
    BY <1>3, <1>9, <1>16, <2>1
  <2>4. Inserted(First(order, k), t) = e.replacement
    BY <2>3 DEF Inserted, TextOf
  <2>5. Join(P[s], << >>) = P[s]
    BY <1>14, Together
  <2> QED
    BY <1>1, <1>12, <1>15, <1>16, <2>2, <2>4, <2>5 DEF Done
<1>17. CASE s # t
  <2>1. s < t
    BY <1>6, <1>17
  <2>2. Inserted(set, s) = ins
    <3>1. First(order, m) \in SUBSET set
      BY <1>8
    <3>2. {x \in set : x.start = s /\ x.end = s}
              = {x \in First(order, m) : x.start = s /\ x.end = s}
      BY <1>3, <1>6, <1>11, <2>1, <3>1 DEF After, Ranged
    <3> QED
      BY <3>2 DEF Inserted
  <2>3. Replaced(set, s) = e.replacement
    <3>1. {x \in set : x.start = s /\ x.end # s} = {e}
      BY <1>3, <1>6, <1>11, <2>1 DEF After, Ranged
    <3> QED
      BY <3>1 DEF Replaced, TextOf
  <2>4. \A o \in s..(t - 1) : Kept(text, set, o) = << >>
    BY <1>3, <1>6 DEF Kept
  <2>5. P[s + 1] = Join(Join(P[s], ins), e.replacement)
    <3>1. s \in s..(t - 1)
      BY <1>6, <2>1
    <3>2. P[s + 1] = Join(P[s], Join(Join(ins, e.replacement), << >>))
      BY <1>6, <1>13, <2>2, <2>3, <2>4, <3>1 DEF Piece
    <3> HIDE DEF ins
    <3>3. Join(ins, e.replacement) \in Texts(T)
      BY <1>14, Together
    <3>4. Join(Join(ins, e.replacement), << >>) = Join(ins, e.replacement)
      BY <3>3, Together
    <3>5. Join(Join(P[s], ins), e.replacement) = Join(P[s], Join(ins, e.replacement))
      BY <1>14, Regroup
    <3> QED
      BY <3>2, <3>4, <3>5
  <2>6. \A o \in (s + 1)..(t - 1) : P[o + 1] = P[o]
    <3> TAKE o \in (s + 1)..(t - 1)
    <3>1. o \in s..(t - 1) /\ o \in 0..L /\ o \in 0..(L + 1) /\ o \in Nat
      BY <1>5, <1>6
    <3>2. \A x \in set : x.start # o
      <4> TAKE x \in set
      <4>1. CASE x \in First(order, m) /\ After(x, e)
        BY <1>3, <1>6, <1>11, <4>1 DEF After, Ranged
      <4>2. CASE x = e
        BY <1>3, <1>6, <4>2
      <4>3. CASE After(e, x)
        BY <1>3, <1>6, <1>11, <4>3 DEF After, Ranged
      <4> QED
        BY <1>11, <4>1, <4>2, <4>3
    <3>3. Inserted(set, o) = << >> /\ Replaced(set, o) = << >> /\ Kept(text, set, o) = << >>
      <4>1. {x \in set : x.start = o /\ x.end = o} = {}
        BY <3>2
      <4>2. {x \in set : x.start = o /\ x.end # o} = {}
        BY <3>2
      <4> QED
        BY <2>4, <3>1, <4>1, <4>2 DEF Inserted, Replaced, TextOf
    <3>4. Piece(text, set, o) = << >>
      BY <3>3, Together DEF Piece
    <3>5. P[o + 1] = Join(P[o], << >>) /\ P[o] \in Texts(T)
      BY <1>13, <3>1, <3>4
    <3> QED
      BY <3>5, Together
  <2>7. P[t] = P[s + 1]
    <3> DEFINE S == {o \in Nat : P[o] = P[s + 1]}
    <3>1. s + 1 \in S /\ s + 1 \in Nat
      BY <1>6
    <3>2. \A o \in (s + 1)..(t - 1) : o \in S => o + 1 \in S
      BY <1>6, <2>6
    <3> HIDE DEF S
    <3>3. \A o \in (s + 1)..t : o \in S
      BY <1>6, <3>1, <3>2, Upward
    <3>4. t \in (s + 1)..t
      BY <1>6, <2>1
    <3> QED
      BY <3>3, <3>4 DEF S
  <2>8. {x \in First(order, k) : x.start = t /\ x.end = t} = {}
    BY <1>3, <1>6, <1>8, <1>9, <2>1 DEF After, Ranged
  <2>9. Inserted(First(order, k), t) = << >>
    BY <2>8 DEF Inserted, TextOf
  <2>10. P[t] \in Texts(T)
    BY <1>5, <1>6, <1>13
  <2>11. Join(P[t], << >>) = P[t]
    BY <2>10, Together
  <2> QED
    BY <1>1, <1>12, <1>15, <2>5, <2>7, <2>9, <2>11 DEF Done
<1> QED
  BY <1>16, <1>17

\* What apply.rs writes in one pass, with a cursor and in the order of the edits,
\* is what they mean offset by offset and in no order: each insertion and each
\* replacement once, at its place, and every token none of them covers.
THEOREM SpliceIsPatched ==
    ASSUME NEW T, NEW text \in Seq(T), NEW set, EditSet(set),
           \A e \in set : e.end <= Len(text) /\ e.replacement \in Seq(T),
           \A e, g \in set : e # g => Apart(e, g)
    PROVE  Splice(text, set) = Patched(text, set) /\ Splice(text, set) \in Seq(T)
<1>1. PICK order : order = Sorted(set)
  OBVIOUS
<1>2. Fits(text, set, T)
  BY DEF Fits, Texts
<1>3. Ordered(order, set) /\ InOrder(text, set, order, T) /\ order \in Seq(set)
  BY <1>1, <1>2, SortedIsOrdered, PlansAreInOrder DEF Ordered
<1>4. PICK P : WrittenBefore(P, text, set, T) /\ Patched(text, set) = P[Len(text) + 1]
  BY <1>2, PatchedSteps
<1>5. PICK n, L : n = Len(order) /\ L = Len(text)
  OBVIOUS
<1>6. n \in Nat /\ L \in Nat
  BY <1>3, <1>5 DEF InOrder
<1>7. Done(text, set, order, P, 0)
  <2>1. Pass(text, order)[0].cursor = 0 /\ Pass(text, order)[0].out = << >>
    BY <1>3, PassSteps DEF Unwritten
  <2>2. P[0] = << >>
    BY <1>4 DEF WrittenBefore
  <2>3. First(order, 0) = {}
    BY DEF First
  <2>4. Inserted(First(order, 0), 0) = << >>
    BY <2>3 DEF Inserted, TextOf
  <2>5. Join(<< >>, << >>) = << >>
    BY Together
  <2> QED
    BY <2>1, <2>2, <2>4, <2>5 DEF Done, Cursor
<1>8. Done(text, set, order, P, n)
  <2> DEFINE S == {k \in Nat : Done(text, set, order, P, k)}
  <2>1. 0 \in S
    BY <1>7
  <2>2. \A k \in 0..(n - 1) : k \in S => k + 1 \in S
    BY <1>3, <1>4, <1>5, <1>6, OneMore
  <2> HIDE DEF S
  <2>3. \A k \in 0..n : k \in S
    BY <1>6, <2>1, <2>2, Upward
  <2> QED
    BY <1>6, <2>3 DEF S
<1>9. Splice(text, set) = Join(Pass(text, order)[n].out, Stretch(text, Cursor(order, n), L))
  BY <1>1, <1>5, <1>8 DEF Splice, Join, Stretch, Done
<1>10. Cursor(order, n) \in 0..L
  BY <1>3, <1>5, <1>6, CursorIsBetween
<1>11. L \in Cursor(order, n)..L /\ FreeUpTo(order, n, L) /\ n \in 0..n
  BY <1>5, <1>6, <1>10 DEF FreeUpTo
<1>12. Splice(text, set) = Join(P[L], Inserted(First(order, n), L))
  BY <1>3, <1>4, <1>5, <1>8, <1>9, <1>11, TextGoesOn DEF Done
<1>13. First(order, n) = set
  BY <1>3, <1>5 DEF First, InOrder
<1>14. \A e \in set : Ranged(e) /\ e.end <= L
  BY <1>2, <1>5 DEF Fits, EditSet
<1>15. Replaced(set, L) = << >>
  <2>1. {e \in set : e.start = L /\ e.end # L} = {}
    BY <1>6, <1>14 DEF Ranged
  <2> QED
    BY <2>1 DEF Replaced, TextOf
<1>16. Kept(text, set, L) = << >>
  BY <1>5, <1>6 DEF Kept
<1>17. Inserted(set, L) \in Texts(T)
  BY <1>2, PiecesAreTexts
<1>18. Piece(text, set, L) = Inserted(set, L)
  BY <1>15, <1>16, <1>17, Together DEF Piece
<1>19. P[L + 1] = Join(P[L], Inserted(set, L)) /\ P[L + 1] \in Texts(T)
  BY <1>4, <1>5, <1>6, <1>18 DEF WrittenBefore
<1> QED
  BY <1>4, <1>5, <1>12, <1>13, <1>19 DEF Texts

=============================================================================
