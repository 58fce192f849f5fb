-------------------------- MODULE HierarchyProofs --------------------------
(***************************************************************************)
(* What the proof system checks of Hierarchy, for any class-likes, however *)
(* their traits nest and their parents close cycles: whose `self` a pasted *)
(* method speaks of, and where a question about an inherited one ends.     *)
(***************************************************************************)
EXTENDS Hierarchy, SequenceTheorems, FiniteSetTheorems, WellFoundedInduction, TLAPS

OwnEntry(k, n) == [owner |-> k, method |-> n, origin |-> "own", anchor |-> NoKey]

\* The class-like `k` is the one walked from, or one that it inherits from.
Inherits(k, from, followed) ==
    \/ k = from
    \/ \E i \in DOMAIN followed :
          followed[i].relation \in {"extends", "implements"} /\ followed[i].target = k

ItemIsSound(item) ==
    /\ IsClass(item.key)
    /\ \/ item = Item(root, "own", NoKey, Unadapted)
       \/ /\ item.origin = "inherited" /\ item.adapt = Unadapted
          /\ item.anchor = NoKey /\ Inherits(item.key, root, ancestry)
       \/ /\ item.origin = "trait" /\ item.anchor \in Keys
          /\ Pasted(item.anchor, item.key) /\ Inherits(item.anchor, root, ancestry)

EdgeIsSound(item, edge) ==
    /\ ItemIsSound(item)
    /\ edge.relation \in {"uses", "extends", "implements", "implicit"}
    /\ edge.relation = "uses" =>
          \E i \in DOMAIN Declared(item.key).uses : Declared(item.key).uses[i].trait = edge.target

EntryIsSound(entry, name, from, followed) ==
    entry # NoEntry =>
        /\ IsClass(entry.owner) /\ DeclaresItself(entry.owner, entry.method)
        /\ entry.anchor \in Keys \cup {NoKey}
        /\ entry.origin \in {"own", "trait", "inherited"}
        /\ entry.origin = "own" => entry = OwnEntry(from, name)
        /\ entry.origin = "trait" =>
              /\ entry.anchor \in Keys
              /\ Pasted(entry.anchor, entry.owner) /\ Inherits(entry.anchor, from, followed)
        /\ entry.origin = "inherited" => entry.method = name

\* The entries of a walk, or of a finished table.
EntriesAreSound(entries, from, followed) ==
    \A n \in Names : EntryIsSound(entries[n], n, from, followed)

OwnFirst(entries, k) == \A n \in Names : DeclaresItself(k, n) => entries[n] = OwnEntry(k, n)

QueueIsSound == IsList(queue) /\ \A i \in DOMAIN queue : ItemIsSound(queue[i])

EdgesAreSound == IsList(edges) /\ \A i \in DOMAIN edges : EdgeIsSound(edges[i][1], edges[i][2])

WalkIsSound ==
    root # NoKey =>
        /\ IsClass(root)
        /\ QueueIsSound /\ EdgesAreSound /\ IsList(ancestry)
        /\ EntriesAreSound(members, root, ancestry)
        /\ visited = {} => /\ queue = <<Item(root, "own", NoKey, Unadapted)>>
                           /\ edges = << >> /\ members = Untouched
        /\ visited # {} => OwnFirst(members, root)

TablesAreSound ==
    /\ DOMAIN tables = Keys
    /\ \A k \in Keys : Linearized(k) =>
          /\ EntriesAreSound(tables[k].members, k, tables[k].ancestry)
          /\ OwnFirst(tables[k].members, k)

HierarchyInvariant == WalkIsSound /\ TablesAreSound

----------------------------------------------------------------------------
(* Lists                                                                    *)

LEMMA ListOf ==
    ASSUME NEW S, NEW t \in Seq(S)
    PROVE  IsList(t)
<1> DEFINE n == Len(t)
           R == {t[i] : i \in DOMAIN t}
<1>1. n \in Nat /\ t \in [1..n -> S] /\ DOMAIN t = 1..n
  BY LenProperties
<1>2. t \in [1..n -> R]
  BY <1>1
<1> HIDE DEF n, R
<1>3. t \in Seq(R)
  BY <1>1, <1>2, SeqDef
<1> QED
  BY <1>3 DEF IsList, R

LEMMA EmptyList == IsList(<< >>) /\ DOMAIN << >> = {}
<1>1. << >> \in Seq({}) /\ Len(<< >>) = 0
  BY EmptySeq
<1>2. DOMAIN << >> = 1..0
  BY <1>1, LenProperties
<1>3. IsList(<< >>)
  BY <1>1, ListOf
<1> QED
  BY <1>2, <1>3

LEMMA OneItem ==
    ASSUME NEW x
    PROVE  IsList(<<x>>) /\ DOMAIN <<x>> = {1} /\ <<x>>[1] = x
<1>1. <<x>> \in Seq({x}) /\ Len(<<x>>) = 1 /\ <<x>>[1] = x
  BY SeqDef
<1>2. DOMAIN <<x>> = 1..1
  BY <1>1, LenProperties
<1>3. IsList(<<x>>)
  BY <1>1, ListOf
<1> QED
  BY <1>1, <1>2, <1>3

LEMMA ListTail ==
    ASSUME NEW s, IsList(s), s # << >>
    PROVE  /\ IsList(Tail(s))
           /\ \A i \in DOMAIN Tail(s) : i + 1 \in DOMAIN s /\ Tail(s)[i] = s[i + 1]
           /\ 1 \in DOMAIN s /\ Head(s) = s[1]
<1> DEFINE S == {s[i] : i \in DOMAIN s}
           t == Tail(s)
<1>1. /\ t \in Seq(S) /\ Len(t) = Len(s) - 1 /\ DOMAIN t = 1..Len(t)
      /\ \A i \in 1..Len(t) : t[i] = s[i + 1]
      /\ DOMAIN s = 1..Len(s) /\ Len(s) \in Nat \ {0} /\ Head(s) = s[1]
  BY LenProperties, HeadTailProperties DEF IsList
<1>2. IsList(t)
  BY <1>1, ListOf
<1> QED
  BY <1>1, <1>2

LEMMA ListAppend ==
    ASSUME NEW s, IsList(s), NEW x
    PROVE  /\ IsList(Append(s, x))
           /\ \A i \in DOMAIN s : i \in DOMAIN Append(s, x) /\ Append(s, x)[i] = s[i]
           /\ \A i \in DOMAIN Append(s, x) : i \in DOMAIN s \/ Append(s, x)[i] = x
           /\ \E i \in DOMAIN Append(s, x) : Append(s, x)[i] = x
<1> DEFINE S == {s[i] : i \in DOMAIN s} \cup {x}
           t == Append(s, x)
<1>1. s \in Seq(S)
  <2>1. {s[i] : i \in DOMAIN s} \subseteq S
    OBVIOUS
  <2>2. s \in Seq({s[i] : i \in DOMAIN s})
    BY DEF IsList
  <2> HIDE DEF S
  <2> QED
    BY <2>1, <2>2, SeqDef
<1>2. /\ t \in Seq(S) /\ Len(t) = Len(s) + 1 /\ Len(s) \in Nat
      /\ DOMAIN s = 1..Len(s) /\ DOMAIN t = 1..(Len(s) + 1)
      /\ \A i \in 1..Len(s) : t[i] = s[i]
      /\ t[Len(s) + 1] = x
  BY <1>1, AppendProperties, LenProperties
<1>3. IsList(t)
  BY <1>2, ListOf
<1> HIDE DEF t
<1> QED
  BY <1>2, <1>3 DEF t

\* The elements of a concatenation are those of its parts.
LEMMA ListConcat ==
    ASSUME NEW s, IsList(s), NEW t, IsList(t)
    PROVE  /\ IsList(s \o t)
           /\ \A i \in DOMAIN (s \o t) :
                 \/ \E j \in DOMAIN s : (s \o t)[i] = s[j]
                 \/ \E j \in DOMAIN t : (s \o t)[i] = t[j]
<1> DEFINE S == {s[i] : i \in DOMAIN s} \cup {t[i] : i \in DOMAIN t}
           r == s \o t
<1>1. s \in Seq(S) /\ t \in Seq(S)
  <2>1. {s[i] : i \in DOMAIN s} \subseteq S /\ {t[i] : i \in DOMAIN t} \subseteq S
    OBVIOUS
  <2>2. s \in Seq({s[i] : i \in DOMAIN s}) /\ t \in Seq({t[i] : i \in DOMAIN t})
    BY DEF IsList
  <2> HIDE DEF S
  <2> QED
    BY <2>1, <2>2, SeqDef
<1>2. r \in Seq(S)
  <2> HIDE DEF S
  <2> QED
    BY <1>1, ConcatProperties
<1>3. IsList(r)
  BY <1>2, ListOf
<1>4. \A i \in DOMAIN r : r[i] \in S
  <2> HIDE DEF S, r
  <2> QED
    BY <1>2, LenProperties, ElementOfSeq
<1> QED
  BY <1>3, <1>4

\* A list of as many as another.
LEMMA ListAlong ==
    ASSUME NEW s, IsList(s), NEW t, DOMAIN t = DOMAIN s, t = [i \in DOMAIN t |-> t[i]]
    PROVE  IsList(t)
<1>1. DOMAIN s = 1..Len(s) /\ Len(s) \in Nat
  BY LenProperties DEF IsList
<1> DEFINE R == {t[i] : i \in DOMAIN t}
           n == Len(s)
<1>2. t \in [1..n -> R]
  BY <1>1
<1> HIDE DEF R, n
<1>3. t \in Seq(R)
  BY <1>1, <1>2, SeqDef DEF n
<1> QED
  BY <1>3 DEF IsList, R

----------------------------------------------------------------------------
(* What a class-like offers                                                 *)

LEMMA LeastNumber ==
    ASSUME NEW S, S \subseteq Nat, S # {}
    PROVE  \E i \in S : \A j \in S : i <= j
<1> DEFINE Gaps == {0..i : i \in S}
<1>1. IsWellFoundedOn(StrictSubsetOrdering(Nat), FiniteSubsetsOf(Nat))
  BY FS_StrictSubsetOrderingWellFounded
<1>2. Gaps \subseteq FiniteSubsetsOf(Nat)
  <2> SUFFICES ASSUME NEW i \in S PROVE 0..i \subseteq Nat /\ IsFiniteSet(0..i)
    BY DEF FiniteSubsetsOf
  <2> QED
    BY FS_Interval
<1>3. Gaps # {}
  OBVIOUS
<1> HIDE DEF Gaps
<1>4. PICK gap \in Gaps : \A other \in Gaps : <<other, gap>> \notin StrictSubsetOrdering(Nat)
  BY <1>1, <1>2, <1>3, WFMin
<1>5. PICK i \in S : gap = 0..i
  BY <1>4 DEF Gaps
<1>6. \A j \in S : i <= j
  <2> SUFFICES ASSUME NEW j \in S, j < i PROVE FALSE
    OBVIOUS
  <2>1. 0..j \subseteq 0..i /\ i \in 0..i /\ i \notin 0..j
    OBVIOUS
  <2>2. 0..j # 0..i /\ 0..i \subseteq Nat
    BY <2>1
  <2>3. <<0..j, 0..i>> \in StrictSubsetOrdering(Nat)
    BY <2>1, <2>2 DEF StrictSubsetOrdering
  <2> QED
    BY <1>4, <1>5, <2>3 DEF Gaps
<1> QED
  BY <1>6

LEMMA FirstOffering ==
    ASSUME NEW S, S \subseteq Nat, S # {}
    PROVE  (CHOOSE i \in S : \A j \in S : i <= j) \in S
BY LeastNumber

\* The method that answers for a name is one the class-like declares, and under
\* its own name where nothing is adapted.
LEMMA Offered ==
    ASSUME NEW item, IsClass(item.key), NEW n \in Names, Offering(item, n) # {}
    PROVE  LET m == Declared(item.key).own[CHOOSE i \in Offering(item, n) :
                                               \A j \in Offering(item, n) : i <= j]
           IN  /\ m \in Names /\ DeclaresItself(item.key, m)
               /\ item.adapt = Unadapted => m = n /\ DeclaresItself(item.key, n)
<1> DEFINE first == CHOOSE i \in Offering(item, n) : \A j \in Offering(item, n) : i <= j
           own == Declared(item.key).own
<1>1. own \in Seq(Names)
  BY HierarchyAssumption DEF IsClass, Declared
<1>2. DOMAIN own = 1..Len(own) /\ Len(own) \in Nat /\ \A i \in DOMAIN own : own[i] \in Names
  BY <1>1, LenProperties, ElementOfSeq
<1>3. Offering(item, n) \subseteq DOMAIN own /\ Offering(item, n) \subseteq Nat
  BY <1>2 DEF Offering
<1>4. first \in Offering(item, n)
  BY <1>3, FirstOffering
<1> HIDE DEF first
<1>5. first \in DOMAIN own /\ own[first] \in Names /\ Offers(item, first, n)
  BY <1>2, <1>3, <1>4 DEF Offering
<1>6. ASSUME item.adapt = Unadapted
      PROVE  own[first] = n
  BY <1>5, <1>6 DEF Offers, Unadapted
<1> QED
  BY <1>5, <1>6 DEF first, DeclaresItself

LEMMA EdgesAreOfTheirOwner ==
    ASSUME NEW k, IsClass(k)
    PROVE  /\ IsList(EdgesOf(k))
           /\ \A i \in DOMAIN EdgesOf(k) :
                 LET e == EdgesOf(k)[i]
                 IN  /\ e.relation \in {"uses", "extends", "implements", "implicit"}
                     /\ e.relation = "uses" =>
                           \E j \in DOMAIN Declared(k).uses : Declared(k).uses[j].trait = e.target
<1> DEFINE d == Declared(k)
           u == [i \in DOMAIN d.uses |-> Edge(k, "uses", d.uses[i].trait)]
           x == [i \in DOMAIN d.extends |-> Edge(k, "extends", d.extends[i])]
           m == [i \in DOMAIN d.implements |-> Edge(k, "implements", d.implements[i])]
           p == IF d.kind = "enum"
                THEN [i \in DOMAIN EnumParents |-> Edge(k, "implicit", EnumParents[i])]
                ELSE << >>
           Sound(e) == /\ e.relation \in {"uses", "extends", "implements", "implicit"}
                       /\ e.relation = "uses" =>
                             \E j \in DOMAIN d.uses : d.uses[j].trait = e.target
<1>1. IsList(d.uses) /\ IsList(d.extends) /\ IsList(d.implements) /\ IsList(EnumParents)
  BY HierarchyAssumption DEF IsClass, Declared
<1>2. IsList(u) /\ \A i \in DOMAIN u : Sound(u[i])
  <2>1. \A i \in DOMAIN u : Sound(u[i])
    BY DEF Edge
  <2>2. DOMAIN u = DOMAIN d.uses /\ u = [i \in DOMAIN u |-> u[i]]
    OBVIOUS
  <2> HIDE DEF u, d
  <2> QED
    BY <1>1, <2>1, <2>2, ListAlong
<1>3. IsList(x) /\ \A i \in DOMAIN x : Sound(x[i])
  <2>1. \A i \in DOMAIN x : Sound(x[i])
    BY DEF Edge
  <2>2. DOMAIN x = DOMAIN d.extends /\ x = [i \in DOMAIN x |-> x[i]]
    OBVIOUS
  <2> HIDE DEF x, d
  <2> QED
    BY <1>1, <2>1, <2>2, ListAlong
<1>4. IsList(m) /\ \A i \in DOMAIN m : Sound(m[i])
  <2>1. \A i \in DOMAIN m : Sound(m[i])
    BY DEF Edge
  <2>2. DOMAIN m = DOMAIN d.implements /\ m = [i \in DOMAIN m |-> m[i]]
    OBVIOUS
  <2> HIDE DEF m, d
  <2> QED
    BY <1>1, <2>1, <2>2, ListAlong
<1>5. IsList(p) /\ \A i \in DOMAIN p : Sound(p[i])
  <2>1. CASE d.kind = "enum"
    <3>1. \A i \in DOMAIN p : Sound(p[i])
      BY <2>1 DEF Edge
    <3>2. DOMAIN p = DOMAIN EnumParents /\ p = [i \in DOMAIN p |-> p[i]]
      BY <2>1
    <3> HIDE DEF p, d
    <3> QED
      BY <1>1, <3>1, <3>2, ListAlong
  <2>2. CASE d.kind # "enum"
    <3>1. p = << >>
      BY <2>2
    <3> HIDE DEF p, d
    <3> QED
      BY <3>1, EmptyList
  <2> QED
    BY <2>1, <2>2
<1>6. EdgesOf(k) = ((u \o x) \o m) \o p
  BY DEF EdgesOf
<1> HIDE DEF u, x, m, p, d, Sound
<1>7. IsList(u \o x) /\ \A i \in DOMAIN (u \o x) : Sound((u \o x)[i])
  BY <1>2, <1>3, ListConcat
<1>8. IsList((u \o x) \o m) /\ \A i \in DOMAIN ((u \o x) \o m) : Sound(((u \o x) \o m)[i])
  BY <1>4, <1>7, ListConcat
<1> DEFINE first == (u \o x) \o m
           all == first \o p
<1>9. IsList(EdgesOf(k)) /\ \A i \in DOMAIN EdgesOf(k) : Sound(EdgesOf(k)[i])
  <2>1. IsList(first) /\ \A i \in DOMAIN first : Sound(first[i])
    BY <1>8
  <2> HIDE DEF first
  <2>2. IsList(all) /\ \A i \in DOMAIN all : Sound(all[i])
    BY <1>5, <2>1, ListConcat
  <2>3. EdgesOf(k) = all
    BY <1>6 DEF first
  <2> HIDE DEF all
  <2> QED
    BY <2>2, <2>3
<1> QED
  BY <1>9 DEF Sound, d

----------------------------------------------------------------------------
(* Steps                                                                    *)

\* Following more edges takes nothing away.
LEMMA MoreFollowed ==
    ASSUME NEW followed, IsList(followed), NEW e, NEW k, NEW from, Inherits(k, from, followed)
    PROVE  Inherits(k, from, Append(followed, e))
BY ListAppend DEF Inherits

\* What is said of texts and of a given table or walk depends on nothing else.
LEMMA SamePrograms ==
    ASSUME UNCHANGED program
    PROVE  /\ \A k : IsClass(k)' <=> IsClass(k)
           /\ \A k : Declared(k)' = Declared(k)
           /\ \A anchor, owner : Pasted(anchor, owner)' <=> Pasted(anchor, owner)
           /\ \A k, n : DeclaresItself(k, n)' <=> DeclaresItself(k, n)
           /\ \A entries, k, followed :
                 EntriesAreSound(entries, k, followed)' <=> EntriesAreSound(entries, k, followed)
           /\ \A entries, k : OwnFirst(entries, k)' <=> OwnFirst(entries, k)
<1>1. \A k : IsClass(k)' <=> IsClass(k)
  BY DEF IsClass
<1>2. \A k : Declared(k)' = Declared(k)
  BY DEF Declared
<1>3. \A anchor, owner : Pasted(anchor, owner)' <=> Pasted(anchor, owner)
  <2>1. ClassKeys' = ClassKeys
    BY <1>1 DEF ClassKeys
  <2> QED
    BY <1>1, <1>2, <2>1 DEF Pasted
<1>4. \A k, n : DeclaresItself(k, n)' <=> DeclaresItself(k, n)
  BY <1>2 DEF DeclaresItself
<1>5. \A entry, name, from, followed :
         EntryIsSound(entry, name, from, followed)' <=> EntryIsSound(entry, name, from, followed)
  BY <1>1, <1>3, <1>4 DEF EntryIsSound, Inherits, OwnEntry
<1>6. \A entries, k, followed :
         EntriesAreSound(entries, k, followed)' <=> EntriesAreSound(entries, k, followed)
  BY <1>5 DEF EntriesAreSound
<1>7. \A entries, k : OwnFirst(entries, k)' <=> OwnFirst(entries, k)
  BY <1>4 DEF OwnFirst
<1> QED
  BY <1>1, <1>2, <1>3, <1>4, <1>6, <1>7

LEMMA TablesStand ==
    ASSUME TablesAreSound, UNCHANGED <<program, tables>>
    PROVE  TablesAreSound'
<1> SUFFICES ASSUME NEW k \in Keys, Linearized(k)'
             PROVE  /\ EntriesAreSound(tables[k].members, k, tables[k].ancestry)'
                    /\ OwnFirst(tables[k].members, k)'
  BY DEF TablesAreSound
<1>1. PICK table : table = tables[k]
  OBVIOUS
<1>2. EntriesAreSound(table.members, k, table.ancestry) /\ OwnFirst(table.members, k)
  BY <1>1 DEF TablesAreSound, Linearized
<1>3. EntriesAreSound(table.members, k, table.ancestry)' /\ OwnFirst(table.members, k)'
  BY <1>2, SamePrograms
<1> QED
  BY <1>1, <1>3

LEMMA BeginKeeps ==
    ASSUME HierarchyInvariant, NEW k, BeginWalk(k)
    PROVE  HierarchyInvariant'
<1>1. /\ IsClass(k) /\ root' = k /\ program' = program /\ tables' = tables
      /\ queue' = <<Item(k, "own", NoKey, Unadapted)>> /\ visited' = {} /\ edges' = << >>
      /\ ancestry' = << >> /\ members' = Untouched
  BY DEF BeginWalk
<1>2. TablesAreSound'
  BY <1>1, TablesStand DEF HierarchyInvariant
<1>3. IsClass(k)'
  BY <1>1 DEF IsClass
<1>4. QueueIsSound'
  <2> DEFINE x == Item(k, "own", NoKey, Unadapted)
  <2>1. ItemIsSound(x)'
    BY <1>1, <1>3 DEF ItemIsSound, Item, IsClass
  <2>2. queue' = <<x>>
    BY <1>1
  <2> HIDE DEF x
  <2>3. IsList(queue') /\ DOMAIN queue' = {1} /\ queue'[1] = x
    BY <2>2, OneItem
  <2> QED
    BY <2>1, <2>3 DEF QueueIsSound
<1>5. EdgesAreSound' /\ IsList(ancestry)'
  BY <1>1, EmptyList DEF EdgesAreSound
<1>6. EntriesAreSound(members, root, ancestry)'
  BY <1>1 DEF EntriesAreSound, EntryIsSound, Untouched
<1>7. IsClass(root)'
  BY <1>1, <1>3 DEF IsClass
<1> QED
  BY <1>1, <1>2, <1>4, <1>5, <1>6, <1>7 DEF HierarchyInvariant, WalkIsSound

LEMMA RevisitKeeps ==
    ASSUME HierarchyInvariant, Revisit
    PROVE  HierarchyInvariant'
<1>1. /\ root # NoKey /\ queue # << >> /\ queue' = Tail(queue) /\ Head(queue).key \in visited
      /\ UNCHANGED <<program, root, visited, edges, members, ancestry, tables>>
  BY DEF Revisit
<1>2. TablesAreSound'
  BY <1>1, TablesStand DEF HierarchyInvariant
<1>3. IsList(queue') /\ \A i \in DOMAIN queue' : \E j \in DOMAIN queue : queue'[i] = queue[j]
  BY <1>1, ListTail DEF HierarchyInvariant, WalkIsSound, QueueIsSound
<1>4. \A item : ItemIsSound(item)' <=> ItemIsSound(item)
  BY <1>1 DEF ItemIsSound, IsClass, Pasted, ClassKeys, Declared
<1>5. \A item, edge : EdgeIsSound(item, edge)' <=> EdgeIsSound(item, edge)
  BY <1>1, <1>4 DEF EdgeIsSound, Declared
<1>6. EntriesAreSound(members, root, ancestry)'
  BY <1>1 DEF HierarchyInvariant, WalkIsSound, EntriesAreSound, EntryIsSound, Pasted, ClassKeys,
     IsClass, Declared, DeclaresItself
<1>7. IsClass(root)' /\ (OwnFirst(members, root)' <=> OwnFirst(members, root))
  BY <1>1 DEF HierarchyInvariant, WalkIsSound, IsClass, OwnFirst, DeclaresItself, Declared
<1>8. QueueIsSound' /\ EdgesAreSound'
  BY <1>1, <1>3, <1>4, <1>5 DEF HierarchyInvariant, WalkIsSound, QueueIsSound, EdgesAreSound
<1>9. visited' # {}
  BY <1>1
<1> QED
  BY <1>1, <1>2, <1>6, <1>7, <1>8, <1>9 DEF HierarchyInvariant, WalkIsSound

LEMMA VisitKeeps ==
    ASSUME HierarchyInvariant, Visit
    PROVE  HierarchyInvariant'
<1> DEFINE item == Head(queue)
<1>1. /\ root # NoKey /\ queue # << >> /\ queue' = Tail(queue) /\ edges = << >>
      /\ visited' = visited \cup {item.key}
      /\ members' = [n \in Names |-> FirstEntry(item, n)]
      /\ edges' = [i \in DOMAIN EdgesOf(item.key) |-> <<item, EdgesOf(item.key)[i]>>]
      /\ UNCHANGED <<program, root, ancestry, tables>>
  BY DEF Visit
<1>2. TablesAreSound'
  BY <1>1, TablesStand DEF HierarchyInvariant
<1>3. /\ IsList(queue') /\ \A i \in DOMAIN queue' : \E j \in DOMAIN queue : queue'[i] = queue[j]
      /\ 1 \in DOMAIN queue /\ item = queue[1]
  BY <1>1, ListTail DEF HierarchyInvariant, WalkIsSound, QueueIsSound
<1>4. ItemIsSound(item)
  BY <1>1, <1>3 DEF HierarchyInvariant, WalkIsSound, QueueIsSound
<1> HIDE DEF item
<1>5. \A x : ItemIsSound(x)' <=> ItemIsSound(x)
  BY <1>1 DEF ItemIsSound, IsClass, Pasted, ClassKeys, Declared
<1>6. \A x, e : EdgeIsSound(x, e)' <=> EdgeIsSound(x, e)
  BY <1>1, <1>5 DEF EdgeIsSound, Declared
<1>7. IsList(edges') /\ \A i \in DOMAIN edges' : EdgeIsSound(edges'[i][1], edges'[i][2])
  <2>1. IsClass(item.key)
    BY <1>4 DEF ItemIsSound
  <2>2. \A i \in DOMAIN edges' : EdgeIsSound(edges'[i][1], edges'[i][2])
    BY <1>1, <1>4, <2>1, EdgesAreOfTheirOwner DEF EdgeIsSound
  <2>3. IsList(EdgesOf(item.key)) /\ DOMAIN edges' = DOMAIN EdgesOf(item.key)
        /\ edges' = [i \in DOMAIN edges' |-> edges'[i]]
    BY <1>1, <2>1, EdgesAreOfTheirOwner
  <2> QED
    BY <2>2, <2>3, ListAlong
<1>8. ASSUME NEW n \in Names
      PROVE  /\ EntryIsSound(members'[n], n, root, ancestry)
             /\ members[n] # NoEntry => members'[n] = members[n]
             /\ members[n] = NoEntry /\ item = Item(root, "own", NoKey, Unadapted)
                /\ DeclaresItself(root, n) => members'[n] = OwnEntry(root, n)
  <2>1. members'[n] = FirstEntry(item, n) /\ EntryIsSound(members[n], n, root, ancestry)
    BY <1>1 DEF HierarchyInvariant, WalkIsSound, EntriesAreSound
  <2>2. CASE members[n] # NoEntry
    BY <2>1, <2>2 DEF FirstEntry
  <2>3. CASE members[n] = NoEntry /\ Offering(item, n) = {}
    <3>1. members'[n] = NoEntry
      BY <2>1, <2>3 DEF FirstEntry
    <3>2. ASSUME item = Item(root, "own", NoKey, Unadapted), DeclaresItself(root, n)
          PROVE  FALSE
      <4>1. PICK i \in DOMAIN Declared(root).own : Declared(root).own[i] = n
        BY <3>2 DEF DeclaresItself
      <4>2. item.key = root /\ item.adapt.losers = {}
        BY <3>2 DEF Item, Unadapted
      <4>3. i \in Offering(item, n)
        BY <4>1, <4>2 DEF Offering, Offers
      <4> QED
        BY <2>3, <4>3
    <3> QED
      BY <2>3, <3>1, <3>2 DEF EntryIsSound
  <2>4. CASE members[n] = NoEntry /\ Offering(item, n) # {}
    <3> DEFINE m == Declared(item.key).own[CHOOSE i \in Offering(item, n) :
                                              \A j \in Offering(item, n) : i <= j]
    <3>1. members'[n] = Entry(item, m)
      BY <2>1, <2>4 DEF FirstEntry
    <3>2. IsClass(item.key) /\ m \in Names /\ DeclaresItself(item.key, m)
          /\ (item.adapt = Unadapted => m = n /\ DeclaresItself(item.key, n))
      BY <1>4, <2>4, Offered DEF ItemIsSound
    <3> HIDE DEF m
    <3>3. item = Item(root, "own", NoKey, Unadapted) => members'[n] = OwnEntry(root, n)
      BY <3>1, <3>2 DEF Entry, Item, OwnEntry
    <3>4. EntryIsSound(members'[n], n, root, ancestry)
      <4>1. CASE item = Item(root, "own", NoKey, Unadapted)
        BY <1>4, <3>1, <3>2, <3>3, <4>1 DEF EntryIsSound, Entry, ItemIsSound, Item, OwnEntry
      <4>2. CASE item # Item(root, "own", NoKey, Unadapted)
        BY <1>4, <3>1, <3>2, <4>2 DEF EntryIsSound, Entry, ItemIsSound
      <4> QED
        BY <4>1, <4>2
    <3> QED
      BY <2>4, <3>3, <3>4
  <2> QED
    BY <2>2, <2>3, <2>4
<1>9. EntriesAreSound(members, root, ancestry)'
  <2>1. PICK entries, from, followed : entries = members' /\ from = root /\ followed = ancestry
    OBVIOUS
  <2>2. EntriesAreSound(entries, from, followed)
    BY <1>8, <2>1 DEF EntriesAreSound
  <2>3. EntriesAreSound(entries, from, followed)'
    BY <1>1, <2>2, SamePrograms
  <2>4. members' = entries /\ root' = from /\ ancestry' = followed
    BY <1>1, <2>1
  <2> QED
    BY <2>3, <2>4
<1>10. OwnFirst(members', root)
  <2>1. CASE visited = {}
    <3>1. item = Item(root, "own", NoKey, Unadapted) /\ \A n \in Names : members[n] = NoEntry
      <4>1. queue = <<Item(root, "own", NoKey, Unadapted)>> /\ members = Untouched
        BY <1>1, <2>1 DEF HierarchyInvariant, WalkIsSound
      <4>2. queue[1] = Item(root, "own", NoKey, Unadapted)
        BY <4>1, OneItem
      <4> QED
        BY <1>3, <4>1, <4>2 DEF Untouched
    <3> QED
      BY <1>8, <3>1 DEF OwnFirst
  <2>2. CASE visited # {}
    <3>1. OwnFirst(members, root) /\ IsClass(root)
      BY <1>1, <2>2 DEF HierarchyInvariant, WalkIsSound
    <3>2. \A n \in Names : OwnEntry(root, n) # NoEntry
      BY <3>1, HierarchyAssumption DEF OwnEntry, IsClass
    <3> QED
      BY <1>8, <3>1, <3>2 DEF OwnFirst
  <2> QED
    BY <2>1, <2>2
<1>11. IsClass(root)' /\ (OwnFirst(members', root) <=> OwnFirst(members, root)')
  BY <1>1 DEF HierarchyInvariant, WalkIsSound, IsClass, OwnFirst, DeclaresItself, Declared
<1>12. visited' # {}
  BY <1>1
<1>13. IsList(ancestry')
  BY <1>1 DEF HierarchyInvariant, WalkIsSound
<1>14. QueueIsSound'
  BY <1>1, <1>3, <1>5 DEF HierarchyInvariant, WalkIsSound, QueueIsSound
<1>15. EdgesAreSound'
  BY <1>6, <1>7 DEF EdgesAreSound
<1> QED
  BY <1>1, <1>2, <1>9, <1>10, <1>11, <1>12, <1>13, <1>14, <1>15
  DEF HierarchyInvariant, WalkIsSound

\* What an edge leads to is pasted where its item was, or inherited.
LEMMA AcrossIsSound ==
    ASSUME HierarchyInvariant, root # NoKey, UNCHANGED <<program, root>>,
           NEW item, NEW edge, EdgeIsSound(item, edge),
           IsClass(edge.target), edge.relation # "implicit",
           ancestry' = Append(ancestry, edge),
           NEW next,
           next = Item(edge.target, OriginAcross(edge.relation), AnchorAcross(item, edge.relation),
                       IF edge.relation = "uses"
                       THEN Adaptations(item.key, edge.target) ELSE Unadapted)
    PROVE  ItemIsSound(next)'
<1>1. IsList(ancestry) /\ ItemIsSound(item) /\ IsClass(root)
  BY DEF EdgeIsSound, HierarchyInvariant, WalkIsSound
<1>2. IsClass(edge.target)'
  BY DEF IsClass
<1>3. CASE edge.relation = "uses"
  <2> DEFINE anchor == AnchorAcross(item, edge.relation)
             adapt == Adaptations(item.key, edge.target)
  <2>1. anchor \in Keys /\ Inherits(anchor, root, ancestry) /\ Pasted(anchor, item.key)
    <3>1. CASE item.origin = "trait"
      BY <1>1, <1>3, <3>1 DEF AnchorAcross, ItemIsSound, Item
    <3>2. CASE item.origin # "trait"
      <4>1. anchor = item.key /\ IsClass(item.key)
        BY <1>1, <1>3, <3>2 DEF AnchorAcross, ItemIsSound
      <4>2. Inherits(item.key, root, ancestry)
        BY <1>1, <3>2 DEF ItemIsSound, Item, Inherits
      <4>3. Pasted(item.key, item.key)
        BY DEF Pasted
      <4> QED
        BY <4>1, <4>2, <4>3 DEF IsClass
    <3> QED
      BY <3>1, <3>2
  <2>2. PICK j \in DOMAIN Declared(item.key).uses : Declared(item.key).uses[j].trait = edge.target
    BY <1>3 DEF EdgeIsSound
  <2>3. next = Item(edge.target, "trait", anchor, adapt)
    BY <1>3 DEF OriginAcross
  <2> HIDE DEF anchor, adapt
  <2>4. Pasted(anchor, edge.target)
    BY <2>1, <2>2 DEF Pasted
  <2>5. Inherits(anchor, root, Append(ancestry, edge))
    BY <1>1, <2>1, MoreFollowed
  <2>6. /\ next.key = edge.target /\ next.origin = "trait" /\ next.anchor = anchor
    BY <2>3 DEF Item
  <2>7. Pasted(next.anchor, next.key)' /\ Inherits(next.anchor, root, ancestry)'
    <3>1. Pasted(next.anchor, next.key) /\ Inherits(next.anchor, root, Append(ancestry, edge))
      BY <2>4, <2>5, <2>6
    <3> QED
      BY <3>1 DEF Pasted, ClassKeys, IsClass, Declared, Inherits
  <2> QED
    BY <1>2, <2>1, <2>6, <2>7 DEF ItemIsSound, IsClass
<1>4. CASE edge.relation # "uses"
  <2>1. next = Item(edge.target, "inherited", NoKey, Unadapted)
    BY <1>4 DEF OriginAcross, AnchorAcross
  <2>2. edge.relation \in {"extends", "implements"}
    BY <1>4 DEF EdgeIsSound
  <2>3. Inherits(edge.target, root, Append(ancestry, edge))
    BY <1>1, <2>2, ListAppend DEF Inherits
  <2>4. /\ next.key = edge.target /\ next.origin = "inherited" /\ next.adapt = Unadapted
        /\ next.anchor = NoKey
    BY <2>1 DEF Item
  <2>5. Inherits(next.key, root, ancestry)'
    BY <2>3, <2>4 DEF Inherits
  <2> QED
    BY <1>2, <2>4, <2>5 DEF ItemIsSound, IsClass
<1> QED
  BY <1>3, <1>4

LEMMA FollowKeeps ==
    ASSUME HierarchyInvariant, FollowEdge
    PROVE  HierarchyInvariant'
<1>0. root # NoKey /\ edges # << >>
  BY DEF FollowEdge
<1>1. PICK item, edge : item = Head(edges)[1] /\ edge = Head(edges)[2]
  OBVIOUS
<1>13. PICK next : next =
        Item(edge.target, OriginAcross(edge.relation), AnchorAcross(item, edge.relation),
             IF edge.relation = "uses" THEN Adaptations(item.key, edge.target) ELSE Unadapted)
  OBVIOUS
<1>2. /\ ancestry' = IF edge.relation = "implicit" /\ ~IsStub(edge.target)
                     THEN ancestry ELSE Append(ancestry, edge)
      /\ queue' = IF IsClass(edge.target) /\ edge.relation # "implicit"
                  THEN Append(queue, next) ELSE queue
      /\ edges' = Tail(edges)
      /\ UNCHANGED <<program, root, visited, members, tables>>
  BY <1>1, <1>13 DEF FollowEdge
<1>3. /\ IsList(queue) /\ IsList(edges) /\ IsList(ancestry) /\ IsClass(root)
      /\ \A i \in DOMAIN queue : ItemIsSound(queue[i])
      /\ \A i \in DOMAIN edges : EdgeIsSound(edges[i][1], edges[i][2])
      /\ EntriesAreSound(members, root, ancestry)
      /\ visited # {} /\ OwnFirst(members, root)
  BY <1>0 DEF HierarchyInvariant, WalkIsSound, QueueIsSound, EdgesAreSound
<1>4. TablesAreSound'
  BY <1>2, TablesStand DEF HierarchyInvariant
<1>5. EdgeIsSound(item, edge) /\ IsList(edges')
      /\ \A i \in DOMAIN edges' : i + 1 \in DOMAIN edges /\ edges'[i] = edges[i + 1]
  BY <1>0, <1>1, <1>2, <1>3, ListTail
<1>6. IsList(ancestry') /\ \A k : Inherits(k, root, ancestry) => Inherits(k, root, ancestry')
  BY <1>2, <1>3, ListAppend, MoreFollowed
<1>7. \A x : ItemIsSound(x) => ItemIsSound(x)'
  <2> SUFFICES ASSUME NEW x, ItemIsSound(x) PROVE ItemIsSound(x)'
    OBVIOUS
  <2>1. IsClass(x.key)' /\ (Pasted(x.anchor, x.key) => Pasted(x.anchor, x.key)')
    BY <1>2 DEF ItemIsSound, IsClass, Pasted, ClassKeys, Declared
  <2>2. /\ Inherits(x.key, root, ancestry) => Inherits(x.key, root, ancestry)'
        /\ Inherits(x.anchor, root, ancestry) => Inherits(x.anchor, root, ancestry)'
    BY <1>2, <1>6 DEF Inherits
  <2> QED
    BY <1>2, <2>1, <2>2 DEF ItemIsSound
<1>8. \A x, e : EdgeIsSound(x, e) => EdgeIsSound(x, e)'
  BY <1>2, <1>7 DEF EdgeIsSound, Declared
<1>9. EdgesAreSound'
  BY <1>3, <1>5, <1>8 DEF EdgesAreSound
<1>10. QueueIsSound'
  <2>1. CASE IsClass(edge.target) /\ edge.relation # "implicit"
    <3>1. ItemIsSound(next)'
      BY <1>0, <1>2, <1>5, <1>13, <2>1, AcrossIsSound
    <3>2. /\ IsList(queue')
          /\ \A i \in DOMAIN queue' : queue'[i] = next \/ \E j \in DOMAIN queue : queue'[i] = queue[j]
      <4>1. queue' = Append(queue, next)
        BY <1>2, <2>1
      <4>2. \A i \in DOMAIN queue' : i \in DOMAIN queue \/ queue'[i] = next
        BY <1>3, <4>1, ListAppend
      <4>3. \A i \in DOMAIN queue : queue'[i] = queue[i]
        BY <1>3, <4>1, ListAppend
      <4>4. IsList(queue')
        BY <1>3, <4>1, ListAppend
      <4> QED
        BY <4>2, <4>3, <4>4
    <3> QED
      BY <1>3, <1>7, <3>1, <3>2 DEF QueueIsSound
  <2>2. CASE ~(IsClass(edge.target) /\ edge.relation # "implicit")
    BY <1>2, <1>3, <1>7, <2>2 DEF QueueIsSound
  <2> QED
    BY <2>1, <2>2
<1>11. EntriesAreSound(members, root, ancestry)'
  <2> SUFFICES ASSUME NEW n \in Names
               PROVE  EntryIsSound(members[n], n, root, ancestry)'
    BY DEF EntriesAreSound
  <2>1. EntryIsSound(members[n], n, root, ancestry) /\ members'[n] = members[n]
    BY <1>2, <1>3 DEF EntriesAreSound
  <2>2. EntryIsSound(members[n], n, root, ancestry')
    BY <1>6, <2>1 DEF EntryIsSound
  <2> QED
    BY <1>2, <2>2 DEF EntryIsSound, Pasted, ClassKeys, IsClass, Declared, DeclaresItself, Inherits
<1>12. OwnFirst(members, root)' /\ IsClass(root)'
  BY <1>2, <1>3 DEF OwnFirst, DeclaresItself, Declared, IsClass
<1> QED
  BY <1>2, <1>3, <1>4, <1>6, <1>9, <1>10, <1>11, <1>12 DEF HierarchyInvariant, WalkIsSound

LEMMA FinishWalkKeeps ==
    ASSUME HierarchyInvariant, FinishWalk
    PROVE  HierarchyInvariant'
<1>1. /\ root # NoKey /\ root' = NoKey /\ queue = << >> /\ UNCHANGED program
      /\ DOMAIN tables' = DOMAIN tables
      /\ \A k \in DOMAIN tables : k # root => tables'[k] = tables[k]
      /\ root \in DOMAIN tables => /\ tables'[root].members = members
                                   /\ tables'[root].ancestry = ancestry
  BY DEF FinishWalk
<1>2. IsClass(root) /\ EntriesAreSound(members, root, ancestry) /\ OwnFirst(members, root)
  <2>1. visited # {}
    <3>1. << >> # <<Item(root, "own", NoKey, Unadapted)>>
      BY EmptyList, OneItem
    <3> QED
      BY <1>1, <3>1 DEF HierarchyInvariant, WalkIsSound
  <2> QED
    BY <1>1, <2>1 DEF HierarchyInvariant, WalkIsSound
<1>3. \A entries, k, followed :
        EntriesAreSound(entries, k, followed) => EntriesAreSound(entries, k, followed)'
  BY <1>1, SamePrograms
<1>4. \A entries, k : OwnFirst(entries, k) => OwnFirst(entries, k)'
  BY <1>1, SamePrograms
<1>5. TablesAreSound'
  <2> SUFFICES ASSUME NEW k \in Keys, Linearized(k)'
               PROVE  /\ EntriesAreSound(tables[k].members, k, tables[k].ancestry)'
                      /\ OwnFirst(tables[k].members, k)'
    BY <1>1 DEF HierarchyInvariant, TablesAreSound
  <2>1. CASE k = root
    <3>1. PICK entries, followed : entries = members /\ followed = ancestry
      OBVIOUS
    <3>2. tables'[k].members = entries /\ tables'[k].ancestry = followed
      BY <1>1, <2>1, <3>1 DEF HierarchyInvariant, TablesAreSound
    <3>3. EntriesAreSound(entries, k, followed)' /\ OwnFirst(entries, k)'
      BY <1>2, <1>3, <1>4, <2>1, <3>1
    <3> QED
      BY <3>2, <3>3
  <2>2. CASE k # root
    <3>1. tables'[k] = tables[k] /\ Linearized(k)
      BY <1>1, <2>2 DEF HierarchyInvariant, TablesAreSound, Linearized
    <3>2. PICK table : table = tables[k]
      OBVIOUS
    <3>3. EntriesAreSound(table.members, k, table.ancestry)' /\ OwnFirst(table.members, k)'
      BY <1>3, <1>4, <3>1, <3>2 DEF HierarchyInvariant, TablesAreSound
    <3> QED
      BY <3>1, <3>2, <3>3
  <2> QED
    BY <2>1, <2>2
<1> QED
  BY <1>1, <1>5 DEF HierarchyInvariant, WalkIsSound

LEMMA WalkKeeps ==
    ASSUME HierarchyInvariant, Walk
    PROVE  HierarchyInvariant'
BY BeginKeeps, RevisitKeeps, VisitKeeps, FollowKeeps, FinishWalkKeeps DEF Walk

LEMMA HierarchyStands ==
    ASSUME HierarchyInvariant, UNCHANGED <<program, hierarchy>>
    PROVE  HierarchyInvariant'
<1>1. UNCHANGED <<program, root, queue, visited, edges, members, ancestry, tables>>
  BY DEF hierarchy, walking
<1>2. \A entries, k, followed :
        EntriesAreSound(entries, k, followed)' <=> EntriesAreSound(entries, k, followed)
  BY <1>1, SamePrograms
<1>3. \A entries, k : OwnFirst(entries, k)' <=> OwnFirst(entries, k)
  BY <1>1, SamePrograms
<1>4. \A x : ItemIsSound(x)' <=> ItemIsSound(x)
  BY <1>1 DEF ItemIsSound, IsClass, Pasted, ClassKeys, Declared
<1>5. \A x, e : EdgeIsSound(x, e)' <=> EdgeIsSound(x, e)
  BY <1>1, <1>4 DEF EdgeIsSound, Declared
<1>6. QueueIsSound' <=> QueueIsSound
  BY <1>1, <1>4 DEF QueueIsSound
<1>7. EdgesAreSound' <=> EdgesAreSound
  BY <1>1, <1>5 DEF EdgesAreSound
<1>8. IsClass(root)' <=> IsClass(root)
  BY <1>1 DEF IsClass
<1>9. PICK k, entries, followed : k = root /\ entries = members /\ followed = ancestry
  OBVIOUS
<1>10. WalkIsSound'
  <2>1. /\ EntriesAreSound(members, root, ancestry)' <=> EntriesAreSound(members, root, ancestry)
        /\ OwnFirst(members, root)' <=> OwnFirst(members, root)
    BY <1>1, <1>2, <1>3, <1>9
  <2> QED
    BY <1>1, <1>6, <1>7, <1>8, <2>1 DEF HierarchyInvariant, WalkIsSound
<1>11. TablesAreSound'
  BY <1>1, TablesStand DEF HierarchyInvariant
<1> QED
  BY <1>10, <1>11 DEF HierarchyInvariant

\* Between two walks, with no table yet.
LEMMA NoWalk ==
    ASSUME root = NoKey, tables = [k \in Keys |-> NoTable]
    PROVE  HierarchyInvariant
BY DEF HierarchyInvariant, WalkIsSound, TablesAreSound, Linearized

LEMMA SelfFromInvariant == HierarchyInvariant => SelfIsTheUser
BY DEF HierarchyInvariant, TablesAreSound, EntriesAreSound, EntryIsSound, Inherits, SelfIsTheUser

LEMMA RekeyFromInvariant == HierarchyInvariant => RekeyIsOneHop
<1> SUFFICES ASSUME HierarchyInvariant PROVE RekeyIsOneHop
  OBVIOUS
<1> SUFFICES ASSUME NEW k \in Keys, NEW n \in Names, Linearized(k),
                    tables[k].members[n] # NoEntry, tables[k].members[n].origin = "inherited"
             PROVE  LET entry == tables[k].members[n]
                    IN  /\ entry.method = n /\ IsClass(entry.owner)
                        /\ Linearized(entry.owner) =>
                              tables[entry.owner].members[n] = OwnEntry(entry.owner, n)
  BY DEF RekeyIsOneHop, OwnEntry
<1>1. PICK entry : entry = tables[k].members[n]
  OBVIOUS
<1>2. entry.method = n /\ IsClass(entry.owner) /\ DeclaresItself(entry.owner, n)
  BY <1>1 DEF HierarchyInvariant, TablesAreSound, EntriesAreSound, EntryIsSound
<1>3. Linearized(entry.owner) => tables[entry.owner].members[n] = OwnEntry(entry.owner, n)
  BY <1>2 DEF HierarchyInvariant, TablesAreSound, OwnFirst, IsClass
<1> QED
  BY <1>1, <1>2, <1>3

----------------------------------------------------------------------------
(* The order of the walk: what one step from the root leads to is visited   *)
(* before anything further, its traits before its parents.                  *)

RootItem == Item(root, "own", NoKey, Unadapted)

TraitOfRoot(item) ==
    /\ item.origin = "trait" /\ item.anchor = root
    /\ item.key \in Used(root) /\ item.adapt = Adaptations(root, item.key)

ParentOfRoot(item) == item.origin = "inherited" /\ item.key \in Extended(root)

\* One step from the root, over `relation` or one that comes before it.
NoLater(item, relation) == TraitOfRoot(item) \/ (relation = "extends" /\ ParentOfRoot(item))

EarlyEdges(k, relation) ==
    {Edge(k, "uses", t) : t \in Used(k)}
    \cup {Edge(k, "extends", p) : p \in IF relation = "extends" THEN Extended(k) ELSE {}}

Early(pair, relation) == \E e \in EarlyEdges(root, relation) : pair = <<RootItem, e>>

Queued(k, relation) ==
    \E i \in DOMAIN queue :
        queue[i].key = k /\ \A j \in DOMAIN queue : j <= i => NoLater(queue[j], relation)

Awaited(k, relation) ==
    /\ \A j \in DOMAIN queue : NoLater(queue[j], relation)
    /\ \E i \in DOMAIN edges :
          /\ edges[i] = <<RootItem, Edge(root, relation, k)>>
          /\ \A j \in DOMAIN edges : j <= i => Early(edges[j], relation)

Ahead(k, relation) == k \in visited \/ Queued(k, relation) \/ Awaited(k, relation)

WalkInOrder ==
    /\ \A k \in Used(root) : IsClass(k) => Ahead(k, "uses")
    /\ \A k \in Extended(root) : IsClass(k) => Ahead(k, "extends")

\* What answers for a name that `k` does not declare.
InOrder(entry, k, n) ==
    /\ TraitsDeclaring(k, n) # {} => PastedInto(entry, k)
    /\ ParentsDeclaring(k, n) # {} =>
          entry.owner \in ParentsDeclaring(k, n) \/ PastedInto(entry, k)

NameInOrder(n) ==
    IF members[n] = NoEntry
    THEN visited \cap (TraitsDeclaring(root, n) \cup ParentsDeclaring(root, n)) = {}
    ELSE InOrder(members[n], root, n)

OrderOfWalk ==
    root # NoKey /\ visited # {} =>
        /\ WalkInOrder
        /\ \A n \in Names : ~DeclaresItself(root, n) => NameInOrder(n)

TableInOrder(entries, k) ==
    \A n \in Names : ~DeclaresItself(k, n) =>
        IF entries[n] = NoEntry THEN TraitsDeclaring(k, n) \cup ParentsDeclaring(k, n) = {}
        ELSE InOrder(entries[n], k, n)

TablesInOrder == \A k \in Keys : Linearized(k) => TableInOrder(tables[k].members, k)

DepthOneInvariant == HierarchyInvariant /\ OrderOfWalk /\ TablesInOrder

LEMMA ConcatInOrder ==
    ASSUME NEW s, IsList(s), NEW t, IsList(t)
    PROVE  /\ DOMAIN s = 1..Len(s) /\ Len(s) \in Nat /\ DOMAIN t = 1..Len(t) /\ Len(t) \in Nat
           /\ DOMAIN (s \o t) = 1..(Len(s) + Len(t)) /\ Len(s \o t) = Len(s) + Len(t)
           /\ \A i \in DOMAIN s : (s \o t)[i] = s[i]
           /\ \A i \in DOMAIN t : (s \o t)[Len(s) + i] = t[i]
<1> DEFINE S == {s[i] : i \in DOMAIN s} \cup {t[i] : i \in DOMAIN t}
           r == s \o t
<1>1. s \in Seq(S) /\ t \in Seq(S)
  <2>1. {s[i] : i \in DOMAIN s} \subseteq S /\ {t[i] : i \in DOMAIN t} \subseteq S
    OBVIOUS
  <2>2. s \in Seq({s[i] : i \in DOMAIN s}) /\ t \in Seq({t[i] : i \in DOMAIN t})
    BY DEF IsList
  <2> HIDE DEF S
  <2> QED
    BY <2>1, <2>2, SeqDef
<1> HIDE DEF S
<1>2. /\ r \in Seq(S) /\ Len(r) = Len(s) + Len(t)
      /\ \A i \in 1..(Len(s) + Len(t)) :
            r[i] = IF i <= Len(s) THEN s[i] ELSE t[i - Len(s)]
  BY <1>1, ConcatProperties
<1>3. /\ DOMAIN s = 1..Len(s) /\ Len(s) \in Nat /\ DOMAIN t = 1..Len(t) /\ Len(t) \in Nat
      /\ DOMAIN r = 1..Len(r)
  BY <1>1, <1>2, LenProperties
<1> HIDE DEF r
<1>4. /\ \A i \in DOMAIN s : r[i] = s[i]
      /\ \A i \in DOMAIN t : r[Len(s) + i] = t[i]
  BY <1>2, <1>3
<1> QED
  BY <1>2, <1>3, <1>4 DEF r

\* The edges of a class-like begin with its traits, and go on with its parents.
LEMMA EdgesInOrder ==
    ASSUME NEW k, IsClass(k)
    PROVE  \A relation \in {"uses", "extends"} :
           \A t \in IF relation = "uses" THEN Used(k) ELSE Extended(k) :
           \E i \in DOMAIN EdgesOf(k) :
               /\ EdgesOf(k)[i] = Edge(k, relation, t)
               /\ \A j \in DOMAIN EdgesOf(k) : j <= i => EdgesOf(k)[j] \in EarlyEdges(k, relation)
<1> DEFINE d == Declared(k)
           u == [i \in DOMAIN d.uses |-> Edge(k, "uses", d.uses[i].trait)]
           x == [i \in DOMAIN d.extends |-> Edge(k, "extends", d.extends[i])]
           m == [i \in DOMAIN d.implements |-> Edge(k, "implements", d.implements[i])]
           p == IF d.kind = "enum"
                THEN [i \in DOMAIN EnumParents |-> Edge(k, "implicit", EnumParents[i])]
                ELSE << >>
           E == EdgesOf(k)
<1>1. IsList(d.uses) /\ IsList(d.extends) /\ IsList(d.implements) /\ IsList(EnumParents)
  BY HierarchyAssumption DEF IsClass, Declared
<1>2. IsList(u) /\ DOMAIN u = DOMAIN d.uses /\ \A i \in DOMAIN u : u[i] = Edge(k, "uses", d.uses[i].trait)
  <2>1. /\ DOMAIN u = DOMAIN d.uses /\ u = [i \in DOMAIN u |-> u[i]]
        /\ \A i \in DOMAIN u : u[i] = Edge(k, "uses", d.uses[i].trait)
    OBVIOUS
  <2> HIDE DEF u, d
  <2> QED
    BY <1>1, <2>1, ListAlong
<1>3. IsList(x) /\ DOMAIN x = DOMAIN d.extends /\ \A i \in DOMAIN x : x[i] = Edge(k, "extends", d.extends[i])
  <2>1. /\ DOMAIN x = DOMAIN d.extends /\ x = [i \in DOMAIN x |-> x[i]]
        /\ \A i \in DOMAIN x : x[i] = Edge(k, "extends", d.extends[i])
    OBVIOUS
  <2> HIDE DEF x, d
  <2> QED
    BY <1>1, <2>1, ListAlong
<1>4. IsList(m)
  <2>1. DOMAIN m = DOMAIN d.implements /\ m = [i \in DOMAIN m |-> m[i]]
    OBVIOUS
  <2> HIDE DEF m, d
  <2> QED
    BY <1>1, <2>1, ListAlong
<1>5. IsList(p)
  <2>1. CASE d.kind = "enum"
    <3>1. DOMAIN p = DOMAIN EnumParents /\ p = [i \in DOMAIN p |-> p[i]]
      BY <2>1
    <3> HIDE DEF p, d
    <3> QED
      BY <1>1, <3>1, ListAlong
  <2>2. CASE d.kind # "enum"
    <3>1. p = << >>
      BY <2>2
    <3> HIDE DEF p, d
    <3> QED
      BY <3>1, EmptyList
  <2> QED
    BY <2>1, <2>2
<1>6. E = ((u \o x) \o m) \o p
  BY DEF EdgesOf
<1>7. \A t \in Used(k) : \E i \in DOMAIN u : t = d.uses[i].trait
  BY <1>2 DEF Used
<1>8. \A t \in Extended(k) : \E i \in DOMAIN x : t = d.extends[i]
  BY <1>3 DEF Extended
<1>9. \A i \in DOMAIN u : \A relation : u[i] \in EarlyEdges(k, relation)
  BY <1>2 DEF Used, EarlyEdges
<1>10. \A i \in DOMAIN x : x[i] \in EarlyEdges(k, "extends")
  BY <1>3 DEF Extended, EarlyEdges
<1> HIDE DEF u, x, m, p, d, E
<1> DEFINE ux == u \o x
           uxm == ux \o m
<1>11. IsList(ux)
  BY <1>2, <1>3, ListConcat
<1>12. IsList(uxm)
  BY <1>4, <1>11, ListConcat DEF ux
<1>13. /\ DOMAIN u = 1..Len(u) /\ Len(u) \in Nat /\ DOMAIN x = 1..Len(x) /\ Len(x) \in Nat
       /\ DOMAIN ux = 1..(Len(u) + Len(x))
       /\ \A i \in DOMAIN u : ux[i] = u[i]
       /\ \A i \in DOMAIN x : ux[Len(u) + i] = x[i]
  BY <1>2, <1>3, ConcatInOrder
<1> HIDE DEF ux
<1>14. DOMAIN ux \subseteq DOMAIN uxm /\ \A i \in DOMAIN ux : uxm[i] = ux[i]
  BY <1>4, <1>11, ConcatInOrder
<1>15. E = uxm \o p
  BY <1>6 DEF ux
<1> HIDE DEF uxm
<1>16. DOMAIN uxm \subseteq DOMAIN E /\ \A i \in DOMAIN uxm : E[i] = uxm[i]
  BY <1>5, <1>12, <1>15, ConcatInOrder
<1>17. DOMAIN E \subseteq Nat \ {0}
  <2>1. IsList(E)
    BY EdgesAreOfTheirOwner DEF E
  <2> QED
    BY <2>1, EmptyList, ConcatInOrder
<1>18. /\ \A i \in DOMAIN u : i \in DOMAIN E /\ E[i] = u[i]
       /\ \A i \in DOMAIN x : Len(u) + i \in DOMAIN E /\ E[Len(u) + i] = x[i]
  BY <1>13, <1>14, <1>16
<1>19. \A t \in Used(k) : \E i \in DOMAIN E :
           E[i] = Edge(k, "uses", t) /\ \A j \in DOMAIN E : j <= i => E[j] \in EarlyEdges(k, "uses")
  <2> SUFFICES ASSUME NEW t \in Used(k)
               PROVE  \E i \in DOMAIN E : /\ E[i] = Edge(k, "uses", t)
                                          /\ \A j \in DOMAIN E : j <= i => E[j] \in EarlyEdges(k, "uses")
    OBVIOUS
  <2>1. PICK i \in DOMAIN u : t = d.uses[i].trait
    BY <1>7
  <2>2. i \in DOMAIN E /\ E[i] = Edge(k, "uses", t)
    BY <1>2, <1>18, <2>1
  <2>3. \A j \in DOMAIN E : j <= i => j \in DOMAIN u
    BY <1>13, <1>17, <2>1
  <2> QED
    BY <1>9, <1>18, <2>2, <2>3
<1>20. \A t \in Extended(k) : \E i \in DOMAIN E :
           E[i] = Edge(k, "extends", t) /\ \A j \in DOMAIN E : j <= i => E[j] \in EarlyEdges(k, "extends")
  <2> SUFFICES ASSUME NEW t \in Extended(k)
               PROVE  \E i \in DOMAIN E : /\ E[i] = Edge(k, "extends", t)
                                          /\ \A j \in DOMAIN E : j <= i => E[j] \in EarlyEdges(k, "extends")
    OBVIOUS
  <2>1. PICK i \in DOMAIN x : t = d.extends[i]
    BY <1>8
  <2>2. Len(u) + i \in DOMAIN E /\ E[Len(u) + i] = Edge(k, "extends", t)
    BY <1>3, <1>18, <2>1
  <2>3. \A j \in DOMAIN E : j <= Len(u) + i => j \in DOMAIN u \/ \E l \in DOMAIN x : j = Len(u) + l
    <3> SUFFICES ASSUME NEW j \in DOMAIN E, j <= Len(u) + i, j \notin DOMAIN u
                 PROVE  \E l \in DOMAIN x : j = Len(u) + l
      OBVIOUS
    <3>1. j - Len(u) \in DOMAIN x /\ j = Len(u) + (j - Len(u))
      BY <1>13, <1>17, <2>1
    <3> QED
      BY <3>1
  <2>4. \A j \in DOMAIN E : j <= Len(u) + i => E[j] \in EarlyEdges(k, "extends")
    BY <1>9, <1>10, <1>18, <2>3
  <2> QED
    BY <2>2, <2>4
<1> QED
  BY <1>19, <1>20 DEF E

LEMMA TextsInOrder ==
    ASSUME UNCHANGED program
    PROVE  /\ \A k, n : TraitsDeclaring(k, n)' = TraitsDeclaring(k, n)
           /\ \A k, n : ParentsDeclaring(k, n)' = ParentsDeclaring(k, n)
           /\ \A k : Used(k)' = Used(k) /\ Extended(k)' = Extended(k)
           /\ \A k, t : Adaptations(k, t)' = Adaptations(k, t)
           /\ \A entries, k : TableInOrder(entries, k)' <=> TableInOrder(entries, k)
<1>1. \A k : Used(k)' = Used(k) /\ Extended(k)' = Extended(k)
  BY SamePrograms DEF Used, Extended
<1>2. \A k, t : Adaptations(k, t)' = Adaptations(k, t)
  BY DEF Adaptations, Declared
<1>3. \A k, n : /\ TraitsDeclaring(k, n)' = TraitsDeclaring(k, n)
                /\ ParentsDeclaring(k, n)' = ParentsDeclaring(k, n)
  BY <1>1, <1>2, SamePrograms DEF TraitsDeclaring, ParentsDeclaring
<1>4. \A entry, k, n : InOrder(entry, k, n)' <=> InOrder(entry, k, n)
  BY <1>3 DEF InOrder, PastedInto
<1>5. \A entries, k : TableInOrder(entries, k)' <=> TableInOrder(entries, k)
  BY <1>3, <1>4, SamePrograms DEF TableInOrder
<1> QED
  BY <1>1, <1>2, <1>3, <1>5

LEMMA OrderOfTexts ==
    ASSUME UNCHANGED <<program, root>>
    PROVE  /\ RootItem' = RootItem
           /\ \A x, relation : NoLater(x, relation)' <=> NoLater(x, relation)
           /\ \A x, relation : Early(x, relation)' <=> Early(x, relation)
<1>1. RootItem' = RootItem
  BY DEF RootItem
<1>2. \A x : TraitOfRoot(x)' <=> TraitOfRoot(x)
  BY TextsInOrder DEF TraitOfRoot
<1>3. \A x : ParentOfRoot(x)' <=> ParentOfRoot(x)
  BY TextsInOrder DEF ParentOfRoot
<1>4. \A relation : EarlyEdges(root, relation)' = EarlyEdges(root, relation)
  BY TextsInOrder DEF EarlyEdges
<1>5. \A x, relation : NoLater(x, relation)' <=> NoLater(x, relation)
  BY <1>2, <1>3 DEF NoLater
<1>6. \A x, relation : Early(x, relation)' <=> Early(x, relation)
  BY <1>1, <1>4 DEF Early
<1> QED
  BY <1>1, <1>5, <1>6

\* The head of the queue is one step from the root while anything one step from
\* it is still to be visited.
LEMMA HeadIsEarly ==
    ASSUME IsList(queue), queue # << >>, edges = << >>,
           NEW k, NEW relation, Ahead(k, relation), k \notin visited
    PROVE  NoLater(Head(queue), relation)
<1>1. DOMAIN edges = {} /\ Head(queue) = queue[1] /\ 1 \in DOMAIN queue /\ DOMAIN queue = 1..Len(queue)
  BY EmptyList, ListTail, ConcatInOrder
<1>2. Queued(k, relation)
  BY <1>1 DEF Ahead, Awaited
<1>3. PICK i \in DOMAIN queue :
          queue[i].key = k /\ \A j \in DOMAIN queue : j <= i => NoLater(queue[j], relation)
  BY <1>2 DEF Queued
<1> QED
  BY <1>1, <1>3

\* Taking the head of the queue keeps the rest ahead.
LEMMA PopKeepsAhead ==
    ASSUME IsList(queue), queue # << >>, edges = << >>, queue' = Tail(queue),
           UNCHANGED <<program, root>>,
           visited \subseteq visited', Head(queue).key \in visited',
           NEW k, NEW relation, Ahead(k, relation)
    PROVE  Ahead(k, relation)'
<1>1. /\ DOMAIN edges = {} /\ Head(queue) = queue[1] /\ DOMAIN queue = 1..Len(queue)
      /\ Len(queue) \in Nat
  BY EmptyList, ListTail, ConcatInOrder
<1>2. \A x : NoLater(x, relation)' <=> NoLater(x, relation)
  BY OrderOfTexts
<1>3. CASE k \in visited'
  BY <1>3 DEF Ahead
<1>4. CASE k \notin visited'
  <2>1. Queued(k, relation)
    BY <1>1, <1>4 DEF Ahead, Awaited
  <2>2. PICK i \in DOMAIN queue :
            queue[i].key = k /\ \A j \in DOMAIN queue : j <= i => NoLater(queue[j], relation)
    BY <2>1 DEF Queued
  <2>3. i # 1
    BY <1>1, <1>4, <2>2
  <2>4. DOMAIN queue' = 1..(Len(queue) - 1) /\ \A j \in DOMAIN queue' : queue'[j] = queue[j + 1]
    <3>1. IsList(queue') /\ \A j \in DOMAIN queue' : queue'[j] = queue[j + 1]
      BY ListTail
    <3>2. DOMAIN queue' = 1..(Len(queue) - 1)
      BY <1>1, LenProperties, HeadTailProperties DEF IsList
    <3> QED
      BY <3>1, <3>2
  <2>5. i - 1 \in DOMAIN queue' /\ queue'[i - 1].key = k
    BY <1>1, <2>2, <2>3, <2>4
  <2>6. \A j \in DOMAIN queue' : j <= i - 1 => NoLater(queue'[j], relation)
    <3> SUFFICES ASSUME NEW j \in DOMAIN queue', j <= i - 1 PROVE NoLater(queue'[j], relation)
      OBVIOUS
    <3>1. j + 1 \in DOMAIN queue /\ j + 1 <= i /\ queue'[j] = queue[j + 1]
      BY <1>1, <2>2, <2>4
    <3> QED
      BY <2>2, <3>1
  <2>7. Queued(k, relation)'
    BY <1>2, <2>5, <2>6 DEF Queued
  <2> QED
    BY <2>7 DEF Ahead
<1> QED
  BY <1>3, <1>4

LEMMA TablesStandInOrder ==
    ASSUME TablesInOrder, UNCHANGED <<program, tables>>
    PROVE  TablesInOrder'
<1> SUFFICES ASSUME NEW k \in Keys, Linearized(k)' PROVE TableInOrder(tables[k].members, k)'
  BY DEF TablesInOrder
<1>1. PICK entries : entries = tables[k].members
  OBVIOUS
<1>2. TableInOrder(entries, k)
  BY <1>1 DEF TablesInOrder, Linearized
<1>3. TableInOrder(entries, k)'
  BY <1>2, TextsInOrder
<1> QED
  BY <1>1, <1>3

LEMMA NamesStand ==
    ASSUME UNCHANGED <<program, root, visited, members>>
    PROVE  \A n : NameInOrder(n)' <=> NameInOrder(n)
BY TextsInOrder DEF NameInOrder, InOrder, PastedInto

LEMMA RevisitInOrder ==
    ASSUME DepthOneInvariant, Revisit
    PROVE  OrderOfWalk' /\ TablesInOrder'
<1>1. /\ root # NoKey /\ queue # << >> /\ edges = << >> /\ queue' = Tail(queue)
      /\ Head(queue).key \in visited
      /\ UNCHANGED <<program, root, visited, edges, members, tables>>
  BY DEF Revisit
<1>2. IsList(queue) /\ OrderOfWalk /\ TablesInOrder
  BY <1>1 DEF DepthOneInvariant, HierarchyInvariant, WalkIsSound, QueueIsSound
<1>3. \A k, relation : Ahead(k, relation) => Ahead(k, relation)'
  BY <1>1, <1>2, PopKeepsAhead
<1>4. WalkInOrder => WalkInOrder'
  BY <1>1, <1>3, TextsInOrder, SamePrograms DEF WalkInOrder
<1>5. OrderOfWalk'
  <2>1. \A n : NameInOrder(n)' <=> NameInOrder(n)
    BY <1>1, NamesStand
  <2>2. \A k, n : DeclaresItself(k, n)' <=> DeclaresItself(k, n)
    BY <1>1, SamePrograms
  <2> QED
    BY <1>1, <1>2, <1>4, <2>1, <2>2 DEF OrderOfWalk
<1> QED
  BY <1>1, <1>2, <1>5, TablesStandInOrder

LEMMA AppendInOrder ==
    ASSUME NEW s, IsList(s), NEW x
    PROVE  /\ DOMAIN s = 1..Len(s) /\ Len(s) \in Nat
           /\ DOMAIN Append(s, x) = 1..(Len(s) + 1)
           /\ \A i \in DOMAIN s : Append(s, x)[i] = s[i]
           /\ Append(s, x)[Len(s) + 1] = x
<1> DEFINE S == {s[i] : i \in DOMAIN s} \cup {x}
<1>1. s \in Seq(S) /\ x \in S
  <2>1. {s[i] : i \in DOMAIN s} \subseteq S
    OBVIOUS
  <2>2. s \in Seq({s[i] : i \in DOMAIN s})
    BY DEF IsList
  <2> HIDE DEF S
  <2>3. s \in Seq(S)
    BY <2>1, <2>2, SeqDef
  <2> QED
    BY <2>3 DEF S
<1> HIDE DEF S
<1> QED
  BY <1>1, AppendProperties, LenProperties

\* One early edge followed queues one item that is no later.
LEMMA EarlyEdgeQueuesEarly ==
    ASSUME NEW relation \in {"uses", "extends"}, NEW pair, Early(pair, relation), root # NoKey,
           NEW next,
           next = Item(pair[2].target, OriginAcross(pair[2].relation),
                       AnchorAcross(pair[1], pair[2].relation),
                       IF pair[2].relation = "uses"
                       THEN Adaptations(pair[1].key, pair[2].target) ELSE Unadapted)
    PROVE  NoLater(next, relation)
<1>1. PICK e \in EarlyEdges(root, relation) : pair = <<RootItem, e>>
  BY DEF Early
<1>2. RootItem.key = root /\ RootItem.origin = "own" /\ pair[1] = RootItem /\ pair[2] = e
  BY <1>1 DEF RootItem, Item
<1>3. CASE \E t \in Used(root) : e = Edge(root, "uses", t)
  <2>1. PICK t \in Used(root) : e = Edge(root, "uses", t)
    BY <1>3
  <2>2. e.relation = "uses" /\ e.target = t
    BY <2>1 DEF Edge
  <2>3. next = Item(t, "trait", root, Adaptations(root, t))
    BY <1>2, <2>2 DEF OriginAcross, AnchorAcross
  <2>4. /\ next.key = t /\ next.origin = "trait" /\ next.anchor = root
        /\ next.adapt = Adaptations(root, t)
    BY <2>3 DEF Item
  <2> QED
    BY <2>1, <2>4 DEF NoLater, TraitOfRoot
<1>4. CASE relation = "extends" /\ \E p \in Extended(root) : e = Edge(root, "extends", p)
  <2>1. PICK p \in Extended(root) : e = Edge(root, "extends", p)
    BY <1>4
  <2>2. e.relation = "extends" /\ e.target = p
    BY <2>1 DEF Edge
  <2>3. next.key = p /\ next.origin = "inherited"
    BY <1>2, <2>2 DEF OriginAcross, AnchorAcross, Item
  <2> QED
    BY <1>4, <2>1, <2>3 DEF NoLater, ParentOfRoot
<1> QED
  BY <1>1, <1>3, <1>4 DEF EarlyEdges

LEMMA FollowKeepsAhead ==
    ASSUME DepthOneInvariant, FollowEdge, NEW k, IsClass(k),
           NEW relation \in {"uses", "extends"}, Ahead(k, relation)
    PROVE  Ahead(k, relation)'
<1>1. PICK pair : pair = Head(edges)
  OBVIOUS
<1>2. PICK next : next = Item(pair[2].target, OriginAcross(pair[2].relation),
                       AnchorAcross(pair[1], pair[2].relation),
                       IF pair[2].relation = "uses"
                       THEN Adaptations(pair[1].key, pair[2].target) ELSE Unadapted)
  OBVIOUS
<1>3. /\ root # NoKey /\ edges # << >> /\ edges' = Tail(edges)
      /\ queue' = IF IsClass(pair[2].target) /\ pair[2].relation # "implicit"
                  THEN Append(queue, next) ELSE queue
      /\ UNCHANGED <<program, root, visited>>
  BY <1>1, <1>2 DEF FollowEdge
<1>4. IsList(queue) /\ IsList(edges)
  BY <1>3 DEF DepthOneInvariant, HierarchyInvariant, WalkIsSound, QueueIsSound, EdgesAreSound
<1>5. /\ Head(edges) = edges[1] /\ DOMAIN edges = 1..Len(edges) /\ Len(edges) \in Nat
      /\ DOMAIN edges' = 1..(Len(edges) - 1)
      /\ \A j \in DOMAIN edges' : edges'[j] = edges[j + 1]
  <2>1. /\ Head(edges) = edges[1] /\ DOMAIN edges = 1..Len(edges) /\ Len(edges) \in Nat
        /\ \A j \in DOMAIN edges' : edges'[j] = edges[j + 1]
    BY <1>3, <1>4, ListTail, ConcatInOrder
  <2>2. DOMAIN edges' = 1..(Len(edges) - 1)
    BY <1>3, <1>4, LenProperties, HeadTailProperties DEF IsList
  <2> QED
    BY <2>1, <2>2
<1>6. /\ \A x : NoLater(x, relation)' <=> NoLater(x, relation)
      /\ \A x : Early(x, relation)' <=> Early(x, relation)
      /\ RootItem' = RootItem
  BY <1>3, OrderOfTexts
<1>7. /\ DOMAIN queue = 1..Len(queue) /\ Len(queue) \in Nat
      /\ DOMAIN queue \subseteq DOMAIN queue'
      /\ \A j \in DOMAIN queue : queue'[j] = queue[j]
      /\ \A j \in DOMAIN queue' : j \in DOMAIN queue \/ (j = Len(queue) + 1 /\ queue'[j] = next)
  <2>1. CASE queue' = queue
    BY <1>4, <2>1, AppendInOrder
  <2>2. CASE queue' = Append(queue, next)
    <3>1. /\ DOMAIN queue = 1..Len(queue) /\ Len(queue) \in Nat
          /\ DOMAIN queue' = 1..(Len(queue) + 1)
          /\ \A i \in DOMAIN queue : queue'[i] = queue[i]
          /\ queue'[Len(queue) + 1] = next
      BY <1>4, <2>2, AppendInOrder
    <3> QED
      BY <3>1
  <2> QED
    BY <1>3, <2>1, <2>2
<1>8. CASE k \in visited
  BY <1>3, <1>8 DEF Ahead
<1>9. CASE Queued(k, relation)
  <2>1. PICK i \in DOMAIN queue :
            queue[i].key = k /\ \A j \in DOMAIN queue : j <= i => NoLater(queue[j], relation)
    BY <1>9 DEF Queued
  <2>2. i \in DOMAIN queue' /\ queue'[i].key = k
    BY <1>7, <2>1
  <2>3. \A j \in DOMAIN queue' : j <= i => NoLater(queue'[j], relation)
    <3> SUFFICES ASSUME NEW j \in DOMAIN queue', j <= i PROVE NoLater(queue'[j], relation)
      OBVIOUS
    <3>1. j \in DOMAIN queue
      BY <1>7, <2>1
    <3> QED
      BY <1>7, <2>1, <3>1
  <2>4. Queued(k, relation)'
    BY <1>6, <2>2, <2>3 DEF Queued
  <2> QED
    BY <2>4 DEF Ahead
<1>10. CASE Awaited(k, relation)
  <2>1. PICK i \in DOMAIN edges :
            /\ edges[i] = <<RootItem, Edge(root, relation, k)>>
            /\ \A j \in DOMAIN edges : j <= i => Early(edges[j], relation)
    BY <1>10 DEF Awaited
  <2>2. Early(pair, relation)
    BY <1>1, <1>5, <2>1
  <2>3. NoLater(next, relation)
    BY <1>2, <1>3, <2>2, EarlyEdgeQueuesEarly
  <2>4. \A j \in DOMAIN queue' : NoLater(queue'[j], relation)
    BY <1>7, <1>10, <2>3 DEF Awaited
  <2>5. CASE i = 1
    <3>1. pair[2] = Edge(root, relation, k)
      BY <1>1, <1>5, <2>1, <2>5
    <3>2. pair[2].target = k /\ pair[2].relation = relation
      BY <3>1 DEF Edge
    <3>3. queue' = Append(queue, next) /\ next.key = k
      BY <1>2, <1>3, <3>2 DEF Item
    <3>4. Len(queue) + 1 \in DOMAIN queue' /\ queue'[Len(queue) + 1].key = k
      BY <1>4, <3>3, AppendInOrder
    <3>5. Queued(k, relation)'
      BY <1>6, <2>4, <3>4 DEF Queued
    <3> QED
      BY <3>5 DEF Ahead
  <2>6. CASE i # 1
    <3>1. i - 1 \in DOMAIN edges' /\ edges'[i - 1] = <<RootItem, Edge(root, relation, k)>>
      BY <1>5, <2>1, <2>6
    <3>2. \A j \in DOMAIN edges' : j <= i - 1 => Early(edges'[j], relation)
      <4> SUFFICES ASSUME NEW j \in DOMAIN edges', j <= i - 1 PROVE Early(edges'[j], relation)
        OBVIOUS
      <4>1. j + 1 \in DOMAIN edges /\ j + 1 <= i /\ edges'[j] = edges[j + 1]
        BY <1>5, <2>1
      <4> QED
        BY <2>1, <4>1
    <3>3. Awaited(k, relation)'
      BY <1>3, <1>6, <2>4, <3>1, <3>2 DEF Awaited
    <3> QED
      BY <3>3 DEF Ahead
  <2> QED
    BY <2>5, <2>6
<1> QED
  BY <1>8, <1>9, <1>10 DEF Ahead

LEMMA FollowInOrder ==
    ASSUME DepthOneInvariant, FollowEdge
    PROVE  OrderOfWalk' /\ TablesInOrder'
<1>1. /\ root # NoKey /\ edges # << >>
      /\ UNCHANGED <<program, root, visited, members, tables>>
  BY DEF FollowEdge
<1>2. visited # {} /\ OrderOfWalk /\ TablesInOrder
  BY <1>1 DEF DepthOneInvariant, HierarchyInvariant, WalkIsSound
<1>3. WalkInOrder
  BY <1>1, <1>2 DEF OrderOfWalk
<1>4. WalkInOrder'
  BY <1>1, <1>3, FollowKeepsAhead, TextsInOrder, SamePrograms DEF WalkInOrder
<1>5. OrderOfWalk'
  <2>1. \A n : NameInOrder(n)' <=> NameInOrder(n)
    BY <1>1, NamesStand
  <2>2. \A k, n : DeclaresItself(k, n)' <=> DeclaresItself(k, n)
    BY <1>1, SamePrograms
  <2> QED
    BY <1>1, <1>2, <1>4, <2>1, <2>2 DEF OrderOfWalk
<1> QED
  BY <1>1, <1>2, <1>5, TablesStandInOrder

LEMMA BeginInOrder ==
    ASSUME DepthOneInvariant, NEW k, BeginWalk(k)
    PROVE  OrderOfWalk' /\ TablesInOrder'
<1>1. visited' = {} /\ UNCHANGED <<program, tables>>
  BY DEF BeginWalk
<1> QED
  BY <1>1, TablesStandInOrder DEF DepthOneInvariant, OrderOfWalk

LEMMA FinishInOrder ==
    ASSUME DepthOneInvariant, FinishWalk
    PROVE  OrderOfWalk' /\ TablesInOrder'
<1>1. /\ root # NoKey /\ root' = NoKey /\ queue = << >> /\ edges = << >> /\ UNCHANGED program
      /\ DOMAIN tables' = DOMAIN tables
      /\ \A k \in DOMAIN tables : k # root => tables'[k] = tables[k]
      /\ root \in DOMAIN tables => tables'[root].members = members
  BY DEF FinishWalk
<1>2. visited # {}
  <2>1. << >> # <<Item(root, "own", NoKey, Unadapted)>>
    BY EmptyList, OneItem
  <2> QED
    BY <1>1, <2>1 DEF DepthOneInvariant, HierarchyInvariant, WalkIsSound
<1>3. /\ \A k \in Used(root) : IsClass(k) => k \in visited
      /\ \A k \in Extended(root) : IsClass(k) => k \in visited
  BY <1>1, <1>2, EmptyList DEF DepthOneInvariant, OrderOfWalk, WalkInOrder, Ahead, Queued, Awaited
<1>4. TableInOrder(members, root)
  <2> SUFFICES ASSUME NEW n \in Names, ~DeclaresItself(root, n)
               PROVE  IF members[n] = NoEntry
                      THEN TraitsDeclaring(root, n) \cup ParentsDeclaring(root, n) = {}
                      ELSE InOrder(members[n], root, n)
    BY DEF TableInOrder
  <2>1. NameInOrder(n)
    BY <1>1, <1>2 DEF DepthOneInvariant, OrderOfWalk
  <2>2. TraitsDeclaring(root, n) \cup ParentsDeclaring(root, n) \subseteq visited
    BY <1>3 DEF TraitsDeclaring, ParentsDeclaring
  <2> QED
    BY <2>1, <2>2 DEF NameInOrder
<1>5. TablesInOrder'
  <2> SUFFICES ASSUME NEW k \in Keys, Linearized(k)' PROVE TableInOrder(tables[k].members, k)'
    BY DEF TablesInOrder
  <2>1. PICK entries : entries = tables'[k].members
    OBVIOUS
  <2>2. TableInOrder(entries, k)
    BY <1>1, <1>4, <2>1
    DEF DepthOneInvariant, HierarchyInvariant, TablesAreSound, TablesInOrder, Linearized
  <2>3. TableInOrder(entries, k)'
    BY <1>1, <2>2, TextsInOrder
  <2> QED
    BY <2>1, <2>3
<1> QED
  BY <1>1, <1>5 DEF OrderOfWalk

\* What is used without adaptations offers what it declares.
LEMMA UnadaptedOffers ==
    ASSUME NEW item, item.adapt = Unadapted, NEW n
    PROVE  Offering(item, n) # {} <=> DeclaresItself(item.key, n)
<1>1. item.adapt.losers = {} /\ item.adapt.aliases = {}
  BY DEF Unadapted
<1>2. \A i : Offers(item, i, n) <=> Declared(item.key).own[i] = n
  BY <1>1 DEF Offers
<1> QED
  BY <1>2 DEF Offering, DeclaresItself

LEMMA RootInOrder ==
    ASSUME DepthOneInvariant, Visit, visited = {}
    PROVE  OrderOfWalk'
<1>1. /\ root # NoKey /\ queue = <<RootItem>> /\ members = Untouched /\ IsClass(root)
      /\ UNCHANGED <<program, root>>
  BY DEF DepthOneInvariant, HierarchyInvariant, WalkIsSound, Visit, RootItem
<1>2. Head(queue) = RootItem /\ DOMAIN Tail(queue) = {}
  <2> DEFINE x == RootItem
  <2> HIDE DEF x
  <2>1. IsList(<<x>>) /\ <<x>> # << >> /\ <<x>>[1] = x /\ DOMAIN <<x>> = {1}
    BY OneItem, EmptyList
  <2>2. Head(<<x>>) = <<x>>[1] /\ \A i \in DOMAIN Tail(<<x>>) : i + 1 \in DOMAIN <<x>>
    BY <2>1, ListTail
  <2>3. DOMAIN Tail(<<x>>) \subseteq Nat \ {0}
    BY <2>1, ListTail, EmptyList, ConcatInOrder
  <2>4. \A i \in DOMAIN Tail(<<x>>) : i + 1 = 1
    BY <2>1, <2>2
  <2> QED
    BY <1>1, <2>1, <2>2, <2>3, <2>4 DEF x
<1>3. RootItem.key = root /\ RootItem.adapt = Unadapted
  BY DEF RootItem, Item
<1>4. /\ visited' = {root}
      /\ members' = [n \in Names |-> FirstEntry(RootItem, n)]
      /\ edges' = [i \in DOMAIN EdgesOf(root) |-> <<RootItem, EdgesOf(root)[i]>>]
      /\ DOMAIN queue' = {}
  BY <1>2, <1>3 DEF Visit
<1>5. RootItem' = RootItem /\ \A relation : EarlyEdges(root, relation)' = EarlyEdges(root, relation)
  BY <1>1, TextsInOrder DEF RootItem, EarlyEdges
<1>6. \A relation \in {"uses", "extends"} :
      \A k \in IF relation = "uses" THEN Used(root) ELSE Extended(root) : Awaited(k, relation)'
  <2> SUFFICES ASSUME NEW relation \in {"uses", "extends"},
                      NEW k \in IF relation = "uses" THEN Used(root) ELSE Extended(root)
               PROVE  Awaited(k, relation)'
    OBVIOUS
  <2>1. PICK i \in DOMAIN EdgesOf(root) :
            /\ EdgesOf(root)[i] = Edge(root, relation, k)
            /\ \A j \in DOMAIN EdgesOf(root) : j <= i =>
                  EdgesOf(root)[j] \in EarlyEdges(root, relation)
    BY <1>1, EdgesInOrder
  <2>2. i \in DOMAIN edges' /\ edges'[i] = <<RootItem, Edge(root, relation, k)>>
    BY <1>4, <2>1
  <2>3. \A j \in DOMAIN edges' : j <= i =>
            \E e \in EarlyEdges(root, relation) : edges'[j] = <<RootItem, e>>
    BY <1>4, <2>1
  <2> QED
    BY <1>1, <1>4, <1>5, <2>2, <2>3 DEF Awaited, Early
<1>7. WalkInOrder'
  BY <1>1, <1>6, TextsInOrder DEF WalkInOrder, Ahead
<1>8. \A n \in Names : ~DeclaresItself(root, n) => NameInOrder(n)'
  <2> SUFFICES ASSUME NEW n \in Names, ~DeclaresItself(root, n) PROVE NameInOrder(n)'
    OBVIOUS
  <2>1. Offering(RootItem, n) = {}
    BY <1>3, UnadaptedOffers
  <2>2. members'[n] = NoEntry
    BY <1>1, <1>4, <2>1 DEF FirstEntry, Untouched
  <2>3. visited' \cap (TraitsDeclaring(root, n) \cup ParentsDeclaring(root, n)) = {}
    BY <1>4 DEF TraitsDeclaring, ParentsDeclaring
  <2> QED
    BY <1>1, <2>2, <2>3, TextsInOrder DEF NameInOrder
<1> QED
  BY <1>1, <1>7, <1>8, SamePrograms DEF OrderOfWalk

LEMMA NewEntryInOrder ==
    ASSUME DepthOneInvariant, root # NoKey, visited # {}, edges = << >>, queue # << >>,
           NEW item, item = Head(queue), item.key \notin visited,
           NEW n \in Names, ~DeclaresItself(root, n), members[n] = NoEntry
    PROVE  IF Offering(item, n) = {}
           THEN item.key \notin TraitsDeclaring(root, n) \cup ParentsDeclaring(root, n)
           ELSE \A entry : /\ entry # NoEntry
                           /\ entry.owner = item.key /\ entry.origin = item.origin
                           /\ entry.anchor = item.anchor
                           => InOrder(entry, root, n)
<1>1. /\ IsList(queue) /\ ItemIsSound(item) /\ IsClass(item.key) /\ WalkInOrder
      /\ visited \cap (TraitsDeclaring(root, n) \cup ParentsDeclaring(root, n)) = {}
  <2>1. IsList(queue) /\ \A i \in DOMAIN queue : ItemIsSound(queue[i])
    BY DEF DepthOneInvariant, HierarchyInvariant, WalkIsSound, QueueIsSound
  <2>2. ItemIsSound(item)
    BY <2>1, ListTail
  <2>3. WalkInOrder /\ NameInOrder(n)
    BY DEF DepthOneInvariant, OrderOfWalk
  <2> QED
    BY <2>1, <2>2, <2>3 DEF ItemIsSound, NameInOrder
<1>2. \A t \in Used(root) : IsClass(t) /\ t \notin visited => TraitOfRoot(item)
  <2> SUFFICES ASSUME NEW t \in Used(root), IsClass(t), t \notin visited PROVE TraitOfRoot(item)
    OBVIOUS
  <2>1. NoLater(item, "uses")
    BY <1>1, HeadIsEarly DEF WalkInOrder
  <2> QED
    BY <2>1 DEF NoLater
<1>3. \A p \in Extended(root) : IsClass(p) /\ p \notin visited => TraitOfRoot(item) \/ ParentOfRoot(item)
  <2> SUFFICES ASSUME NEW p \in Extended(root), IsClass(p), p \notin visited
               PROVE  TraitOfRoot(item) \/ ParentOfRoot(item)
    OBVIOUS
  <2>1. NoLater(item, "extends")
    BY <1>1, HeadIsEarly DEF WalkInOrder
  <2> QED
    BY <2>1 DEF NoLater
<1>4. ParentOfRoot(item) => item.key \in Extended(root) \ Used(root) /\ item.adapt = Unadapted
  <2> SUFFICES ASSUME ParentOfRoot(item)
               PROVE  item.key \in Extended(root) \ Used(root) /\ item.adapt = Unadapted
    OBVIOUS
  <2>1. item.origin = "inherited" /\ item.key \in Extended(root)
    BY DEF ParentOfRoot
  <2>2. item.key \notin Used(root)
    BY <1>1, <1>2, <2>1 DEF TraitOfRoot
  <2>3. item.adapt = Unadapted
    BY <1>1, <2>1 DEF ItemIsSound, Item
  <2> QED
    BY <2>1, <2>2, <2>3
<1>5. CASE Offering(item, n) = {}
  <2>1. ~(DeclaresItself(item.key, n) /\ item.adapt = Unadapted)
    BY <1>5, UnadaptedOffers
  <2>2. item.key \notin TraitsDeclaring(root, n)
    <3> SUFFICES ASSUME item.key \in TraitsDeclaring(root, n) PROVE FALSE
      OBVIOUS
    <3>1. /\ item.key \in Used(root) /\ Adaptations(root, item.key) = Unadapted
          /\ IsClass(item.key) /\ DeclaresItself(item.key, n)
      BY DEF TraitsDeclaring
    <3>2. item.adapt = Adaptations(root, item.key)
      BY <1>2, <3>1 DEF TraitOfRoot
    <3> QED
      BY <2>1, <3>1, <3>2
  <2>3. item.key \notin ParentsDeclaring(root, n)
    <3> SUFFICES ASSUME item.key \in ParentsDeclaring(root, n) PROVE FALSE
      OBVIOUS
    <3>1. /\ item.key \in Extended(root) /\ item.key \notin Used(root)
          /\ IsClass(item.key) /\ DeclaresItself(item.key, n)
      BY DEF ParentsDeclaring
    <3>2. ParentOfRoot(item)
      BY <1>3, <3>1 DEF TraitOfRoot
    <3> QED
      BY <1>4, <2>1, <3>1, <3>2
  <2> QED
    BY <1>5, <2>2, <2>3
<1>6. CASE Offering(item, n) # {}
  <2> SUFFICES ASSUME NEW entry, entry # NoEntry, entry.owner = item.key,
                      entry.origin = item.origin, entry.anchor = item.anchor
               PROVE  InOrder(entry, root, n)
    BY <1>6
  <2>1. TraitOfRoot(item) => PastedInto(entry, root)
    BY DEF TraitOfRoot, PastedInto
  <2>2. ASSUME TraitsDeclaring(root, n) # {}
        PROVE  PastedInto(entry, root)
    <3>1. PICK t \in TraitsDeclaring(root, n) : t \notin visited
      BY <1>1, <2>2
    <3>2. t \in Used(root) /\ IsClass(t)
      BY DEF TraitsDeclaring
    <3> QED
      BY <1>2, <2>1, <3>1, <3>2
  <2>3. ASSUME ParentsDeclaring(root, n) # {}
        PROVE  entry.owner \in ParentsDeclaring(root, n) \/ PastedInto(entry, root)
    <3>1. PICK p \in ParentsDeclaring(root, n) : p \notin visited
      BY <1>1, <2>3
    <3>2. p \in Extended(root) /\ IsClass(p)
      BY DEF ParentsDeclaring
    <3>3. TraitOfRoot(item) \/ ParentOfRoot(item)
      BY <1>3, <3>1, <3>2
    <3>4. ASSUME ParentOfRoot(item)
          PROVE  item.key \in ParentsDeclaring(root, n)
      <4>1. item.key \in Extended(root) \ Used(root) /\ DeclaresItself(item.key, n)
        BY <1>4, <1>6, <3>4, UnadaptedOffers
      <4> QED
        BY <1>1, <4>1 DEF ParentsDeclaring
    <3> QED
      BY <2>1, <3>3, <3>4
  <2> QED
    BY <2>2, <2>3 DEF InOrder
<1> QED
  BY <1>5, <1>6

LEMMA LaterInOrder ==
    ASSUME DepthOneInvariant, Visit, visited # {}
    PROVE  OrderOfWalk'
<1>1. PICK item : item = Head(queue)
  OBVIOUS
<1>2. /\ root # NoKey /\ edges = << >> /\ queue # << >> /\ queue' = Tail(queue)
      /\ item.key \notin visited /\ visited' = visited \cup {item.key}
      /\ members' = [n \in Names |-> FirstEntry(item, n)]
      /\ UNCHANGED <<program, root>>
  BY <1>1 DEF Visit
<1>3. /\ IsList(queue) /\ ItemIsSound(item) /\ WalkInOrder
      /\ \A n \in Names : ~DeclaresItself(root, n) => NameInOrder(n)
  <2>1. IsList(queue) /\ \A i \in DOMAIN queue : ItemIsSound(queue[i])
    BY <1>2 DEF DepthOneInvariant, HierarchyInvariant, WalkIsSound, QueueIsSound
  <2>2. ItemIsSound(item)
    BY <1>1, <1>2, <2>1, ListTail
  <2> QED
    BY <1>2, <2>1, <2>2 DEF DepthOneInvariant, OrderOfWalk
<1>4. \A k, relation : Ahead(k, relation) => Ahead(k, relation)'
  BY <1>1, <1>2, <1>3, PopKeepsAhead
<1>5. WalkInOrder'
  BY <1>2, <1>3, <1>4, TextsInOrder, SamePrograms DEF WalkInOrder
<1>6. \A n \in Names : ~DeclaresItself(root, n) => NameInOrder(n)'
  <2> SUFFICES ASSUME NEW n \in Names, ~DeclaresItself(root, n) PROVE NameInOrder(n)'
    OBVIOUS
  <2>1. NameInOrder(n) /\ members'[n] = FirstEntry(item, n)
    BY <1>2, <1>3
  <2>2. /\ TraitsDeclaring(root, n)' = TraitsDeclaring(root, n)
        /\ ParentsDeclaring(root, n)' = ParentsDeclaring(root, n)
    BY <1>2, TextsInOrder
  <2>3. \A entry : InOrder(entry, root, n)' <=> InOrder(entry, root, n)
    BY <1>2, <2>2 DEF InOrder, PastedInto
  <2>4. CASE members[n] # NoEntry
    <3>1. members'[n] = members[n] /\ InOrder(members[n], root, n)
      BY <2>1, <2>4 DEF FirstEntry, NameInOrder
    <3>2. PICK new : new = members[n]
      OBVIOUS
    <3>3. members'[n] = new /\ new # NoEntry /\ InOrder(new, root, n)'
      BY <2>3, <2>4, <3>1, <3>2
    <3> QED
      BY <1>2, <3>3 DEF NameInOrder
  <2>5. CASE members[n] = NoEntry /\ Offering(item, n) = {}
    <3>1. members'[n] = NoEntry
      BY <2>1, <2>5 DEF FirstEntry
    <3>2. item.key \notin TraitsDeclaring(root, n) \cup ParentsDeclaring(root, n)
      BY <1>1, <1>2, <2>5, NewEntryInOrder
    <3>3. visited' \cap (TraitsDeclaring(root, n) \cup ParentsDeclaring(root, n)) = {}
      BY <1>2, <2>1, <2>5, <3>2 DEF NameInOrder
    <3> QED
      BY <1>2, <2>2, <3>1, <3>3 DEF NameInOrder
  <2>6. CASE members[n] = NoEntry /\ Offering(item, n) # {}
    <3>1. PICK m : m = Declared(item.key).own[CHOOSE i \in Offering(item, n) :
                                                 \A j \in Offering(item, n) : i <= j]
      OBVIOUS
    <3>2. members'[n] = Entry(item, m)
      BY <2>1, <2>6, <3>1 DEF FirstEntry
    <3>3. IsClass(item.key) /\ m \in Names
      BY <1>3, <2>6, <3>1, Offered DEF ItemIsSound
    <3>4. item.origin \in {"own", "trait", "inherited"} /\ item.anchor \in Keys \cup {NoKey}
      BY <1>3 DEF ItemIsSound, Item
    <3>5. Entry(item, m) # NoEntry
      BY <3>3, <3>4, HierarchyAssumption DEF Entry, IsClass
    <3>6. \A entry : /\ entry # NoEntry
                     /\ entry.owner = item.key /\ entry.origin = item.origin
                     /\ entry.anchor = item.anchor
                     => InOrder(entry, root, n)
      BY <1>1, <1>2, <2>6, NewEntryInOrder
    <3>7. InOrder(members'[n], root, n)
      BY <3>2, <3>5, <3>6 DEF Entry
    <3>8. PICK new : new = members'[n]
      OBVIOUS
    <3>9. new # NoEntry /\ InOrder(new, root, n)'
      BY <2>3, <3>2, <3>5, <3>7, <3>8
    <3> QED
      BY <1>2, <3>8, <3>9 DEF NameInOrder
  <2> QED
    BY <2>4, <2>5, <2>6
<1> QED
  BY <1>2, <1>5, <1>6, SamePrograms DEF OrderOfWalk

LEMMA VisitInOrder ==
    ASSUME DepthOneInvariant, Visit
    PROVE  OrderOfWalk' /\ TablesInOrder'
<1>1. UNCHANGED <<program, tables>>
  BY DEF Visit
<1>2. TablesInOrder'
  BY <1>1, TablesStandInOrder DEF DepthOneInvariant
<1> QED
  BY <1>2, RootInOrder, LaterInOrder

LEMMA WalkKeepsOrder ==
    ASSUME DepthOneInvariant, Walk
    PROVE  DepthOneInvariant'
<1>1. HierarchyInvariant'
  BY WalkKeeps DEF DepthOneInvariant
<1>2. OrderOfWalk' /\ TablesInOrder'
  BY BeginInOrder, RevisitInOrder, VisitInOrder, FollowInOrder, FinishInOrder DEF Walk
<1> QED
  BY <1>1, <1>2 DEF DepthOneInvariant

LEMMA OrderStands ==
    ASSUME DepthOneInvariant, UNCHANGED <<program, hierarchy>>
    PROVE  DepthOneInvariant'
<1>1. UNCHANGED <<program, root, queue, visited, edges, members, tables>>
  BY DEF hierarchy, walking
<1>2. HierarchyInvariant'
  BY HierarchyStands DEF DepthOneInvariant
<1>3. TablesInOrder'
  BY <1>1, TablesStandInOrder DEF DepthOneInvariant
<1>4. /\ \A n : NameInOrder(n)' <=> NameInOrder(n)
      /\ \A k, n : DeclaresItself(k, n)' <=> DeclaresItself(k, n)
      /\ \A k : IsClass(k)' <=> IsClass(k)
      /\ \A k : Used(k)' = Used(k) /\ Extended(k)' = Extended(k)
  BY <1>1, NamesStand, SamePrograms, TextsInOrder
<1>5. \A x, relation : (NoLater(x, relation)' <=> NoLater(x, relation))
  BY <1>1, OrderOfTexts
<1>6. \A x, relation : (Early(x, relation)' <=> Early(x, relation))
  BY <1>1, OrderOfTexts
<1>7. \A k, relation : Ahead(k, relation) => Ahead(k, relation)'
  BY <1>1, <1>5, <1>6 DEF Ahead, Queued, Awaited, RootItem
<1>8. WalkInOrder => WalkInOrder'
  BY <1>1, <1>4, <1>7 DEF WalkInOrder
<1>9. OrderOfWalk'
  BY <1>1, <1>4, <1>8 DEF DepthOneInvariant, OrderOfWalk
<1> QED
  BY <1>2, <1>3, <1>9 DEF DepthOneInvariant

LEMMA NoWalkYet ==
    ASSUME root = NoKey, tables = [k \in Keys |-> NoTable]
    PROVE  DepthOneInvariant
BY NoWalk DEF DepthOneInvariant, OrderOfWalk, TablesInOrder, Linearized

LEMMA PrecedenceFromInvariant == DepthOneInvariant => DepthOnePrecedence
<1> SUFFICES ASSUME DepthOneInvariant, NEW k \in Keys, NEW n \in Names, Linearized(k)
             PROVE  LET entry == tables[k].members[n]
                    IN  IF DeclaresItself(k, n) THEN entry.owner = k
                        ELSE IF TraitsDeclaring(k, n) # {} THEN PastedInto(entry, k)
                        ELSE ParentsDeclaring(k, n) # {} =>
                                \/ entry # NoEntry /\ entry.owner \in ParentsDeclaring(k, n)
                                \/ PastedInto(entry, k)
  BY DEF DepthOnePrecedence
<1>1. DeclaresItself(k, n) => tables[k].members[n].owner = k
  <2>1. OwnFirst(tables[k].members, k)
    BY DEF DepthOneInvariant, HierarchyInvariant, TablesAreSound
  <2>2. OwnEntry(k, n).owner = k
    BY DEF OwnEntry
  <2> QED
    BY <2>1, <2>2 DEF OwnFirst
<1>2. TableInOrder(tables[k].members, k)
  BY DEF DepthOneInvariant, TablesInOrder
<1> QED
  BY <1>1, <1>2 DEF TableInOrder, InOrder

\* Of any project, whatever its traits and parents: `self` in a pasted method is
\* the class-like it was pasted into, and an inherited method is asked again of
\* one that answers for itself.
THEOREM Linearization == HierarchySpec => [](SelfIsTheUser /\ RekeyIsOneHop)
<1>1. HierarchyInit => HierarchyInvariant
  BY NoWalk DEF HierarchyInit
<1>2. HierarchyInvariant /\ [Walk]_<<program, hierarchy>> => HierarchyInvariant'
  BY WalkKeeps, HierarchyStands
<1> QED
  BY <1>1, <1>2, SelfFromInvariant, RekeyFromInvariant, PTL DEF HierarchySpec

\* And whatever is declared or used twice, adapted, or parent and trait at once:
\* a member is the class-like's own, else a trait's it uses, else a parent's.
THEOREM Precedence == HierarchySpec => []DepthOnePrecedence
<1>1. HierarchyInit => DepthOneInvariant
  BY NoWalkYet DEF HierarchyInit
<1>2. DepthOneInvariant /\ [Walk]_<<program, hierarchy>> => DepthOneInvariant'
  BY WalkKeepsOrder, OrderStands
<1> QED
  BY <1>1, <1>2, PrecedenceFromInvariant, PTL DEF HierarchySpec


----------------------------------------------------------------------------
(* One table: the walk of a class-like is a function of the program, so     *)
(* that its table is the same whenever it is made and whatever was made     *)
(* before it.                                                               *)

\* A walk between two of its steps, and how one begins.
WalkNow ==
    [todo |-> queue, seen |-> visited, left |-> edges, found |-> members, noted |-> virtuals,
     followed |-> ancestry]

StartOf(k) ==
    [todo |-> <<Item(k, "own", NoKey, Unadapted)>>, seen |-> {}, left |-> << >>,
     found |-> Untouched, noted |-> [n \in Names |-> NoKey], followed |-> << >>]

EntryFrom(found, item, name) ==
    IF found[name] # NoEntry \/ Offering(item, name) = {} THEN found[name]
    ELSE Entry(item, Declared(item.key).own[CHOOSE i \in Offering(item, name) :
                                               \A j \in Offering(item, name) : i <= j])

QueuedBy(item, edge) ==
    Item(edge.target, OriginAcross(edge.relation), AnchorAcross(item, edge.relation),
         IF edge.relation = "uses" THEN Adaptations(item.key, edge.target) ELSE Unadapted)

\* What a walk does next: follow an edge, drop a class-like it has seen, visit one.
FollowedFrom(w, item, edge) ==
    [todo     |-> IF IsClass(edge.target) /\ edge.relation # "implicit"
                  THEN Append(w.todo, QueuedBy(item, edge)) ELSE w.todo,
     seen     |-> w.seen, left |-> Tail(w.left), found |-> w.found, noted |-> w.noted,
     followed |-> IF edge.relation = "implicit" /\ ~IsStub(edge.target)
                  THEN w.followed ELSE Append(w.followed, edge)]

DroppedFrom(w) ==
    [todo |-> Tail(w.todo), seen |-> w.seen, left |-> w.left, found |-> w.found,
     noted |-> w.noted, followed |-> w.followed]

VisitedFrom(w, item) ==
    [todo     |-> Tail(w.todo), seen |-> w.seen \cup {item.key},
     left     |-> [i \in DOMAIN EdgesOf(item.key) |-> <<item, EdgesOf(item.key)[i]>>],
     found    |-> [n \in Names |-> EntryFrom(w.found, item, n)],
     noted    |-> [n \in Names |-> IF w.noted[n] = NoKey /\ n \in Declared(item.key).virtual
                                   THEN item.key ELSE w.noted[n]],
     followed |-> w.followed]

StepFrom(w) ==
    IF w.left # << >> THEN FollowedFrom(w, Head(w.left)[1], Head(w.left)[2])
    ELSE IF Head(w.todo).key \in w.seen THEN DroppedFrom(w)
    ELSE VisitedFrom(w, Head(w.todo))

AtEnd(w) == w.left = << >> /\ w.todo = << >>

TableOf(w) ==
    LET all == {w.followed[i] : i \in DOMAIN w.followed}
    IN  [members  |-> w.found,
         virtuals |-> w.noted,
         ancestry |-> w.followed,
         stubs    |-> StubFrontier(StubSeeds(all)),
         cyclic   |-> Cyclic(all),
         opaque   |-> Opaque(all)]

\* The first n steps of the walk of a class-like.
WalkOf(k, n, w) ==
    /\ n \in Nat /\ w[0] = StartOf(k)
    /\ \A i \in 0..(n - 1) : ~AtEnd(w[i]) /\ w[i + 1] = StepFrom(w[i])

MadeBy(k, table) == \E n : \E w : WalkOf(k, n, w) /\ AtEnd(w[n]) /\ table = TableOf(w[n])

TheTable(k) == CHOOSE table : MadeBy(k, table)

\* The tables a program has once all are made.
FinalTables == [k \in Keys |-> IF IsClass(k) THEN TheTable(k) ELSE NoTable]

\* The walk on its way is the one of its root, and a table is the one there is.
Determined ==
    /\ tables = [k \in Keys |-> tables[k]]
    /\ root # NoKey => root \in Keys /\ \E n : \E w : WalkOf(root, n, w) /\ w[n] = WalkNow
    /\ \A k \in Keys : Linearized(k) => IsClass(k) /\ tables[k] = TheTable(k)

LEMMA SameSteps ==
    ASSUME NEW k, NEW n, NEW w, WalkOf(k, n, w), NEW m, NEW u, WalkOf(k, m, u), n <= m
    PROVE  \A i \in 0..n : w[i] = u[i]
<1> DEFINE Bad == {i \in 0..n : w[i] # u[i]}
<1>1. n \in Nat /\ m \in Nat /\ w[0] = u[0]
  BY DEF WalkOf
<1>2. ASSUME Bad # {} PROVE FALSE
  <2>1. Bad \subseteq Nat
    BY <1>1
  <2> HIDE DEF Bad
  <2>2. PICK i \in Bad : \A j \in Bad : i <= j
    BY <1>2, <2>1, LeastNumber
  <2>3. i \in 0..n /\ w[i] # u[i] /\ \A j \in 0..n : j < i => w[j] = u[j]
    <3>1. i \in 0..n /\ w[i] # u[i]
      BY <2>2 DEF Bad
    <3>2. ASSUME NEW j \in 0..n, j < i PROVE w[j] = u[j]
      <4>1. j \notin Bad
        BY <1>1, <2>2, <3>1, <3>2
      <4> QED
        BY <3>2, <4>1 DEF Bad
    <3> QED
      BY <3>1, <3>2
  <2>4. i # 0
    BY <1>1, <2>3
  <2>5. i - 1 \in 0..(n - 1) /\ i - 1 \in 0..(m - 1) /\ (i - 1) + 1 = i /\ i - 1 \in 0..n /\ i - 1 < i
    BY <1>1, <2>3, <2>4
  <2>6. w[i] = StepFrom(w[i - 1]) /\ u[i] = StepFrom(u[i - 1])
    <3>1. w[(i - 1) + 1] = StepFrom(w[i - 1]) /\ u[(i - 1) + 1] = StepFrom(u[i - 1])
      BY <2>5 DEF WalkOf
    <3> QED
      BY <2>5, <3>1
  <2> QED
    BY <2>3, <2>5, <2>6
<1> QED
  BY <1>2

\* Whoever comes to the end of the walk has the table.
LEMMA OneTable ==
    ASSUME NEW k, NEW n, NEW w, WalkOf(k, n, w), AtEnd(w[n])
    PROVE  TheTable(k) = TableOf(w[n])
<1>1. ASSUME NEW m1, NEW w1, WalkOf(k, m1, w1), AtEnd(w1[m1]),
             NEW m2, NEW w2, WalkOf(k, m2, w2), AtEnd(w2[m2]), m1 <= m2
      PROVE  w1[m1] = w2[m2]
  <2>1. m1 \in Nat /\ m2 \in Nat
    BY <1>1 DEF WalkOf
  <2>2. w1[m1] = w2[m1]
    BY <1>1, <2>1, SameSteps
  <2>3. m1 = m2
    <3>1. ASSUME m1 # m2 PROVE FALSE
      <4>1. m1 \in 0..(m2 - 1)
        BY <1>1, <2>1, <3>1
      <4> QED
        BY <1>1, <2>2, <4>1 DEF WalkOf
    <3> QED
      BY <3>1
  <2> QED
    BY <2>2, <2>3
<1>2. ASSUME NEW m, NEW u, WalkOf(k, m, u), AtEnd(u[m])
      PROVE  u[m] = w[n]
  <2>1. n \in Nat /\ m \in Nat
    BY <1>2 DEF WalkOf
  <2>2. CASE n <= m
    BY <1>1, <1>2, <2>2
  <2>3. CASE m <= n
    BY <1>1, <1>2, <2>3
  <2> QED
    BY <2>1, <2>2, <2>3
<1>3. MadeBy(k, TableOf(w[n]))
  BY DEF MadeBy
<1>4. ASSUME NEW table, MadeBy(k, table) PROVE table = TableOf(w[n])
  <2>1. PICK m : \E u : WalkOf(k, m, u) /\ AtEnd(u[m]) /\ table = TableOf(u[m])
    BY <1>4 DEF MadeBy
  <2>2. PICK u : WalkOf(k, m, u) /\ AtEnd(u[m]) /\ table = TableOf(u[m])
    BY <2>1
  <2> QED
    BY <1>2, <2>2
<1> QED
  BY <1>3, <1>4 DEF TheTable

\* One step further.
LEMMA WalkGoesOn ==
    ASSUME NEW k, NEW n, NEW w, WalkOf(k, n, w), ~AtEnd(w[n])
    PROVE  \E m : \E u : WalkOf(k, m, u) /\ u[m] = StepFrom(w[n])
<1> DEFINE u == [i \in 0..(n + 1) |-> IF i <= n THEN w[i] ELSE StepFrom(w[n])]
<1>1. n \in Nat /\ n + 1 \in Nat
  BY DEF WalkOf
<1>2. \A i \in 0..n : u[i] = w[i]
  BY <1>1
<1>3. u[n + 1] = StepFrom(w[n])
  BY <1>1
<1> HIDE DEF u
<1>4. ASSUME NEW i \in 0..((n + 1) - 1)
      PROVE  ~AtEnd(u[i]) /\ u[i + 1] = StepFrom(u[i])
  <2>1. CASE i = n
    BY <1>1, <1>2, <1>3, <2>1
  <2>2. CASE i # n
    <3>1. i \in 0..(n - 1) /\ i \in 0..n /\ i + 1 \in 0..n
      BY <1>1, <2>2
    <3> QED
      BY <1>2, <3>1 DEF WalkOf
  <2> QED
    BY <2>1, <2>2
<1>5. u[0] = StartOf(k)
  BY <1>1, <1>2 DEF WalkOf
<1>6. WalkOf(k, n + 1, u)
  BY <1>1, <1>4, <1>5 DEF WalkOf
<1> QED
  BY <1>3, <1>6

\* The walk and the table are the same as long as the program is.
LEMMA WalksStand ==
    ASSUME UNCHANGED program
    PROVE  /\ \A k : IsClass(k)' = IsClass(k) /\ Declared(k)' = Declared(k)
           /\ \A k : StartOf(k)' = StartOf(k)
           /\ \A w : StepFrom(w)' = StepFrom(w)
           /\ \A w : TableOf(w)' = TableOf(w)
           /\ \A k, n, w : WalkOf(k, n, w)' <=> WalkOf(k, n, w)
           /\ \A k : TheTable(k)' = TheTable(k)
           /\ FinalTables' = FinalTables
<1>1. \A k : IsClass(k)' = IsClass(k) /\ Declared(k)' = Declared(k)
  BY DEF IsClass, Declared
<1>2. \A k : StartOf(k)' = StartOf(k)
  BY DEF StartOf, Untouched
<1>3. \A k : EdgesOf(k)' = EdgesOf(k)
  BY <1>1 DEF EdgesOf
<1>4. \A k, trait : Adaptations(k, trait)' = Adaptations(k, trait)
  <2> TAKE k, trait
  <2>1. PICK uses : uses = Declared(k).uses
    OBVIOUS
  <2> DEFINE clauses == {i \in DOMAIN uses : uses[i].trait = trait /\ uses[i].adapt # Unadapted}
  <2>2. Declared(k)'.uses = uses
    BY <1>1, <2>1
  <2>3. Adaptations(k, trait) =
          IF clauses = {} THEN Unadapted
          ELSE uses[CHOOSE i \in clauses : \A j \in clauses : j <= i].adapt
    BY <2>1 DEF Adaptations
  <2>4. Adaptations(k, trait)' =
          IF clauses = {} THEN Unadapted
          ELSE uses[CHOOSE i \in clauses : \A j \in clauses : j <= i].adapt
    BY <2>2 DEF Adaptations
  <2> QED
    BY <2>3, <2>4
<1>5. \A item, name : Offering(item, name)' = Offering(item, name)
  BY <1>1 DEF Offering, Offers
<1>6. \A found, item, name : EntryFrom(found, item, name)' = EntryFrom(found, item, name)
  <2> TAKE found, item, name
  <2>1. PICK own, offering : own = Declared(item.key).own /\ offering = Offering(item, name)
    OBVIOUS
  <2>2. Declared(item.key)'.own = own /\ Offering(item, name)' = offering
    BY <1>1, <1>5, <2>1
  <2> QED
    BY <2>1, <2>2 DEF EntryFrom, Entry
<1>7. \A w, item : VisitedFrom(w, item)' = VisitedFrom(w, item)
  BY <1>1, <1>3, <1>6 DEF VisitedFrom
<1>8. \A item, edge : QueuedBy(item, edge)' = QueuedBy(item, edge)
  BY <1>4 DEF QueuedBy, AnchorAcross
<1>9. \A w, item, edge : FollowedFrom(w, item, edge)' = FollowedFrom(w, item, edge)
  BY <1>1, <1>8 DEF FollowedFrom
<1>10. \A w : StepFrom(w)' = StepFrom(w)
  BY <1>7, <1>9 DEF StepFrom, DroppedFrom
<1>11. \A all : /\ SourceEdges(all)' = SourceEdges(all) /\ StubSeeds(all)' = StubSeeds(all)
  BY <1>1 DEF SourceEdges, StubSeeds
<1>12. \A all : Cyclic(all)' = Cyclic(all) /\ Opaque(all)' = Opaque(all)
  BY <1>1, <1>11 DEF Cyclic, Opaque
<1>13. \A w : TableOf(w)' = TableOf(w)
  BY <1>11, <1>12 DEF TableOf
<1>14. \A k, n, w : WalkOf(k, n, w)' <=> WalkOf(k, n, w)
  BY <1>2, <1>10 DEF WalkOf
<1>15. \A k, table : MadeBy(k, table)' <=> MadeBy(k, table)
  BY <1>13, <1>14 DEF MadeBy
<1>16. \A k : TheTable(k)' = TheTable(k)
  BY <1>15 DEF TheTable
<1>17. FinalTables' = FinalTables
  BY <1>1, <1>16 DEF FinalTables
<1> QED
  BY <1>1, <1>2, <1>10, <1>13, <1>14, <1>16, <1>17

\* The steps of Hierarchy are those of the walk.
LEMMA StepsOfTheWalk ==
    ASSUME Revisit \/ Visit \/ FollowEdge
    PROVE  /\ ~AtEnd(WalkNow) /\ WalkNow' = StepFrom(WalkNow)
           /\ root # NoKey /\ UNCHANGED <<program, root, tables>>
<1>1. CASE Revisit
  BY <1>1 DEF Revisit, AtEnd, WalkNow, StepFrom, DroppedFrom
<1>2. CASE Visit
  <2>1. \A item, name : FirstEntry(item, name) = EntryFrom(members, item, name)
    BY DEF FirstEntry, EntryFrom
  <2> QED
    BY <1>2, <2>1 DEF Visit, AtEnd, WalkNow, StepFrom, VisitedFrom
<1>3. CASE FollowEdge
  BY <1>3 DEF FollowEdge, AtEnd, WalkNow, StepFrom, FollowedFrom, QueuedBy
<1> QED
  BY <1>1, <1>2, <1>3

LEMMA DeterminedAtFirst ==
    ASSUME root = NoKey, tables = [k \in Keys |-> NoTable]
    PROVE  Determined
BY DEF Determined, Linearized

LEMMA BeginDetermined ==
    ASSUME Determined, NEW k \in Keys, BeginWalk(k)
    PROVE  Determined'
<1>1. UNCHANGED <<program, tables>> /\ root' = k /\ WalkNow' = StartOf(k)
  BY DEF BeginWalk, WalkNow, StartOf
<1> DEFINE w == [i \in {0} |-> StartOf(k)]
<1>2. w[0] = StartOf(k)
  OBVIOUS
<1> HIDE DEF w
<1>3. WalkOf(k, 0, w)
  BY <1>2 DEF WalkOf
<1>4. WalkOf(k, 0, w)'
  BY <1>1, <1>3, WalksStand
<1>5. \A j \in Keys : Linearized(j)' => IsClass(j)' /\ tables'[j] = TheTable(j)'
  BY <1>1, WalksStand DEF Determined, Linearized
<1>6. \E n : \E u : WalkOf(k, n, u)' /\ u[n] = WalkNow'
  BY <1>1, <1>2, <1>4
<1> QED
  BY <1>1, <1>5, <1>6 DEF Determined

LEMMA StepDetermined ==
    ASSUME Determined, Revisit \/ Visit \/ FollowEdge
    PROVE  Determined'
<1>1. /\ ~AtEnd(WalkNow) /\ WalkNow' = StepFrom(WalkNow)
      /\ root # NoKey /\ UNCHANGED <<program, root, tables>>
  BY StepsOfTheWalk
<1>2. PICK k : k = root
  OBVIOUS
<1>3. PICK n : \E w : WalkOf(k, n, w) /\ w[n] = WalkNow
  BY <1>1, <1>2 DEF Determined
<1>4. PICK w : WalkOf(k, n, w) /\ w[n] = WalkNow
  BY <1>3
<1>5. PICK m : \E u : WalkOf(k, m, u) /\ u[m] = StepFrom(w[n])
  BY <1>1, <1>4, WalkGoesOn
<1>6. PICK u : WalkOf(k, m, u) /\ u[m] = StepFrom(w[n])
  BY <1>5
<1>7. WalkOf(k, m, u)' /\ u[m] = WalkNow'
  BY <1>1, <1>4, <1>6, WalksStand
<1>8. \A j \in Keys : Linearized(j)' => IsClass(j)' /\ tables'[j] = TheTable(j)'
  BY <1>1, WalksStand DEF Determined, Linearized
<1> QED
  BY <1>1, <1>2, <1>7, <1>8 DEF Determined

LEMMA FinishDetermined ==
    ASSUME HierarchyInvariant, Determined, FinishWalk
    PROVE  Determined'
<1>1. /\ root # NoKey /\ AtEnd(WalkNow) /\ UNCHANGED program /\ root' = NoKey
      /\ tables' = [tables EXCEPT ![root] = TableOf(WalkNow)]
  BY DEF FinishWalk, AtEnd, WalkNow, TableOf, Followed
<1>2. PICK k : k = root
  OBVIOUS
<1>3. PICK n : \E w : WalkOf(k, n, w) /\ w[n] = WalkNow
  BY <1>1, <1>2 DEF Determined
<1>4. PICK w : WalkOf(k, n, w) /\ w[n] = WalkNow
  BY <1>3
<1>5. TheTable(k) = TableOf(WalkNow)
  BY <1>1, <1>4, OneTable
<1>6. k \in Keys /\ IsClass(k)
  <2>1. IsClass(root)
    <3>1. << >> # <<Item(root, "own", NoKey, Unadapted)>>
      BY EmptyList, OneItem
    <3>2. queue = << >>
      BY DEF FinishWalk
    <3> QED
      BY <1>1, <3>1, <3>2 DEF HierarchyInvariant, WalkIsSound
  <2> QED
    BY <1>2, <2>1 DEF IsClass
<1>7. PICK table : table = TableOf(WalkNow)
  OBVIOUS
<1>8. /\ tables' = [j \in Keys |-> tables'[j]]
      /\ tables'[k] = table
      /\ \A j \in Keys : j # k => tables'[j] = tables[j]
  BY <1>1, <1>2, <1>6, <1>7 DEF Determined
<1>9. \A j \in Keys : Linearized(j)' => IsClass(j)' /\ tables'[j] = TheTable(j)'
  <2> TAKE j \in Keys
  <2>1. CASE j = k
    BY <1>1, <1>5, <1>6, <1>7, <1>8, <2>1, WalksStand
  <2>2. CASE j # k
    BY <1>1, <1>8, <2>2, WalksStand DEF Determined, Linearized
  <2> QED
    BY <2>1, <2>2
<1> QED
  BY <1>1, <1>8, <1>9 DEF Determined

LEMMA WalkKeepsDetermined ==
    ASSUME HierarchyInvariant, Determined, Walk
    PROVE  Determined'
BY BeginDetermined, StepDetermined, FinishDetermined DEF Walk

LEMMA DeterminedStands ==
    ASSUME Determined, UNCHANGED <<program, hierarchy>>
    PROVE  Determined'
<1>1. UNCHANGED <<program, root, queue, visited, edges, members, virtuals, ancestry, tables>>
  BY DEF hierarchy, walking
<1>2. WalkNow' = WalkNow
  BY <1>1 DEF WalkNow
<1>3. PICK k : k = root
  OBVIOUS
<1>4. root' # NoKey => k \in Keys /\ \E n : \E w : WalkOf(k, n, w)' /\ w[n] = WalkNow'
  BY <1>1, <1>2, <1>3, WalksStand DEF Determined
<1>5. \A j \in Keys : Linearized(j)' => IsClass(j)' /\ tables'[j] = TheTable(j)'
  BY <1>1, WalksStand DEF Determined, Linearized
<1> QED
  BY <1>1, <1>3, <1>4, <1>5 DEF Determined

\* Once all are made, the tables are those of the program.
LEMMA AllTables ==
    ASSUME Determined, \A k \in ClassKeys : Linearized(k)
    PROVE  tables = FinalTables
<1>1. \A k \in Keys : tables[k] = IF IsClass(k) THEN TheTable(k) ELSE NoTable
  BY DEF Determined, ClassKeys, Linearized
<1> QED
  BY <1>1 DEF Determined, FinalTables

(***************************************************************************)
(* `linearize` is a query: the table of a class-like is what its own walk  *)
(* makes of the program, whichever were made before it, and whichever      *)
(* walks came between.                                                     *)
(***************************************************************************)
THEOREM OneTableOfEach ==
    HierarchySpec => [](\A k \in Keys : Linearized(k) => IsClass(k) /\ tables[k] = TheTable(k))
<1> DEFINE Tables == \A k \in Keys : Linearized(k) => IsClass(k) /\ tables[k] = TheTable(k)
<1>1. HierarchyInit => HierarchyInvariant /\ Determined
  BY NoWalk, DeterminedAtFirst DEF HierarchyInit
<1>2. HierarchyInvariant /\ Determined /\ [Walk]_<<program, hierarchy>>
      => HierarchyInvariant' /\ Determined'
  BY WalkKeeps, HierarchyStands, WalkKeepsDetermined, DeterminedStands
<1>3. Determined => Tables
  BY DEF Determined
<1> QED
  BY <1>1, <1>2, <1>3, PTL DEF HierarchySpec

=============================================================================
